---------------------------- MODULE LuaTableProofs ----------------------------
(* The length of a table is a border, its chains lead to its entries, and a *)
(* table that does not shrink while it is weak refers to no freed object    *)
(* and keeps the map of LuaMap, for every program, hash function and size.  *)
EXTENDS LuaTable, FiniteSetTheorems, TLAPS

Values == {nil} \cup {program.stored[k] : k \in AllKeys}
Nodes  == [key : AllKeys \cup {nil}, dead : BOOLEAN, val : Values, next : Nat]
Tables == [arr : Seq(Values), hint : Nat, node : Seq(Nodes), lastfree : Nat]
Sizes  == 0..twoto[MAXABITS]

LinksIn(ns) == \A i \in DOMAIN ns : ns[i].next \in {0} \cup DOMAIN ns

(* A table, whose hint is in the array (the assertion of newhint,           *)
(* ltable.c:1284).                                                          *)
IsTable(T) ==
  /\ T \in Tables /\ asize(T) \in Sizes /\ LinksIn(T.node)
  /\ asize(T) > 0 => T.hint <= asize(T)

(* The entries of 'T' are in 'E', a set of keys with their values.          *)
NodeIn(n, E)    == n.val # nil => <<n.key, n.val>> \in E
NodesIn(ns, E)  == \A i \in DOMAIN ns : NodeIn(ns[i], E)
ArrayIn(arr, E) == \A i \in DOMAIN arr : arr[i] # nil => <<i, arr[i]>> \in E
Holds(T, E) == IsTable(T) /\ NodesIn(T.node, E) /\ ArrayIn(T.arr, E)
Entries(arr) == {<<i, arr[i]>> : i \in DOMAIN arr}
AllEntries   == AllKeys \X Values
Alive(A)     == {e \in AllEntries : {e[1], e[2]} \cap program.objects \subseteq A}

Others ==
  /\ alloc \subseteq program.objects /\ held \subseteq program.objects
  /\ key \in AllKeys \cup {nil, none, invalid} /\ left \subseteq AllKeys
Resizes == [k : AllKeys, v : Values, newt : {none} \cup Tables, asize : Sizes, nsize : Nat]
Resizing ==
  \/ Idle
  \/ /\ pending \in Resizes
     /\ pending.newt # none => IsTable(pending.newt) /\ NodesIn(pending.newt.node, AllEntries)
TypeInv == program \in Programs /\ Holds(t, AllEntries) /\ Others /\ Resizing

(* Entries, a resize and the traversal refer to allocated objects; the new  *)
(* nodes have copies of the part of the array that is about to vanish.      *)
ReferInv ==
  /\ Holds(t, Alive(alloc))
  /\ Roots \cap program.objects \subseteq alloc
  /\ ~Idle => /\ Knows(pending.k) /\ Knows(pending.v)
              /\ pending.newt # none => NodesIn(pending.newt.node, IF Shrinking THEN Entries(t.arr) ELSE {})
------------------------------------------------------------------------------
(* ---- numbers, induction and iteration ---- *)
LEMMA LeastIs ==
  ASSUME NEW S \in SUBSET Nat, S # {}
  PROVE  \E m \in S : \A y \in S : m <= y
<1>1. PICK x \in S : \A y \in S : ~(<<y, x>> \in OpToRel(<, Nat))
  BY WFMin, NatLessThanWellFounded
<1>2. ASSUME NEW y \in S PROVE x <= y
  <2>1. x \in Nat /\ y \in Nat /\ ~(y < x)  BY <1>1 DEF OpToRel
  <2> QED BY <2>1
<1> QED BY <1>2

LEMMA MinIs ==
  ASSUME NEW S \in SUBSET Nat, S # {}
  PROVE  Min(S) \in S /\ \A y \in S : Min(S) <= y
BY LeastIs DEF Min

LEMMA MaxIs ==
  ASSUME NEW n \in Nat, NEW S \in SUBSET (0..n), S # {}
  PROVE  Max(S) \in S /\ \A y \in S : y <= Max(S)
<1> DEFINE R == {i \in Nat : n - i \in S}
<1>1. R \in SUBSET Nat /\ R # {}
  <2>1. PICK k \in S : TRUE  OBVIOUS
  <2>2. n - k \in Nat /\ n - (n - k) = k  BY <2>1
  <2> QED BY <2>1, <2>2
<1> HIDE DEF R
<1>2. PICK m \in R : \A y \in R : m <= y  BY <1>1, LeastIs
<1>3. m \in Nat /\ n - m \in S  BY <1>2 DEF R
<1>4. ASSUME NEW y \in S PROVE n - m >= y
  <2>1. y \in Nat /\ n - y \in Nat /\ n - (n - y) = y  OBVIOUS
  <2>2. n - y \in R  BY <2>1 DEF R
  <2>3. m <= n - y  BY <1>2, <2>2
  <2> QED BY <2>1, <2>3, <1>3
<1>5. Max(S) \in S /\ \A y \in S : Max(S) >= y  BY <1>3, <1>4 DEF Max
<1>6. \A y \in S : y \in Int  OBVIOUS
<1> QED BY <1>5, <1>6

(* Induction over an interval. *)
LEMMA Upwards ==
  ASSUME NEW m \in Int, NEW n \in Int, NEW S, m \in S,
         \A k \in m..n : k # m /\ k - 1 \in S => k \in S
  PROVE  m..n \subseteq S
<1> DEFINE Bad == {i \in Nat : m + i \in m..n /\ m + i \notin S}
<1>1. Bad = {}
  <2> SUFFICES ASSUME Bad # {} PROVE FALSE  OBVIOUS
  <2>0. Bad \in SUBSET Nat  OBVIOUS
  <2>1. PICK b \in Bad : \A y \in Bad : b <= y
    <3> HIDE DEF Bad
    <3> QED BY <2>0, LeastIs
  <2>2. b \in Nat /\ m + b \in m..n /\ m + b \notin S  BY <2>1
  <2>3. b # 0  BY <2>2
  <2>4. b - 1 \in Nat /\ m + (b - 1) \in m..n /\ m + b \in m + 1..n /\ (m + b) - 1 = m + (b - 1)
    BY <2>2, <2>3
  <2>5. b - 1 \notin Bad  BY <2>1, <2>2, <2>4
  <2>6. m + (b - 1) \in S  BY <2>4, <2>5
  <2>7. m + b # m  BY <2>2, <2>3
  <2> QED BY <2>2, <2>4, <2>6, <2>7
<1>2. ASSUME NEW k \in m..n PROVE k \in S
  <2>1. k - m \in Nat /\ m + (k - m) = k  OBVIOUS
  <2>2. k - m \notin Bad  BY <1>1
  <2> QED BY <2>1, <2>2
<1> QED BY <1>2

(* A function given by its first value and a step from each to the next.   *)
Steps(F, m, n, S) == \A k \in m..n, s \in S : k # m => F[<<k, s>>] \in S
Iterates(f, F, m, n, b) == f = [k \in m..n |-> IF k = m THEN b ELSE F[<<k, f[k - 1]>>]]
LEMMA Iterate ==
  ASSUME NEW m \in Int, NEW n \in Int, m <= n, NEW S, NEW b \in S, NEW F, Steps(F, m, n, S)
  PROVE  \E f \in [m..n -> S] : Iterates(f, F, m, n, b)
<1>0. \A k \in m..n, s \in S : k # m => F[<<k, s>>] \in S  BY DEF Steps
<1> DEFINE Eq(f, j) == f = [k \in m..j |-> IF k = m THEN b ELSE F[<<k, f[k - 1]>>]]
           G == {j \in m..n : \E f \in [m..j -> S] : Eq(f, j)}
<1>1. m \in G
  <2> DEFINE g == [k \in m..m |-> b]
  <2>1. g \in [m..m -> S]  OBVIOUS
  <2>2. \A k \in m..m : k = m  OBVIOUS
  <2>3. Eq(g, m)  BY <2>2
  <2>4. m \in m..n  OBVIOUS
  <2> HIDE DEF g
  <2> QED BY <2>1, <2>3, <2>4
<1>2. ASSUME NEW j \in m..n, j # m, j - 1 \in G PROVE j \in G
  <2>1. PICK f \in [m..j - 1 -> S] : Eq(f, j - 1)  BY <1>2
  <2>2. j - 1 \in m..j - 1  BY <1>2
  <2> DEFINE g == [k \in m..j |-> IF k = j THEN F[<<j, f[j - 1]>>] ELSE f[k]]
  <2>3. F[<<j, f[j - 1]>>] \in S  BY <1>0, <1>2, <2>1, <2>2
  <2>4. \A k \in m..j : k # j => k \in m..j - 1  OBVIOUS
  <2>5. g \in [m..j -> S]  BY <2>1, <2>3, <2>4
  <2>6. ASSUME NEW k \in m..j PROVE g[k] = IF k = m THEN b ELSE F[<<k, g[k - 1]>>]
    <3>1. CASE k = j
      <4>1. j - 1 \in m..j /\ j - 1 # j  BY <1>2
      <4>2. g[j - 1] = f[j - 1]  BY <4>1
      <4> QED BY <3>1, <1>2, <4>2
    <3>2. CASE k # j
      <4>1. k \in m..j - 1  BY <3>2
      <4>2. g[k] = f[k]  BY <3>2
      <4>3. k # m => k - 1 \in m..j /\ k - 1 # j  BY <4>1
      <4>4. k # m => g[k - 1] = f[k - 1]  BY <4>3
      <4>5. f[k] = IF k = m THEN b ELSE F[<<k, f[k - 1]>>]  BY <2>1, <4>1
      <4> HIDE DEF g
      <4> QED BY <4>2, <4>4, <4>5
    <3> QED BY <3>1, <3>2
  <2>7. Eq(g, j)
    <3>1. g = [k \in m..j |-> g[k]]  OBVIOUS
    <3> HIDE DEF g
    <3> QED BY <3>1, <2>6
  <2> HIDE DEF g
  <2> QED BY <2>5, <2>7
<1>3. n \in m..n  OBVIOUS
<1> HIDE DEF G
<1>4. m..n \subseteq G  BY <1>1, <1>2, Upwards
<1>5. n \in G  BY <1>3, <1>4
<1> QED BY <1>5 DEF G, Iterates

(* ---- powers of two ---- *)
LEMMA Powers ==
  /\ twoto[0] = 1 /\ \A i \in 1..MAXABITS : twoto[i] = 2 * twoto[i - 1]
  /\ \A i \in 0..MAXABITS : twoto[i] \in Nat \ {0} /\ twoto[i] <= twoto[MAXABITS]
<1>0. MAXABITS \in Nat /\ MAXABITS \in Int /\ 0 \in Int /\ 0 <= MAXABITS  BY TableAssumption
<1> DEFINE F == [p \in (1..MAXABITS) \X Nat |-> 2 * p[2]]
<1>1. 1 \in Nat /\ Steps(F, 0, MAXABITS, Nat)
  <2>1. \A k \in 0..MAXABITS : k # 0 => k \in 1..MAXABITS  BY <1>0
  <2> QED BY <2>1 DEF Steps
<1>2. PICK f \in [0..MAXABITS -> Nat] : Iterates(f, F, 0, MAXABITS, 1)
  <2> HIDE DEF F
  <2> QED BY <1>0, <1>1, Iterate
<1>3. f = [k \in 0..MAXABITS |-> IF k = 0 THEN 1 ELSE 2 * f[k - 1]]
  <2>1. ASSUME NEW k \in 0..MAXABITS, k # 0 PROVE F[<<k, f[k - 1]>>] = 2 * f[k - 1]
    <3>1. k \in 1..MAXABITS /\ k - 1 \in 0..MAXABITS  BY <1>0, <2>1
    <3> QED BY <3>1
  <2> HIDE DEF F
  <2> QED BY <1>2, <2>1 DEF Iterates
<1>4. twoto = [k \in 0..MAXABITS |-> IF k = 0 THEN 1 ELSE 2 * twoto[k - 1]]
  BY <1>3 DEF twoto
<1>5. twoto[0] = 1 /\ \A i \in 1..MAXABITS : twoto[i] = 2 * twoto[i - 1]
  <2>1. \A i \in 0..MAXABITS : twoto[i] = IF i = 0 THEN 1 ELSE 2 * twoto[i - 1]  BY <1>4
  <2> QED BY <2>1, <1>0
<1>6. 0..MAXABITS \subseteq {i \in 0..MAXABITS : twoto[i] \in Nat \ {0}}
  <2> DEFINE S == {i \in 0..MAXABITS : twoto[i] \in Nat \ {0}}
  <2>1. 0 \in S  BY <1>0, <1>5
  <2>2. \A k \in 0..MAXABITS : k # 0 /\ k - 1 \in S => k \in S
    <3> TAKE k \in 0..MAXABITS
    <3>1. k # 0 => k \in 1..MAXABITS  BY <1>0
    <3> QED BY <3>1, <1>5
  <2> HIDE DEF S
  <2>3. 0..MAXABITS \subseteq S  BY <1>0, <2>1, <2>2, Upwards
  <2> QED BY <2>3 DEF S
<1>7. ASSUME NEW i \in 0..MAXABITS PROVE twoto[i] <= twoto[MAXABITS]
  <2> DEFINE S == {k \in i..MAXABITS : twoto[i] <= twoto[k]}
  <2>1. i \in S  BY <1>6
  <2>2. \A k \in i..MAXABITS : k # i /\ k - 1 \in S => k \in S
    <3> SUFFICES ASSUME NEW k \in i..MAXABITS, k # i PROVE k - 1 \in S => k \in S  OBVIOUS
    <3>1. k \in 1..MAXABITS /\ k \in i..MAXABITS /\ k \in 0..MAXABITS /\ k - 1 \in 0..MAXABITS
      BY <1>0
    <3>2. twoto[k] = 2 * twoto[k - 1] /\ twoto[k - 1] \in Nat /\ twoto[i] \in Nat  BY <1>5, <1>6, <3>1
    <3>3. twoto[i] <= twoto[k - 1] => twoto[i] <= twoto[k]  BY <3>2
    <3> QED BY <3>1, <3>3
  <2>3. MAXABITS \in i..MAXABITS  BY <1>0
  <2>5. i \in Int  OBVIOUS
  <2> HIDE DEF S
  <2>4. i..MAXABITS \subseteq S  BY <1>0, <2>5, <2>1, <2>2, Upwards
  <2> QED BY <2>3, <2>4 DEF S
<1> QED BY <1>5, <1>6, <1>7

LEMMA CeilIs ==
  ASSUME NEW k \in 0..MAXABITS, NEW n \in 0..twoto[k]
  PROVE  Ceillog2(n) \in 0..k /\ twoto[Ceillog2(n)] >= n
<1>0. MAXABITS \in Nat /\ MAXABITS \in Int /\ 0 \in Int /\ 0 <= MAXABITS  BY TableAssumption
<1> DEFINE S == {i \in 0..MAXABITS : twoto[i] >= n}
<1>1. k \in S /\ S \in SUBSET Nat  BY Powers
<1>2. PICK m \in S : \A y \in S : m <= y
  <2> HIDE DEF S
  <2> QED BY <1>1, LeastIs
<1>3. m \in 0..MAXABITS /\ twoto[m] >= n /\ (m = 0 \/ twoto[m - 1] < n)
  <2>1. m \in 0..MAXABITS /\ twoto[m] >= n  BY <1>2
  <2>2. ASSUME m # 0 PROVE twoto[m - 1] < n
    <3>1. m - 1 \in 0..MAXABITS /\ m - 1 \in Nat /\ ~(m <= m - 1)  BY <2>1, <2>2, <1>0
    <3>2. m - 1 \notin S  BY <3>1, <1>2
    <3>3. ~(twoto[m - 1] >= n)  BY <3>1, <3>2
    <3>4. twoto[m - 1] \in Nat /\ n \in Nat  BY <3>1, Powers
    <3> QED BY <3>3, <3>4
  <2> QED BY <2>1, <2>2
<1> DEFINE c == Ceillog2(n)
<1>4. c \in 0..MAXABITS /\ twoto[c] >= n /\ (c = 0 \/ twoto[c - 1] < n)  BY <1>3 DEF Ceillog2
<1>5. c <= k
  <2> SUFFICES ASSUME c > k PROVE FALSE  BY <1>0, <1>4
  <2>1. c # 0 /\ twoto[c - 1] < n /\ c - 1 \in k..MAXABITS  BY <1>0, <1>4
  <2>2. twoto[k] <= twoto[c - 1]
    <3> DEFINE U == {i \in k..MAXABITS : twoto[k] <= twoto[i]}
    <3>1. k \in U  BY Powers
    <3>2. \A i \in k..MAXABITS : i # k /\ i - 1 \in U => i \in U
      <4> SUFFICES ASSUME NEW i \in k..MAXABITS, i # k PROVE i - 1 \in U => i \in U  OBVIOUS
      <4>1. i \in 1..MAXABITS /\ i \in k..MAXABITS /\ i \in 0..MAXABITS /\ i - 1 \in 0..MAXABITS
        BY <1>0
      <4>2. twoto[i] = 2 * twoto[i - 1] /\ twoto[i - 1] \in Nat /\ twoto[k] \in Nat  BY Powers, <4>1
      <4>3. twoto[k] <= twoto[i - 1] => twoto[k] <= twoto[i]  BY <4>2
      <4> QED BY <4>1, <4>3
    <3> HIDE DEF U
    <3>3. k..MAXABITS \subseteq U  BY <1>0, <3>1, <3>2, Upwards
    <3> QED BY <2>1, <3>3 DEF U
  <2>3. twoto[k] \in Nat /\ twoto[c - 1] \in Nat /\ n \in Nat  BY Powers, <2>1, <1>0
  <2> QED BY <2>1, <2>2, <2>3
<1> HIDE DEF c
<1>6. c \in 0..k  BY <1>4, <1>5, <1>0
<1> QED BY <1>4, <1>6 DEF c

------------------------------------------------------------------------------
(* ---- the length ---- *)
Present(T, i) == i = 0 \/ ~Empty(T, i)
(* Between 'i' and 'j', a present index and an absent one.                  *)
Brackets(T, i, j) ==
  {s \in (i..j) \X (i..j) : s[1] < s[2] /\ Present(T, s[1]) /\ Empty(T, s[2])}

LEMMA HalveNarrows ==
  ASSUME NEW T, NEW i \in Nat, NEW j \in Nat, NEW s \in Brackets(T, i, j)
  PROVE  /\ Halve(T, s) \in Brackets(T, i, j)
         /\ (Halve(T, s) = s /\ s[2] - s[1] = 1) \/ Halve(T, s)[2] - Halve(T, s)[1] < s[2] - s[1]
<1>1. /\ s = <<s[1], s[2]>> /\ s[1] \in i..j /\ s[2] \in i..j /\ s[1] < s[2]
      /\ Present(T, s[1]) /\ Empty(T, s[2])
  BY DEF Brackets
<1>2. CASE s[2] - s[1] <= 1
  <2>1. Halve(T, s) = s /\ s[2] - s[1] = 1  BY <1>1, <1>2 DEF Halve
  <2> QED BY <2>1
<1>3. CASE ~(s[2] - s[1] <= 1)
  <2> DEFINE m == (s[1] + s[2]) \div 2
  <2>1. m \in i..j /\ s[1] < m /\ m < s[2] /\ m \in Nat /\ m # 0  BY <1>1, <1>3
  <2>2. Halve(T, s) = IF Empty(T, m) THEN <<s[1], m>> ELSE <<m, s[2]>>  BY <1>3 DEF Halve
  <2> HIDE DEF m
  <2>3. CASE Empty(T, m)
    <3>1. Halve(T, s) = <<s[1], m>>  BY <2>2, <2>3
    <3>2. <<s[1], m>> \in Brackets(T, i, j)  BY <1>1, <2>1, <2>3 DEF Brackets
    <3>3. m - s[1] < s[2] - s[1]  BY <1>1, <2>1
    <3> QED BY <3>1, <3>2, <3>3
  <2>4. CASE ~Empty(T, m)
    <3>1. Halve(T, s) = <<m, s[2]>>  BY <2>2, <2>4
    <3>2. <<m, s[2]>> \in Brackets(T, i, j)  BY <1>1, <2>1, <2>4 DEF Brackets, Present
    <3>3. s[2] - m < s[2] - s[1]  BY <1>1, <2>1
    <3> QED BY <3>1, <3>2, <3>3
  <2> QED BY <2>3, <2>4
<1> QED BY <1>2, <1>3

(* The binary search ends at a border.                                      *)
LEMMA BinsearchIs ==
  ASSUME NEW T, NEW i \in Nat, NEW j \in Nat, i < j, Present(T, i), Empty(T, j)
  PROVE  /\ binsearch(T, i, j) \in i..j - 1 /\ Present(T, binsearch(T, i, j))
         /\ Empty(T, binsearch(T, i, j) + 1)
<1> DEFINE B == Brackets(T, i, j)
           F == [p \in (0..j) \X B |-> Halve(T, p[2])]
           Eq(f) == [n \in 0..j |-> IF n = 0 THEN <<i, j>> ELSE Halve(T, f[n - 1])]
           s == CHOOSE f : f = Eq(f)
<1>0. 0 \in Int /\ j \in Int /\ 0 <= j /\ <<i, j>> \in B  BY DEF Brackets
<1>1. Steps(F, 0, j, B)  BY HalveNarrows DEF Steps
<1>2. PICK f \in [0..j -> B] : Iterates(f, F, 0, j, <<i, j>>)
  <2> HIDE DEF B, F
  <2> QED BY <1>0, <1>1, Iterate
<1>3. f = Eq(f)
  <2>1. ASSUME NEW n \in 0..j, n # 0 PROVE F[<<n, f[n - 1]>>] = Halve(T, f[n - 1])
    <3>1. n - 1 \in 0..j  BY <2>1
    <3>2. f[n - 1] \in B  BY <3>1, <1>2
    <3> HIDE DEF B
    <3> QED BY <3>2
  <2> HIDE DEF F, B
  <2> QED BY <1>2, <2>1 DEF Iterates
<1>4. s = Eq(s)
  <2> HIDE DEF Eq
  <2> QED BY <1>3
<1>5. /\ s[0] = <<i, j>>
      /\ \A n \in 0..j : n # 0 => s[n] = Halve(T, s[n - 1])
  <2> HIDE DEF s
  <2>1. \A n \in 0..j : s[n] = IF n = 0 THEN <<i, j>> ELSE Halve(T, s[n - 1])  BY <1>4
  <2>2. 0 \in 0..j  OBVIOUS
  <2> QED BY <2>1, <2>2
<1>6. binsearch(T, i, j) = s[j][1]  BY DEF binsearch
<1> HIDE DEF s, F, Eq
<1> DEFINE N == {n \in 0..j : s[n] \in B /\ (s[n][2] - s[n][1] = 1 \/ s[n][2] - s[n][1] <= j - n)}
<1>7. 0 \in N
  <2>1. <<i, j>>[2] - <<i, j>>[1] <= j - 0  OBVIOUS
  <2>2. 0 \in 0..j  OBVIOUS
  <2> HIDE DEF B
  <2> QED BY <2>1, <2>2, <1>0, <1>5
<1>8. ASSUME NEW n \in 0..j, n # 0, n - 1 \in N PROVE n \in N
  <2> DEFINE u == s[n - 1]
             v == Halve(T, u)
  <2>1. u \in B /\ (u[2] - u[1] = 1 \/ u[2] - u[1] <= j - (n - 1))  BY <1>8
  <2>2. s[n] = v  BY <1>8, <1>5
  <2> HIDE DEF u, N
  <2>3. v \in B /\ ((v = u /\ u[2] - u[1] = 1) \/ v[2] - v[1] < u[2] - u[1])
    BY <2>1, HalveNarrows
  <2> HIDE DEF v
  <2>4. /\ u[1] \in Int /\ u[2] \in Int /\ v[1] \in Int /\ v[2] \in Int
        /\ v[1] < v[2]
    BY <2>1, <2>3 DEF Brackets
  <2>5. v[2] - v[1] = 1 \/ v[2] - v[1] <= j - n
    <3>1. CASE v = u /\ u[2] - u[1] = 1  BY <3>1
    <3>2. CASE v[2] - v[1] < u[2] - u[1]  BY <3>2, <2>1, <2>4, <1>8
    <3> QED BY <2>3, <3>1, <3>2
  <2> HIDE DEF B
  <2> QED BY <2>2, <2>3, <2>5 DEF N
<1>9. j \in N
  <2>1. j \in 0..j  OBVIOUS
  <2> HIDE DEF N
  <2>2. 0..j \subseteq N  BY <1>0, <1>7, <1>8, Upwards
  <2> QED BY <2>1, <2>2
<1> DEFINE u == s[j]
<1>10. u \in B /\ (u[2] - u[1] = 1 \/ u[2] - u[1] <= j - j)  BY <1>9
<1> HIDE DEF u
<1>11. /\ u[1] \in i..j /\ u[2] \in i..j /\ u[2] = u[1] + 1
       /\ Present(T, u[1]) /\ Empty(T, u[2])
  <2>1. u[1] \in i..j /\ u[2] \in i..j /\ u[1] < u[2] /\ Present(T, u[1]) /\ Empty(T, u[2])
    BY <1>10 DEF Brackets
  <2>2. u[2] = u[1] + 1
    <3> HIDE DEF B
    <3> QED BY <2>1, <1>10
  <2> QED BY <2>1, <2>2
<1>12. u[1] \in i..j - 1  BY <1>11
<1> QED BY <1>6, <1>11, <1>12 DEF u

(* ---- the search for an absent key ---- *)
(* After a present key, each turn goes to a larger one.                     *)
Probes(T, first) ==
  {s \in (first..MaxInt) \X (first..MaxInt) \X Nat : s[1] < s[2] /\ ~Empty(T, s[1])}

LEMMA DoubleGrows ==
  ASSUME NEW T, NEW first \in Nat \ {0}, NEW s \in Probes(T, first)
  PROVE  Double(T, s) \in Probes(T, first)
<1>0. MaxInt \in Nat  BY TableAssumption
<1>1. /\ s = <<s[1], s[2], s[3]>> /\ s[1] \in first..MaxInt /\ s[2] \in first..MaxInt /\ s[3] \in Nat
      /\ s[1] < s[2] /\ ~Empty(T, s[1])
  BY DEF Probes
<1>2. CASE Empty(T, s[2]) \/ s[2] > MaxInt \div 2 - 1  BY <1>2 DEF Double
<1>3. CASE ~(Empty(T, s[2]) \/ s[2] > MaxInt \div 2 - 1)
  <2> DEFINE d == 2 * s[2] + (s[3] % 2)
  <2>1. s[3] % 2 \in 0..1 /\ s[3] \div 2 \in Nat  BY <1>1
  <2>2. d \in first..MaxInt /\ s[2] < d
    <3>1. s[2] \in Nat /\ s[2] >= 1 /\ s[2] <= MaxInt \div 2 - 1  BY <1>0, <1>1, <1>3
    <3> QED BY <1>0, <1>1, <2>1, <3>1
  <2>3. Double(T, s) = <<s[2], d, s[3] \div 2>>  BY <1>3 DEF Double
  <2> HIDE DEF d
  <2>4. <<s[2], d, s[3] \div 2>> \in Probes(T, first)  BY <1>1, <1>3, <2>1, <2>2 DEF Probes
  <2> QED BY <2>2, <2>3, <2>4
<1> QED BY <1>2, <1>3

LEMMA HashSearchIs ==
  ASSUME NEW T, asize(T) \in Sizes, NEW rnd \in Nat, ~Empty(T, asize(T) + 1)
  PROVE  LET n == hash_search(T, rnd) IN
         n \in Nat /\ ~Empty(T, n) /\ (n = MaxInt \/ Empty(T, n + 1))
<1> DEFINE first == asize(T) + 1
           width == twoto[IF asize(T) > 0 THEN Ceillog2(asize(T)) ELSE 0]
           incr  == (rnd % width) + 1
           b     == <<first, IF incr <= MaxInt - first THEN first + incr ELSE first + 1, rnd \div width>>
           P == Probes(T, first)
           F == [p \in (0..MaxInt) \X P |-> Double(T, p[2])]
           Eq(f) == [n \in 0..MaxInt |-> IF n = 0 THEN b ELSE Double(T, f[n - 1])]
           s == CHOOSE f : f = Eq(f)
<1>0. /\ MaxInt \in Nat /\ MaxInt \in Int /\ 0 \in Int /\ 0 <= MaxInt
      /\ asize(T) \in Nat /\ first < MaxInt + 1 /\ first \in Nat \ {0}
  BY TableAssumption, Powers DEF Sizes
<1>1. width \in Nat \ {0}
  <2>1. MAXABITS \in 0..MAXABITS /\ 0 \in 0..MAXABITS  BY TableAssumption
  <2>2. Ceillog2(asize(T)) \in 0..MAXABITS  BY <2>1, CeilIs DEF Sizes
  <2> QED BY <2>1, <2>2, Powers
<1>2. incr \in Nat \ {0} /\ rnd \div width \in Nat
  <2> HIDE DEF width
  <2> QED BY <1>1
<1>3. first < MaxInt
  <2>1. /\ twoto[MAXABITS] + 1 < MaxInt /\ asize(T) <= twoto[MAXABITS] /\ twoto[MAXABITS] \in Nat
        /\ MAXABITS \in 0..MAXABITS
    BY TableAssumption, Powers DEF Sizes
  <2> QED BY <1>0, <2>1
<1>4. b \in P
  <2> HIDE DEF incr, width, first
  <2>1. (IF incr <= MaxInt - first THEN first + incr ELSE first + 1) \in first + 1..MaxInt
    BY <1>0, <1>2, <1>3
  <2>2. ~Empty(T, first)  BY DEF first
  <2>3. first \in first..MaxInt  BY <1>0, <1>3
  <2> QED BY <1>0, <1>2, <2>1, <2>2, <2>3 DEF Probes
<1> HIDE DEF b
<1>5. Steps(F, 0, MaxInt, P)
  <2> HIDE DEF first
  <2> QED BY <1>0, DoubleGrows DEF Steps
<1>6. PICK f \in [0..MaxInt -> P] : Iterates(f, F, 0, MaxInt, b)
  <2> HIDE DEF P, F
  <2> QED BY <1>0, <1>4, <1>5, Iterate
<1>7. f = Eq(f)
  <2>1. ASSUME NEW n \in 0..MaxInt, n # 0 PROVE F[<<n, f[n - 1]>>] = Double(T, f[n - 1])
    <3>1. n - 1 \in 0..MaxInt  BY <2>1, <1>0
    <3>2. f[n - 1] \in P  BY <3>1, <1>6
    <3> HIDE DEF P
    <3> QED BY <3>2
  <2> HIDE DEF F, P
  <2> QED BY <1>6, <2>1 DEF Iterates
<1>8. s = Eq(s)
  <2> HIDE DEF Eq
  <2> QED BY <1>7
<1>9. /\ s[0] = b
      /\ \A n \in 0..MaxInt : n # 0 => s[n] = Double(T, s[n - 1])
  <2> HIDE DEF s
  <2>1. \A n \in 0..MaxInt : s[n] = IF n = 0 THEN b ELSE Double(T, s[n - 1])  BY <1>8
  <2>2. 0 \in 0..MaxInt  BY <1>0
  <2> QED BY <2>1, <2>2
<1>10. hash_search(T, rnd) =
         IF Empty(T, s[MaxInt][2]) THEN binsearch(T, s[MaxInt][1], s[MaxInt][2])
         ELSE IF Empty(T, MaxInt) THEN binsearch(T, s[MaxInt][2], MaxInt) ELSE MaxInt
  BY DEF hash_search, b
<1> HIDE DEF s, F, Eq
<1> DEFINE N == {n \in 0..MaxInt : s[n] \in P}
<1>11. 0 \in N
  <2>1. 0 \in 0..MaxInt  BY <1>0
  <2> HIDE DEF P
  <2> QED BY <2>1, <1>4, <1>9
<1>12. ASSUME NEW n \in 0..MaxInt, n # 0, n - 1 \in N PROVE n \in N
  <2>1. s[n - 1] \in P /\ s[n] = Double(T, s[n - 1])  BY <1>12, <1>9
  <2> HIDE DEF first
  <2> QED BY <1>0, <2>1, DoubleGrows
<1> DEFINE u == s[MaxInt]
<1>13. u \in P
  <2>1. MaxInt \in 0..MaxInt  BY <1>0
  <2> HIDE DEF N
  <2>2. 0..MaxInt \subseteq N  BY <1>0, <1>11, <1>12, Upwards
  <2> QED BY <2>1, <2>2 DEF N
<1> HIDE DEF u
<1>15. /\ u[1] \in Nat \ {0} /\ u[2] \in Nat \ {0} /\ u[1] < u[2] /\ u[2] <= MaxInt
       /\ ~Empty(T, u[1])
  <2> HIDE DEF first
  <2> QED BY <1>0, <1>13 DEF Probes
<1>16. CASE Empty(T, u[2])
  <2> DEFINE n == binsearch(T, u[1], u[2])
  <2>1. hash_search(T, rnd) = n  BY <1>10, <1>16 DEF u
  <2>2. n \in u[1]..u[2] - 1 /\ Present(T, n) /\ Empty(T, n + 1)
    BY <1>15, <1>16, BinsearchIs DEF Present
  <2> HIDE DEF n
  <2>3. n \in Nat /\ n # 0  BY <1>15, <2>2
  <2> QED BY <2>1, <2>2, <2>3 DEF Present
<1>17. CASE ~Empty(T, u[2]) /\ Empty(T, MaxInt)
  <2> DEFINE n == binsearch(T, u[2], MaxInt)
  <2>1. hash_search(T, rnd) = n  BY <1>10, <1>17 DEF u
  <2>2. u[2] < MaxInt  BY <1>0, <1>15, <1>17
  <2>3. n \in u[2]..MaxInt - 1 /\ Present(T, n) /\ Empty(T, n + 1)
    BY <1>0, <1>15, <1>17, <2>2, BinsearchIs DEF Present
  <2> HIDE DEF n
  <2>4. n \in Nat /\ n # 0  BY <1>0, <1>15, <2>3
  <2> QED BY <2>1, <2>3, <2>4 DEF Present
<1>18. CASE ~Empty(T, u[2]) /\ ~Empty(T, MaxInt)
  <2>1. hash_search(T, rnd) = MaxInt  BY <1>10, <1>18 DEF u
  <2> QED BY <1>0, <1>18, <2>1
<1> QED BY <1>16, <1>17, <1>18

(* The length is a border, and the hint stays in the array.                 *)
IsLength(T, r) ==
  /\ r.n \in Nat /\ Present(T, r.n) /\ (r.n = MaxInt \/ Empty(T, r.n + 1))
  /\ r.hint \in Nat /\ (asize(T) > 0 => r.hint <= asize(T))

LEMMA GetnIs ==
  ASSUME NEW T, asize(T) \in Sizes, T.hint \in Nat, asize(T) > 0 => T.hint <= asize(T), NEW rnd \in Nat
  PROVE  IsLength(T, luaH_getn(T, rnd))
<1> DEFINE limit == IF T.hint = 0 THEN 1 ELSE T.hint
           size  == asize(T)
           low   == Max({1, limit - 4})
           high  == Min({size, limit + 4})
           before == {i \in 1..limit - 1 : i >= limit - 4 /\ ~Empty(T, i)}
           after  == {i \in limit + 1..size : i <= limit + 4 /\ Empty(T, i)}
           down == IF before # {} THEN Max(before) ELSE binsearch(T, 0, low)
           R == luaH_getn(T, rnd)
<1> SUFFICES IsLength(T, R)  OBVIOUS
<1>0. size \in Nat /\ (size > 0 => limit \in 1..size) /\ limit \in Nat \ {0}
  BY Powers, TableAssumption DEF Sizes
<1>1. R = CASE size > 0 /\ Empty(T, limit) -> [n |-> down, hint |-> down]
            [] size > 0 /\ ~Empty(T, limit) /\ after # {} -> [n |-> Min(after) - 1, hint |-> Min(after) - 1]
            [] size > 0 /\ ~Empty(T, limit) /\ after = {} /\ Empty(T, size) ->
                 [n |-> binsearch(T, high, size), hint |-> binsearch(T, high, size)]
            [] OTHER -> [n |-> IF isdummy(T) \/ Empty(T, size + 1) THEN size ELSE hash_search(T, rnd),
                         hint |-> IF size > 0 THEN size ELSE T.hint]
  BY DEF luaH_getn, MaxVicinity
<1> HIDE DEF R, limit
<1>2. CASE size > 0 /\ Empty(T, limit) /\ before # {}
  <2> DEFINE n == Max(before)
  <2>1. R = [n |-> n, hint |-> n]  BY <1>1, <1>2
  <2>2. before \subseteq 0..limit - 1 /\ limit - 1 \in Nat  BY <1>0
  <2>3. n \in before /\ \A y \in before : y <= n
    <3> HIDE DEF before
    <3> QED BY <1>2, <2>2, MaxIs
  <2> HIDE DEF n
  <2>4. n \in 1..limit - 1 /\ n >= limit - 4 /\ ~Empty(T, n)  BY <2>3
  <2>5. Empty(T, n + 1)
    <3>1. CASE n = limit - 1
      <4>1. n + 1 = limit  BY <3>1, <1>0
      <4> QED BY <4>1, <1>2
    <3>2. CASE n # limit - 1
      <4>1. n + 1 \in 1..limit - 1 /\ n + 1 >= limit - 4 /\ ~(n + 1 <= n)  BY <1>0, <2>4, <3>2
      <4>2. n + 1 \notin before  BY <2>3, <4>1
      <4> QED BY <4>1, <4>2
    <3> QED BY <3>1, <3>2
  <2>6. n \in Nat /\ n <= size  BY <1>0, <1>2, <2>4
  <2> HIDE DEF before
  <2> QED BY <2>1, <2>4, <2>5, <2>6 DEF IsLength, Present
<1>3. CASE size > 0 /\ Empty(T, limit) /\ before = {}
  <2> DEFINE n == binsearch(T, 0, low)
  <2>1. R = [n |-> n, hint |-> n]  BY <1>1, <1>3
  <2>2. low \in 1..limit /\ low >= limit - 4
    <3> DEFINE S == {1, limit - 4} \cap Nat
    <3>1. CASE limit - 4 \in Nat
      <4>1. {1, limit - 4} \subseteq 0..limit /\ {1, limit - 4} # {}  BY <1>0, <3>1
      <4>2. low \in {1, limit - 4} /\ \A y \in {1, limit - 4} : y <= low  BY <1>0, <4>1, MaxIs
      <4>3. 1 <= low /\ limit - 4 <= low  BY <4>2
      <4> HIDE DEF low
      <4> QED BY <1>0, <4>2, <4>3
    <3>2. CASE limit - 4 \notin Nat
      <4>1. low = 1
        <5>1. \A y \in {1, limit - 4} : 1 >= y  BY <1>0, <3>2
        <5>2. \A x \in {1, limit - 4} : (\A y \in {1, limit - 4} : x >= y) => x = 1  BY <1>0, <3>2
        <5>3. 1 \in {1, limit - 4}  OBVIOUS
        <5> QED BY <5>1, <5>2, <5>3 DEF Max
      <4> HIDE DEF low
      <4> QED BY <4>1, <1>0, <3>2
    <3> QED BY <3>1, <3>2
  <2>3. Empty(T, low)
    <3> HIDE DEF low
    <3>1. CASE low = limit  BY <3>1, <1>3
    <3>2. CASE low # limit
      <4>1. low \in 1..limit - 1  BY <2>2, <3>2, <1>0
      <4> QED BY <4>1, <2>2, <1>3
    <3> QED BY <3>1, <3>2
  <2>4. n \in 0..low - 1 /\ Present(T, n) /\ Empty(T, n + 1)
    <3> HIDE DEF low
    <3>1. 0 \in Nat /\ low \in Nat /\ 0 < low /\ Present(T, 0)  BY <1>0, <2>2 DEF Present
    <3> QED BY <3>1, <2>3, BinsearchIs
  <2>5. n \in Nat /\ n <= size
    <3> HIDE DEF low, n
    <3> QED BY <2>2, <2>4, <1>0, <1>3
  <2> HIDE DEF n
  <2> QED BY <2>1, <2>4, <2>5 DEF IsLength
<1>4. CASE size > 0 /\ ~Empty(T, limit) /\ after # {}
  <2> DEFINE m == Min(after)
  <2>1. R = [n |-> m - 1, hint |-> m - 1]  BY <1>1, <1>4
  <2>2. after \subseteq Nat  BY <1>0
  <2>3. m \in after /\ \A y \in after : m <= y
    <3> HIDE DEF after
    <3> QED BY <1>4, <2>2, MinIs
  <2> HIDE DEF m
  <2>4. m \in limit + 1..size /\ m <= limit + 4 /\ Empty(T, m)  BY <2>3
  <2>5. ~Empty(T, m - 1)
    <3>1. CASE m = limit + 1
      <4>1. m - 1 = limit  BY <3>1, <1>0
      <4> QED BY <4>1, <1>4
    <3>2. CASE m # limit + 1
      <4>1. m - 1 \in limit + 1..size /\ m - 1 <= limit + 4 /\ ~(m <= m - 1)  BY <1>0, <2>4, <3>2
      <4>2. m - 1 \notin after  BY <2>3, <4>1
      <4> QED BY <4>1, <4>2
    <3> QED BY <3>1, <3>2
  <2>6. m - 1 \in Nat /\ m - 1 <= size /\ (m - 1) + 1 = m  BY <1>0, <2>4
  <2> HIDE DEF after
  <2> QED BY <2>1, <2>4, <2>5, <2>6 DEF IsLength, Present
<1>5. CASE size > 0 /\ ~Empty(T, limit) /\ after = {} /\ Empty(T, size)
  <2> DEFINE n == binsearch(T, high, size)
  <2>1. R = [n |-> n, hint |-> n]  BY <1>1, <1>5
  <2>2. high \in {size, limit + 4} /\ \A y \in {size, limit + 4} : high <= y
    <3>1. {size, limit + 4} \subseteq Nat  BY <1>0
    <3> QED BY <3>1, MinIs
  <2>3. high \in limit..size /\ high <= limit + 4
    <3>1. high <= size /\ high <= limit + 4  BY <2>2
    <3> HIDE DEF high
    <3> QED BY <1>0, <1>5, <2>2, <3>1
  <2> HIDE DEF high
  <2>4. ~Empty(T, high)
    <3>1. CASE high = limit  BY <3>1, <1>5
    <3>2. CASE high # limit
      <4>1. high \in limit + 1..size  BY <3>2, <2>3, <1>0
      <4> QED BY <4>1, <2>3, <1>5
    <3> QED BY <3>1, <3>2
  <2>5. high \in Nat /\ high < size
    <3>1. high # size  BY <2>4, <1>5
    <3> QED BY <3>1, <1>0, <2>3
  <2>6. n \in high..size - 1 /\ Present(T, n) /\ Empty(T, n + 1)
    BY <1>0, <1>5, <2>4, <2>5, BinsearchIs DEF Present
  <2> HIDE DEF n
  <2>7. n \in Nat /\ n <= size  BY <1>0, <2>5, <2>6
  <2> QED BY <2>1, <2>6, <2>7 DEF IsLength
<1>6. CASE size > 0 => ~Empty(T, limit) /\ after = {} /\ ~Empty(T, size)
  <2> DEFINE n == IF isdummy(T) \/ Empty(T, size + 1) THEN size ELSE hash_search(T, rnd)
             h == IF size > 0 THEN size ELSE T.hint
  <2>1. R = [n |-> n, hint |-> h]  BY <1>1, <1>6
  <2>2. h \in Nat /\ (size > 0 => h <= size)  BY <1>0
  <2>3. Present(T, size)  BY <1>0, <1>6 DEF Present
  <2>4. CASE isdummy(T) \/ Empty(T, size + 1)
    <3>1. Empty(T, size + 1)
      <4> SUFFICES ASSUME isdummy(T) PROVE Empty(T, size + 1)  BY <2>4
      <4>1. ~InArray(T, size + 1)  BY <1>0 DEF InArray
      <4>2. getgeneric(T, size + 1, FALSE) = 0  BY DEF getgeneric
      <4> QED BY <4>1, <4>2 DEF Empty, luaH_get
    <3>2. n = size  BY <2>4
    <3> QED BY <2>1, <2>2, <2>3, <3>1, <3>2, <1>0 DEF IsLength
  <2>5. CASE ~(isdummy(T) \/ Empty(T, size + 1))
    <3>1. n = hash_search(T, rnd)  BY <2>5
    <3>2. n \in Nat /\ ~Empty(T, n) /\ (n = MaxInt \/ Empty(T, n + 1))  BY <2>5, <3>1, HashSearchIs
    <3> HIDE DEF n, h
    <3> QED BY <2>1, <2>2, <3>2 DEF IsLength, Present
  <2> QED BY <2>4, <2>5
<1> QED BY <1>2, <1>3, <1>4, <1>5, <1>6

------------------------------------------------------------------------------
(* ---- types of the operators ---- *)
LEMMA NilIs ==
  ASSUME program \in Programs
  PROVE  /\ nil \notin AllKeys /\ none \notin AllKeys /\ invalid \notin AllKeys
         /\ nil # none /\ nil # invalid /\ none # invalid
         /\ {nil, none, invalid} \cap program.objects = {} /\ program.objects \cap Int = {}
BY TableAssumption DEF AllKeys

LEMMA MainIn ==
  ASSUME program \in Programs, NEW T, T.node \in Seq(Nodes), ~isdummy(T), NEW k \in AllKeys
  PROVE  mainposition(T, k) \in DOMAIN T.node
<1> DEFINE n == Len(T.node)
           h == IF iscollectable(k) THEN Hash[k] ELSE k
           m == IF n % 2 = 0 THEN n - 1 ELSE n
<1>1. n \in Nat \ {0} /\ DOMAIN T.node = 1..n  BY DEF isdummy
<1>2. h \in Int  BY TableAssumption DEF iscollectable, AllKeys
<1>3. m \in 1..n
  <2> HIDE DEF n
  <2>1. CASE n = 1  BY <2>1
  <2>2. CASE n # 1  BY <1>1, <2>2
  <2> QED BY <2>1, <2>2
<1>4. mainposition(T, k) = 1 + (h % m)  BY DEF mainposition, Hashmod
<1> HIDE DEF n, h, m
<1>5. h % m \in 0..m - 1  BY <1>1, <1>2, <1>3
<1> QED BY <1>1, <1>3, <1>4, <1>5

LEMMA FreeIn ==
  ASSUME NEW T, NEW S, T.node \in Seq(S)
  PROVE  /\ getfreepos(T) \in {0} \cup DOMAIN T.node
         /\ getfreepos(T) # 0 => T.node[getfreepos(T)].key = nil
         /\ \A i \in DOMAIN T.node :
              T.node[i].key = nil /\ (haslastfree(T) => i < T.lastfree) => i <= getfreepos(T)
<1> DEFINE F == {i \in DOMAIN T.node : T.node[i].key = nil /\ (haslastfree(T) => i < T.lastfree)}
<1>1. Len(T.node) \in Nat /\ {0} \cup F \subseteq 0..Len(T.node)  OBVIOUS
<1>2. getfreepos(T) = Max({0} \cup F)  BY DEF getfreepos
<1> HIDE DEF F
<1>3. getfreepos(T) \in {0} \cup F /\ \A i \in F : i <= getfreepos(T)  BY <1>1, <1>2, MaxIs
<1> QED BY <1>3 DEF F

(* The nodes after an insertion: nothing, a free main position is taken, a  *)
(* node moves out of it, or the key goes to a free node.                    *)
LEMMA InsertCases ==
  ASSUME NEW T, NEW k, NEW v
  PROVE  LET mp == mainposition(T, k)
             f  == getfreepos(T)
             U  == IF haslastfree(T) THEN [T EXCEPT !.lastfree = f] ELSE T
         IN \/ insertkey(T, k, v) = T /\ ~Fits(T, k)
            \/ /\ ~isdummy(T) /\ T.node[mp].val = nil /\ insertkey(T, k, v) = Put(T, mp, k, v)
            \/ /\ ~isdummy(T) /\ f # 0 /\ T.node[mp].val # nil /\ mainposition(T, T.node[mp].key) # mp
               /\ insertkey(T, k, v) = Put(MoveNode(U, mp, f), mp, k, v)
            \/ /\ ~isdummy(T) /\ f # 0 /\ T.node[mp].val # nil /\ mainposition(T, T.node[mp].key) = mp
               /\ insertkey(T, k, v) = Put(ChainNode(U, mp, f), f, k, v)
BY DEF insertkey, Fits

Same(T, U) == T.arr = U.arr /\ T.hint = U.hint /\ Len(T.node) = Len(U.node)

LEMMA NodeIs ==
  ASSUME NEW n \in Nodes
  PROVE  /\ n.key \in AllKeys \cup {nil} /\ n.dead \in BOOLEAN /\ n.val \in Values /\ n.next \in Nat
         /\ n = [key |-> n.key, dead |-> n.dead, val |-> n.val, next |-> n.next]
BY DEF Nodes

LEMMA NodePut ==
  ASSUME NEW n \in Nodes, NEW k, NEW v
  PROVE  [[[n EXCEPT !.key = k] EXCEPT !.dead = FALSE] EXCEPT !.val = v]
           = [key |-> k, dead |-> FALSE, val |-> v, next |-> n.next]
<1>1. n = [key |-> n.key, dead |-> n.dead, val |-> n.val, next |-> n.next]  BY NodeIs
<1> DEFINE b  == FALSE
           n1 == [n EXCEPT !.key = k]
           n2 == [n1 EXCEPT !.dead = b]
<1> HIDE DEF b
<1>2. n1 = [key |-> k, dead |-> n.dead, val |-> n.val, next |-> n.next]  BY <1>1
<1> HIDE DEF n1
<1>3. n2 = [key |-> k, dead |-> b, val |-> n.val, next |-> n.next]  BY <1>2
<1> HIDE DEF n2
<1>4. [n2 EXCEPT !.val = v] = [key |-> k, dead |-> b, val |-> v, next |-> n.next]  BY <1>3
<1> QED BY <1>4 DEF n1, n2, b

LEMMA NodeNew ==
  ASSUME NEW k \in AllKeys \cup {nil}, NEW d \in BOOLEAN, NEW v \in Values, NEW j \in Nat
  PROVE  [key |-> k, dead |-> d, val |-> v, next |-> j] \in Nodes
BY DEF Nodes

LEMMA PutIs ==
  ASSUME NEW T \in Tables, NEW p \in DOMAIN T.node, NEW k \in AllKeys, NEW v \in Values,
         NEW E, <<k, v>> \in E, \A i \in DOMAIN T.node : i # p => NodeIn(T.node[i], E)
  PROVE  /\ Put(T, p, k, v) \in Tables /\ Same(Put(T, p, k, v), T) /\ NodesIn(Put(T, p, k, v).node, E)
         /\ Put(T, p, k, v).node = [T.node EXCEPT ![p] = [key |-> k, dead |-> FALSE, val |-> v,
                                                          next |-> T.node[p].next]]
<1> DEFINE x == [key |-> k, dead |-> FALSE, val |-> v, next |-> T.node[p].next]
           ns == [T.node EXCEPT ![p] = x]
<1>1. T.node \in Seq(Nodes) /\ x \in Nodes
  <2>1. T.node \in Seq(Nodes)  BY DEF Tables
  <2>2. T.node[p] \in Nodes  BY <2>1
  <2>3. T.node[p].next \in Nat  BY <2>2, NodeIs
  <2>4. k \in AllKeys \cup {nil} /\ FALSE \in BOOLEAN  OBVIOUS
  <2>5. x \in Nodes  BY <2>3, <2>4, NodeNew
  <2> QED BY <2>1, <2>5
<1>2. ns \in Seq(Nodes) /\ Len(ns) = Len(T.node) /\ DOMAIN ns = DOMAIN T.node
  <2> HIDE DEF x
  <2> QED BY <1>1
<1>3. [T.node EXCEPT ![p].key = k, ![p].dead = FALSE, ![p].val = v] = ns
  <2> DEFINE n == T.node[p]
  <2>1. n \in Nodes  BY <1>1
  <2>3. [[[n EXCEPT !.key = k] EXCEPT !.dead = FALSE] EXCEPT !.val = v] = x
    BY <2>1, NodePut
  <2> QED BY <1>1, <2>3
<1>4. Put(T, p, k, v) = [T EXCEPT !.node = ns]  BY <1>3 DEF Put, Tables
<1>5. NodesIn(ns, E)
  <2>1. ASSUME NEW i \in DOMAIN ns PROVE NodeIn(ns[i], E)
    <3>1. CASE i = p
      <4>1. ns[i] = x  BY <3>1, <1>1
      <4> QED BY <4>1 DEF NodeIn
    <3>2. CASE i # p  BY <3>2, <1>1, <1>2
    <3> QED BY <3>1, <3>2
  <2> QED BY <2>1 DEF NodesIn
<1> HIDE DEF ns
<1>6. Put(T, p, k, v).node = ns /\ Put(T, p, k, v).arr = T.arr /\ Put(T, p, k, v).hint = T.hint
  BY <1>4 DEF Tables
<1>7. Put(T, p, k, v) \in Tables  BY <1>2, <1>4 DEF Tables
<1> QED BY <1>2, <1>5, <1>6, <1>7 DEF Same, ns

LEMMA Linked ==
  ASSUME NEW n \in Nodes, NEW j \in Nat
  PROVE  /\ [n EXCEPT !.next = j] \in Nodes /\ [n EXCEPT !.next = j].next = j
         /\ [n EXCEPT !.next = j].key = n.key /\ [n EXCEPT !.next = j].val = n.val
         /\ [n EXCEPT !.next = j].dead = n.dead
         /\ [[n EXCEPT !.next = j] EXCEPT !.val = nil] \in Nodes
         /\ [[n EXCEPT !.next = j] EXCEPT !.val = nil].key = n.key
         /\ [[n EXCEPT !.next = j] EXCEPT !.val = nil].next = j
<1>1. n = [key |-> n.key, dead |-> n.dead, val |-> n.val, next |-> n.next]  BY NodeIs
<1> DEFINE x == [n EXCEPT !.next = j]
           y == [x EXCEPT !.val = nil]
<1>2. x = [key |-> n.key, dead |-> n.dead, val |-> n.val, next |-> j]  BY <1>1
<1> HIDE DEF x
<1>3. y = [key |-> n.key, dead |-> n.dead, val |-> nil, next |-> j]  BY <1>2
<1>4. n.key \in AllKeys \cup {nil} /\ n.dead \in BOOLEAN /\ n.val \in Values /\ nil \in Values
  BY NodeIs DEF Values
<1>5. x \in Nodes /\ y \in Nodes  BY <1>2, <1>3, <1>4, NodeNew
<1> HIDE DEF y
<1> QED BY <1>2, <1>3, <1>5 DEF x, y

LEMMA Update ==
  ASSUME NEW ns \in Seq(Nodes), NEW p, NEW x, p \in DOMAIN ns => x \in Nodes
  PROVE  LET ms == [ns EXCEPT ![p] = x] IN
         /\ ms \in Seq(Nodes) /\ Len(ms) = Len(ns) /\ DOMAIN ms = DOMAIN ns
         /\ \A i \in DOMAIN ns : ms[i] = IF i = p THEN x ELSE ns[i]
<1> DEFINE ms == [ns EXCEPT ![p] = x]
<1>1. CASE p \in DOMAIN ns  BY <1>1
<1>2. CASE p \notin DOMAIN ns
  <2>1. ms = ns  BY <1>2
  <2> HIDE DEF ms
  <2>2. \A i \in DOMAIN ns : i # p  BY <1>2
  <2>3. ms \in Seq(Nodes) /\ Len(ms) = Len(ns) /\ DOMAIN ms = DOMAIN ns  BY <2>1
  <2>4. \A i \in DOMAIN ns : ms[i] = IF i = p THEN x ELSE ns[i]  BY <2>1, <2>2
  <2> QED BY <2>3, <2>4 DEF ms
<1> QED BY <1>1, <1>2

(* A node moves from 'mp' to 'f'. *)
Moved(T, M, mp, f) ==
  /\ \A i \in DOMAIN T.node \ {mp} :
       M.node[i] = IF i = f THEN T.node[mp] 
                   ELSE IF i = Previous(T, mp) THEN [T.node[i] EXCEPT !.next = f] ELSE T.node[i]
  /\ M.node[mp].next = 0
LEMMA MoveIs ==
  ASSUME NEW T \in Tables, NEW mp \in DOMAIN T.node, NEW f \in DOMAIN T.node,
         NEW E, NodesIn(T.node, E)
  PROVE  LET M == MoveNode(T, mp, f) IN
         /\ M \in Tables /\ Same(M, T) /\ \A i \in DOMAIN T.node : i # mp => NodeIn(M.node[i], E)
         /\ Moved(T, M, mp, f)
<1> DEFINE q == Previous(T, mp)
           a == [T.node[q] EXCEPT !.next = f]
           A == [T.node EXCEPT ![q] = a]
           B == [A EXCEPT ![f] = T.node[mp]]
           c == [[B[mp] EXCEPT !.next = 0] EXCEPT !.val = nil]
           C == [B EXCEPT ![mp] = c]
<1>0. T.node \in Seq(Nodes) /\ DOMAIN T.node \subseteq Nat /\ f \in Nat /\ T.node[mp] \in Nodes
  BY DEF Tables
<1>1. MoveNode(T, mp, f) = [T EXCEPT !.node = C]
  <2> DEFINE d == [B[mp] EXCEPT !.next = 0]
             D == [B EXCEPT ![mp] = d]
  <2>1. MoveNode(T, mp, f) = [T EXCEPT !.node = [D EXCEPT ![mp] = [D[mp] EXCEPT !.val = nil]]]
    BY DEF MoveNode
  <2>2. mp \in DOMAIN B  OBVIOUS
  <2> HIDE DEF B
  <2>3. [D EXCEPT ![mp] = [D[mp] EXCEPT !.val = nil]] = C  BY <2>2
  <2> QED BY <2>1, <2>3
<1>2. q \in DOMAIN T.node => a \in Nodes /\ a.key = T.node[q].key /\ a.val = T.node[q].val
  <2> HIDE DEF q
  <2> SUFFICES ASSUME q \in DOMAIN T.node
               PROVE  a \in Nodes /\ a.key = T.node[q].key /\ a.val = T.node[q].val  OBVIOUS
  <2>1. T.node[q] \in Nodes  BY <1>0
  <2> QED BY <1>0, <2>1, Linked
<1> HIDE DEF q, a
<1>3. /\ A \in Seq(Nodes) /\ Len(A) = Len(T.node) /\ DOMAIN A = DOMAIN T.node
      /\ \A i \in DOMAIN T.node : A[i] = IF i = q THEN a ELSE T.node[i]
  BY <1>0, <1>2, Update
<1> HIDE DEF A
<1>4. /\ B \in Seq(Nodes) /\ Len(B) = Len(A) /\ DOMAIN B = DOMAIN A
      /\ \A i \in DOMAIN A : B[i] = IF i = f THEN T.node[mp] ELSE A[i]
  BY <1>0, <1>3, Update
<1> HIDE DEF B
<1>5. c \in Nodes /\ c.next = 0
  <2>1. B[mp] \in Nodes  BY <1>3, <1>4
  <2> QED BY <2>1, Linked
<1> HIDE DEF c
<1>6. /\ C \in Seq(Nodes) /\ Len(C) = Len(B) /\ DOMAIN C = DOMAIN B
      /\ \A i \in DOMAIN B : C[i] = IF i = mp THEN c ELSE B[i]
  BY <1>4, <1>5, Update
<1> HIDE DEF C
<1>7. /\ MoveNode(T, mp, f).node = C /\ MoveNode(T, mp, f).arr = T.arr
      /\ MoveNode(T, mp, f).hint = T.hint
  BY <1>1 DEF Tables
<1>8. MoveNode(T, mp, f) \in Tables  BY <1>1, <1>6 DEF Tables
<1>9. \A i \in DOMAIN T.node :
        C[i] = IF i = mp THEN C[mp] ELSE IF i = f THEN T.node[mp] ELSE IF i = q THEN a ELSE T.node[i]
  BY <1>3, <1>4, <1>6
<1>10. ASSUME NEW i \in DOMAIN T.node, i # mp PROVE NodeIn(C[i], E)
  <2>1. NodeIn(T.node[i], E) /\ NodeIn(T.node[mp], E)  BY DEF NodesIn
  <2>2. i = q => NodeIn(a, E)
    <3> SUFFICES ASSUME i = q PROVE NodeIn(a, E)  OBVIOUS
    <3>1. a.key = T.node[i].key /\ a.val = T.node[i].val  BY <1>2
    <3> QED BY <2>1, <3>1 DEF NodeIn
  <2>3. C[i] \in {T.node[mp], T.node[i]} \/ (i = q /\ C[i] = a)  BY <1>9, <1>10
  <2> QED BY <2>1, <2>2, <2>3
<1>12. C[mp].next = 0  BY <1>3, <1>4, <1>5, <1>6
<1>13. Same(MoveNode(T, mp, f), T)  BY <1>3, <1>4, <1>6, <1>7 DEF Same
<1>14. Moved(T, MoveNode(T, mp, f), mp, f)  BY <1>7, <1>9, <1>12 DEF Moved, q, a
<1> QED BY <1>7, <1>8, <1>10, <1>13, <1>14

(* The new node is chained after 'mp'. *)
Chained(T, M, mp, f) ==
  \A i \in DOMAIN T.node :
    M.node[i] = IF i = mp THEN [T.node[mp] EXCEPT !.next = f]
                ELSE IF i = f THEN [T.node[f] EXCEPT !.next = T.node[mp].next] ELSE T.node[i]
LEMMA ChainIs ==
  ASSUME NEW T \in Tables, NEW mp \in DOMAIN T.node, NEW f \in DOMAIN T.node,
         NEW E, NodesIn(T.node, E)
  PROVE  LET M == ChainNode(T, mp, f) IN
         /\ M \in Tables /\ Same(M, T) /\ NodesIn(M.node, E)
         /\ mp # f => Chained(T, M, mp, f)
<1> DEFINE a == [T.node[f] EXCEPT !.next = T.node[mp].next]
           A == [T.node EXCEPT ![f] = a]
           b == [A[mp] EXCEPT !.next = f]
           B == [A EXCEPT ![mp] = b]
<1>0. /\ T.node \in Seq(Nodes) /\ DOMAIN T.node \subseteq Nat /\ f \in Nat
      /\ T.node[mp] \in Nodes /\ T.node[f] \in Nodes
  BY DEF Tables
<1>1. ChainNode(T, mp, f) = [T EXCEPT !.node = B]  BY DEF ChainNode, Tables
<1>2. a \in Nodes /\ a.key = T.node[f].key /\ a.val = T.node[f].val
  <2>1. T.node[mp].next \in Nat  BY <1>0, NodeIs
  <2> QED BY <1>0, <2>1, Linked
<1> HIDE DEF a
<1>3. /\ A \in Seq(Nodes) /\ Len(A) = Len(T.node) /\ DOMAIN A = DOMAIN T.node
      /\ \A i \in DOMAIN T.node : A[i] = IF i = f THEN a ELSE T.node[i]
  BY <1>0, <1>2, Update
<1> HIDE DEF A
<1>4. b \in Nodes /\ b.key = A[mp].key /\ b.val = A[mp].val
  <2>1. A[mp] \in Nodes  BY <1>3
  <2> QED BY <1>0, <2>1, Linked
<1>5. mp # f => b = [T.node[mp] EXCEPT !.next = f]  BY <1>3
<1> HIDE DEF b
<1>6. /\ B \in Seq(Nodes) /\ Len(B) = Len(A) /\ DOMAIN B = DOMAIN A
      /\ \A i \in DOMAIN A : B[i] = IF i = mp THEN b ELSE A[i]
  BY <1>3, <1>4, Update
<1> HIDE DEF B
<1>7. /\ ChainNode(T, mp, f).node = B /\ ChainNode(T, mp, f).arr = T.arr
      /\ ChainNode(T, mp, f).hint = T.hint
  BY <1>1 DEF Tables
<1>8. ChainNode(T, mp, f) \in Tables  BY <1>1, <1>6 DEF Tables
<1>9. ASSUME NEW i \in DOMAIN T.node PROVE NodeIn(B[i], E)
  <2>1. NodeIn(T.node[i], E)  BY DEF NodesIn
  <2>2. A[i].key = T.node[i].key /\ A[i].val = T.node[i].val  BY <1>2, <1>3
  <2>3. B[i].key = T.node[i].key /\ B[i].val = T.node[i].val  BY <1>3, <1>4, <1>6, <2>2
  <2> QED BY <2>1, <2>3 DEF NodeIn
<1>10. NodesIn(B, E)  BY <1>3, <1>6, <1>9 DEF NodesIn
<1>11. Same(ChainNode(T, mp, f), T)  BY <1>3, <1>6, <1>7 DEF Same
<1>12. mp # f => Chained(T, ChainNode(T, mp, f), mp, f)
  BY <1>3, <1>5, <1>6, <1>7 DEF a, Chained
<1> QED BY <1>7, <1>8, <1>10, <1>11, <1>12

LEMMA MovedLinks ==
  ASSUME NEW T \in Tables, NEW M \in Tables, Same(M, T), NEW mp \in DOMAIN T.node, NEW f \in DOMAIN T.node,
         Moved(T, M, mp, f), LinksIn(T.node)
  PROVE  LinksIn(M.node)
<1>1. DOMAIN M.node = DOMAIN T.node /\ T.node \in Seq(Nodes) /\ f \in Nat  BY DEF Tables, Same
<1>2. ASSUME NEW i \in DOMAIN T.node PROVE M.node[i].next \in {0} \cup DOMAIN T.node
  <2>1. CASE i = mp  BY <2>1 DEF Moved
  <2>2. CASE i # mp
    <3>1. T.node[i] \in Nodes  BY <1>1
    <3>2. [T.node[i] EXCEPT !.next = f].next = f  BY <1>1, <3>1, Linked
    <3>3. M.node[i] \in {T.node[mp], T.node[i], [T.node[i] EXCEPT !.next = f]}  BY <2>2 DEF Moved
    <3> QED BY <3>2, <3>3 DEF LinksIn
  <2> QED BY <2>1, <2>2
<1> QED BY <1>1, <1>2 DEF LinksIn

LEMMA ChainedLinks ==
  ASSUME NEW T \in Tables, NEW M \in Tables, Same(M, T), NEW mp \in DOMAIN T.node, NEW f \in DOMAIN T.node,
         Chained(T, M, mp, f), LinksIn(T.node)
  PROVE  LinksIn(M.node)
<1>1. DOMAIN M.node = DOMAIN T.node /\ T.node \in Seq(Nodes) /\ f \in Nat  BY DEF Tables, Same
<1>2. ASSUME NEW i \in DOMAIN T.node PROVE M.node[i].next \in {0} \cup DOMAIN T.node
  <2>1. T.node[i] \in Nodes /\ T.node[mp] \in Nodes  BY <1>1
  <2>2. T.node[mp].next \in Nat  BY <2>1, NodeIs
  <2>3. [T.node[i] EXCEPT !.next = f].next = f
    <3>1. f \in Nat  BY <1>1
    <3> QED BY <2>1, <3>1, Linked
  <2>4. [T.node[i] EXCEPT !.next = T.node[mp].next].next = T.node[mp].next  BY <2>1, <2>2, Linked
  <2>5. \/ M.node[i] = T.node[i] \/ M.node[i] = [T.node[i] EXCEPT !.next = f]
        \/ M.node[i] = [T.node[i] EXCEPT !.next = T.node[mp].next]
    BY DEF Chained
  <2> QED BY <2>3, <2>4, <2>5 DEF LinksIn
<1> QED BY <1>1, <1>2 DEF LinksIn

LEMMA PutLinks ==
  ASSUME NEW T \in Tables, NEW p \in DOMAIN T.node, NEW k, NEW v, LinksIn(T.node),
         Put(T, p, k, v).node = [T.node EXCEPT ![p] = [key |-> k, dead |-> FALSE, val |-> v,
                                                        next |-> T.node[p].next]]
  PROVE  LinksIn(Put(T, p, k, v).node)
<1> DEFINE x == [key |-> k, dead |-> FALSE, val |-> v, next |-> T.node[p].next]
           ns == [T.node EXCEPT ![p] = x]
<1>1. x.next = T.node[p].next  OBVIOUS
<1> HIDE DEF x
<1>2. DOMAIN ns = DOMAIN T.node /\ \A i \in DOMAIN T.node : ns[i] = IF i = p THEN x ELSE T.node[i]
  BY DEF Tables
<1> HIDE DEF ns
<1>3. LinksIn(ns)  BY <1>1, <1>2 DEF LinksIn
<1> QED BY <1>3 DEF ns, x

LEMMA InsertIs ==
  ASSUME program \in Programs, NEW T, IsTable(T), NEW E \in SUBSET AllEntries,
         NodesIn(T.node, E), NEW k \in AllKeys, NEW v \in Values, <<k, v>> \in E
  PROVE  LET I == insertkey(T, k, v) IN IsTable(I) /\ Same(I, T) /\ NodesIn(I.node, E)
<1> DEFINE mp == mainposition(T, k)
           f  == getfreepos(T)
           U  == IF haslastfree(T) THEN [T EXCEPT !.lastfree = f] ELSE T
           I  == insertkey(T, k, v)
<1>0. T \in Tables /\ T.node \in Seq(Nodes) /\ LinksIn(T.node)  BY DEF IsTable, Tables
<1> SUFFICES I \in Tables /\ Same(I, T) /\ NodesIn(I.node, E) /\ LinksIn(I.node)
  <2> HIDE DEF I
  <2>1. I.arr = T.arr /\ I.hint = T.hint => asize(I) = asize(T)  BY DEF asize
  <2> QED BY <2>1 DEF IsTable, Same, I
<1>1. \A i \in DOMAIN T.node : NodeIn(T.node[i], E)  BY DEF NodesIn
<1>2. ~isdummy(T) => mp \in DOMAIN T.node  BY <1>0, MainIn
<1>3. f \in {0} \cup DOMAIN T.node /\ f \in Nat  BY <1>0, FreeIn
<1>4. U \in Tables /\ U.node = T.node /\ U.arr = T.arr /\ U.hint = T.hint /\ LinksIn(U.node)
  <2> HIDE DEF f
  <2>1. CASE haslastfree(T)
    <3>1. U = [T EXCEPT !.lastfree = f]  BY <2>1
    <3> HIDE DEF U
    <3> QED BY <1>0, <1>3, <3>1 DEF Tables
  <2>2. CASE ~haslastfree(T)  BY <1>0, <2>2
  <2> QED BY <2>1, <2>2
<1>5. \/ I = T
      \/ ~isdummy(T) /\ I = Put(T, mp, k, v)
      \/ ~isdummy(T) /\ f # 0 /\ I = Put(MoveNode(U, mp, f), mp, k, v)
      \/ ~isdummy(T) /\ f # 0 /\ mp # f /\ I = Put(ChainNode(U, mp, f), f, k, v)
  <2>1. ASSUME ~isdummy(T), f # 0, T.node[mp].val # nil, mp = f PROVE FALSE
    <3>1. <<T.node[mp].key, T.node[mp].val>> \in E  BY <1>1, <1>2, <2>1 DEF NodeIn
    <3>2. T.node[mp].key \in AllKeys  BY <3>1 DEF AllEntries
    <3>3. T.node[mp].key = nil  BY <1>0, <2>1, FreeIn
    <3> QED BY <3>2, <3>3, NilIs
  <2> QED BY <2>1, InsertCases
<1> HIDE DEF mp, f, U, I
<1>6. CASE I = T  BY <1>0, <1>6 DEF Same
<1>7. CASE ~isdummy(T) /\ I = Put(T, mp, k, v)
  <2> DEFINE P == Put(T, mp, k, v)
  <2>1. /\ P \in Tables /\ Same(P, T) /\ NodesIn(P.node, E)
        /\ P.node = [T.node EXCEPT ![mp] = [key |-> k, dead |-> FALSE, val |-> v, next |-> T.node[mp].next]]
    BY <1>0, <1>1, <1>2, <1>7, PutIs
  <2>2. LinksIn(P.node)  BY <1>0, <1>2, <1>7, <2>1, PutLinks
  <2> QED BY <1>7, <2>1, <2>2
<1>8. CASE ~isdummy(T) /\ f # 0 /\ I = Put(MoveNode(U, mp, f), mp, k, v)
  <2> DEFINE M == MoveNode(U, mp, f)
  <2>1. mp \in DOMAIN U.node /\ f \in DOMAIN U.node /\ NodesIn(U.node, E)  BY <1>2, <1>3, <1>4, <1>8
  <2>2. /\ M \in Tables /\ Same(M, U) /\ \A i \in DOMAIN U.node : i # mp => NodeIn(M.node[i], E)
        /\ Moved(U, M, mp, f)
    BY <1>4, <2>1, MoveIs
  <2> HIDE DEF M
  <2>3. DOMAIN M.node = DOMAIN U.node  BY <1>4, <2>2 DEF Same, Tables
  <2>4. LinksIn(M.node)  BY <1>4, <2>1, <2>2, MovedLinks
  <2> DEFINE P == Put(M, mp, k, v)
  <2>5. /\ P \in Tables /\ Same(P, M) /\ NodesIn(P.node, E)
        /\ P.node = [M.node EXCEPT ![mp] = [key |-> k, dead |-> FALSE, val |-> v, next |-> M.node[mp].next]]
    BY <2>1, <2>2, <2>3, PutIs
  <2>6. LinksIn(P.node)  BY <2>1, <2>2, <2>3, <2>4, <2>5, PutLinks
  <2>7. I = P  BY <1>8 DEF M
  <2> HIDE DEF P
  <2> QED BY <1>4, <2>2, <2>5, <2>6, <2>7 DEF Same
<1>9. CASE ~isdummy(T) /\ f # 0 /\ mp # f /\ I = Put(ChainNode(U, mp, f), f, k, v)
  <2> DEFINE M == ChainNode(U, mp, f)
  <2>1. mp \in DOMAIN U.node /\ f \in DOMAIN U.node /\ NodesIn(U.node, E)  BY <1>2, <1>3, <1>4, <1>9
  <2>2. M \in Tables /\ Same(M, U) /\ NodesIn(M.node, E) /\ Chained(U, M, mp, f)
    BY <1>4, <1>9, <2>1, ChainIs
  <2> HIDE DEF M
  <2>3. DOMAIN M.node = DOMAIN U.node  BY <1>4, <2>2 DEF Same, Tables
  <2>4. \A i \in DOMAIN M.node : NodeIn(M.node[i], E)  BY <2>2 DEF NodesIn
  <2>5. LinksIn(M.node)  BY <1>4, <2>1, <2>2, ChainedLinks
  <2> DEFINE P == Put(M, f, k, v)
  <2>6. /\ P \in Tables /\ Same(P, M) /\ NodesIn(P.node, E)
        /\ P.node = [M.node EXCEPT ![f] = [key |-> k, dead |-> FALSE, val |-> v, next |-> M.node[f].next]]
    BY <2>1, <2>2, <2>3, <2>4, PutIs
  <2>7. LinksIn(P.node)  BY <2>1, <2>2, <2>3, <2>5, <2>6, PutLinks
  <2>8. I = P  BY <1>9 DEF M
  <2> HIDE DEF P
  <2> QED BY <1>4, <2>2, <2>6, <2>7, <2>8 DEF Same
<1> QED BY <1>5, <1>6, <1>7, <1>8, <1>9

(* ---- what a resize keeps ---- *)
Holding(E, n) ==
  {T \in Tables : IsTable(T) /\ asize(T) = n /\ NodesIn(T.node, E) /\ ArrayIn(T.arr, E)}

LEMMA NewcheckedIs ==
  ASSUME program \in Programs, NEW E \in SUBSET AllEntries, NEW n, NEW T \in Holding(E, n),
         NEW k \in AllKeys, NEW v \in Values, <<k, v>> \in E
  PROVE  newcheckedkey(T, k, v) \in Holding(E, n)
<1>0. /\ IsTable(T) /\ T \in Tables /\ asize(T) = n /\ NodesIn(T.node, E) /\ ArrayIn(T.arr, E)
      /\ T.arr \in Seq(Values)
  BY DEF Holding, Tables
<1>1. CASE InArray(T, k)
  <2> DEFINE a == [T.arr EXCEPT ![k] = v]
  <2>1. k \in DOMAIN T.arr  BY <1>0, <1>1 DEF InArray, asize
  <2>2. a \in Seq(Values) /\ Len(a) = Len(T.arr) /\ DOMAIN a = DOMAIN T.arr  BY <1>0, <2>1
  <2>3. newcheckedkey(T, k, v) = [T EXCEPT !.arr = a]  BY <1>1 DEF newcheckedkey
  <2>4. ArrayIn(a, E)
    <3> SUFFICES ASSUME NEW i \in DOMAIN a, a[i] # nil PROVE <<i, a[i]>> \in E  BY DEF ArrayIn
    <3>1. CASE i = k
      <4>1. a[i] = v  BY <3>1, <1>0, <2>1
      <4> QED BY <3>1, <4>1
    <3>2. CASE i # k
      <4>1. a[i] = T.arr[i] /\ i \in DOMAIN T.arr  BY <3>2, <1>0, <2>1, <2>2
      <4> QED BY <4>1, <1>0 DEF ArrayIn
    <3> QED BY <3>1, <3>2
  <2> HIDE DEF a
  <2> DEFINE R == [T EXCEPT !.arr = a]
  <2>5. R.arr = a /\ R.hint = T.hint /\ R.node = T.node /\ R \in Tables  BY <1>0, <2>2 DEF Tables
  <2> HIDE DEF R
  <2>6. R \in Holding(E, n)  BY <1>0, <2>2, <2>4, <2>5 DEF Holding, IsTable, asize
  <2> QED BY <2>3, <2>6 DEF R
<1>2. CASE ~InArray(T, k)
  <2> DEFINE R == insertkey(T, k, v)
  <2>1. newcheckedkey(T, k, v) = R  BY <1>2 DEF newcheckedkey
  <2>2. IsTable(R) /\ Same(R, T) /\ NodesIn(R.node, E)  BY <1>0, InsertIs
  <2> HIDE DEF R
  <2> QED BY <1>0, <2>1, <2>2 DEF Holding, IsTable, Same, asize
<1> QED BY <1>1, <1>2

(* 'V[j]' is the table after the nodes up to 'j'.                           *)
Reinserts(U, nodes, V) ==
  /\ V[0] = U
  /\ \A j \in 1..Len(nodes) :
       V[j] = IF nodes[j].val = nil THEN V[j - 1] ELSE newcheckedkey(V[j - 1], nodes[j].key, nodes[j].val)
  /\ reinserthash(U, nodes) = V[Len(nodes)]
LEMMA ReinserthashIs ==
  ASSUME program \in Programs, NEW E \in SUBSET AllEntries, NEW n, NEW U \in Holding(E, n),
         NEW nodes \in Seq(Nodes), NodesIn(nodes, E)
  PROVE  \E V : Reinserts(U, nodes, V) /\ \A j \in 0..Len(nodes) : V[j] \in Holding(E, n)
<1> DEFINE H == Holding(E, n)
           N == Len(nodes)
           step(T, j) == IF nodes[j].val = nil THEN T ELSE newcheckedkey(T, nodes[j].key, nodes[j].val)
           F == [p \in (0..N) \X H |-> step(p[2], p[1])]
           Eq(f) == [j \in 0..N |-> IF j = 0 THEN U ELSE step(f[j - 1], j)]
           V == CHOOSE f : f = Eq(f)
<1>0. N \in Nat /\ N \in Int /\ 0 \in Int /\ 0 <= N  OBVIOUS
<1>1. ASSUME NEW j \in 0..N, j # 0, NEW T \in H PROVE step(T, j) \in H
  <2>1. CASE nodes[j].val = nil  BY <2>1
  <2>2. CASE nodes[j].val # nil
    <3>1. j \in DOMAIN nodes /\ nodes[j] \in Nodes  BY <1>0, <1>1
    <3>2. <<nodes[j].key, nodes[j].val>> \in E  BY <2>2, <3>1 DEF NodesIn, NodeIn
    <3>3. nodes[j].key \in AllKeys /\ nodes[j].val \in Values  BY <3>2 DEF AllEntries
    <3> QED BY <2>2, <3>2, <3>3, NewcheckedIs
  <2> QED BY <2>1, <2>2
<1> HIDE DEF step, H, N
<1>2. Steps(F, 0, N, H)  BY <1>1 DEF Steps
<1>3. U \in H  BY DEF H
<1>4. PICK f \in [0..N -> H] : Iterates(f, F, 0, N, U)
  <2> HIDE DEF F
  <2> QED BY <1>0, <1>2, <1>3, Iterate
<1>5. f = Eq(f)
  <2>1. ASSUME NEW j \in 0..N, j # 0 PROVE F[<<j, f[j - 1]>>] = step(f[j - 1], j)
    <3>1. j - 1 \in 0..N  BY <2>1, <1>0
    <3>2. f[j - 1] \in H  BY <3>1, <1>4
    <3> QED BY <3>2
  <2> HIDE DEF F
  <2> QED BY <1>4, <2>1 DEF Iterates
<1>6. V = Eq(V)
  <2> HIDE DEF Eq
  <2> QED BY <1>5
<1>7. \A j \in 0..N : V[j] = IF j = 0 THEN U ELSE step(V[j - 1], j)
  <2> HIDE DEF V
  <2> QED BY <1>6
<1>8. reinserthash(U, nodes) = V[N]  BY DEF reinserthash, step, N
<1> HIDE DEF V, F, Eq
<1> DEFINE G == {j \in 0..N : V[j] \in H}
<1>9. 0 \in G
  <2>1. 0 \in 0..N  BY <1>0
  <2> QED BY <2>1, <1>3, <1>7
<1>10. ASSUME NEW j \in 0..N, j # 0, j - 1 \in G PROVE j \in G
  <2>1. V[j - 1] \in H /\ V[j] = step(V[j - 1], j)  BY <1>10, <1>7
  <2> QED BY <1>10, <2>1, <1>1
<1>11. \A j \in 0..N : V[j] \in H
  <2> HIDE DEF G
  <2>1. 0..N \subseteq G  BY <1>0, <1>9, <1>10, Upwards
  <2> QED BY <2>1 DEF G
<1>12. Reinserts(U, nodes, V)
  <2>1. \A j \in 1..N : j \in 0..N /\ j # 0  BY <1>0
  <2>2. 0 \in 0..N  BY <1>0
  <2> QED BY <1>7, <1>8, <2>1, <2>2 DEF Reinserts, step, N
<1> QED BY <1>11, <1>12 DEF H, N

LEMMA MinOfTwo ==
  ASSUME NEW a \in Nat, NEW b \in Nat
  PROVE  Min({a, b}) = IF a <= b THEN a ELSE b
<1>1. Min({a, b}) \in {a, b} /\ \A y \in {a, b} : Min({a, b}) <= y
  <2>1. {a, b} \in SUBSET Nat /\ {a, b} # {}  OBVIOUS
  <2> QED BY <2>1, MinIs
<1> QED BY <1>1

(* 'U[i]' is the table after the elements up to 'i', which begin at 'm'.    *)
Slices(T, m, nodes, U) ==
  /\ U[m] = [T EXCEPT !.node = nodes, !.lastfree = Len(nodes) + 1]
  /\ \A i \in m..asize(T) :
       i # m => U[i] = IF T.arr[i] = nil THEN U[i - 1] ELSE insertkey(U[i - 1], i, T.arr[i])
SliceTables(T, E) == {R \in Tables : IsTable(R) /\ R.arr = T.arr /\ R.hint = T.hint /\ NodesIn(R.node, E)}
LEMMA OldSliceIs ==
  ASSUME program \in Programs, NEW T, IsTable(T), NEW newasize \in Nat,
         NEW nodes \in Seq(Nodes), NodesIn(nodes, {}), LinksIn(nodes), NEW E \in SUBSET AllEntries,
         \A i \in newasize + 1..asize(T) : T.arr[i] # nil => <<i, T.arr[i]>> \in E
  PROVE  LET m == Min({newasize, asize(T)}) IN
         \E U : /\ Slices(T, m, nodes, U) /\ \A i \in m..asize(T) : U[i] \in SliceTables(T, E)
                /\ reinsertOldSlice(T, newasize, nodes) = U[asize(T)]
<1> DEFINE m == Min({newasize, asize(T)})
           n == asize(T)
           b == [T EXCEPT !.node = nodes, !.lastfree = Len(nodes) + 1]
           H == SliceTables(T, E)
           step(R, i) == IF T.arr[i] = nil THEN R ELSE insertkey(R, i, T.arr[i])
           F == [p \in (m..n) \X H |-> step(p[2], p[1])]
           Eq(f) == [i \in m..n |-> IF i = m THEN b ELSE step(f[i - 1], i)]
           U == CHOOSE f : f = Eq(f)
<1>0. T \in Tables /\ T.arr \in Seq(Values) /\ n = Len(T.arr) /\ n \in Nat
  BY DEF IsTable, Tables, asize
<1>1. /\ m \in Nat /\ m \in Int /\ n \in Int /\ m <= n /\ m <= newasize
      /\ \A i \in m..n : i # m => i \in newasize + 1..n
  <2>1. m = IF newasize <= n THEN newasize ELSE n  BY <1>0, MinOfTwo
  <2> HIDE DEF m, n
  <2> QED BY <1>0, <2>1
<1>2. b \in H
  <2> DEFINE l == Len(nodes) + 1
  <2>0. l \in Nat /\ b = [[T EXCEPT !.node = nodes] EXCEPT !.lastfree = l]  OBVIOUS
  <2> HIDE DEF l, b
  <2>1. b \in Tables /\ b.arr = T.arr /\ b.hint = T.hint /\ b.node = nodes  BY <1>0, <2>0 DEF Tables
  <2>2. IsTable(b)  BY <2>1 DEF IsTable, asize, LinksIn
  <2>3. NodesIn(b.node, E)  BY <2>1 DEF NodesIn, NodeIn
  <2> QED BY <2>1, <2>2, <2>3 DEF SliceTables
<1>3. ASSUME NEW i \in m..n, i # m, NEW R \in H PROVE step(R, i) \in H
  <2>1. CASE T.arr[i] = nil  BY <2>1
  <2>2. CASE T.arr[i] # nil
    <3>1. i \in newasize + 1..asize(T)  BY <1>1, <1>3
    <3>2. <<i, T.arr[i]>> \in E  BY <2>2, <3>1
    <3>3. i \in AllKeys /\ T.arr[i] \in Values  BY <3>2 DEF AllEntries
    <3> DEFINE I == insertkey(R, i, T.arr[i])
    <3>7. R \in Tables /\ IsTable(R) /\ R.arr = T.arr /\ R.hint = T.hint /\ NodesIn(R.node, E)
      BY <1>3 DEF SliceTables
    <3>4. IsTable(I) /\ Same(I, R) /\ NodesIn(I.node, E)  BY <3>2, <3>3, <3>7, InsertIs
    <3>5. step(R, i) = I  BY <2>2
    <3> HIDE DEF I
    <3>6. I \in H  BY <3>4, <3>7 DEF IsTable, Same, SliceTables
    <3> QED BY <3>5, <3>6
  <2> QED BY <2>1, <2>2
<1> HIDE DEF step, H, b, m, n
<1>4. Steps(F, m, n, H)  BY <1>3 DEF Steps
<1>5. PICK f \in [m..n -> H] : Iterates(f, F, m, n, b)
  <2> HIDE DEF F
  <2> QED BY <1>1, <1>2, <1>4, Iterate
<1>6. f = Eq(f)
  <2>1. ASSUME NEW i \in m..n, i # m PROVE F[<<i, f[i - 1]>>] = step(f[i - 1], i)
    <3>1. i - 1 \in m..n  BY <2>1, <1>1
    <3>2. f[i - 1] \in H  BY <3>1, <1>5
    <3> QED BY <3>2
  <2> HIDE DEF F
  <2> QED BY <1>5, <2>1 DEF Iterates
<1>7. U = Eq(U)
  <2> HIDE DEF Eq
  <2> QED BY <1>6
<1>8. \A i \in m..n : U[i] = IF i = m THEN b ELSE step(U[i - 1], i)
  <2> HIDE DEF U
  <2> QED BY <1>7
<1>9. reinsertOldSlice(T, newasize, nodes) = U[n]  BY DEF reinsertOldSlice, step, m, n, b
<1> HIDE DEF U, F, Eq
<1> DEFINE G == {i \in m..n : U[i] \in H}
<1>10. m \in G
  <2>1. m \in m..n  BY <1>1
  <2> QED BY <2>1, <1>2, <1>8
<1>11. ASSUME NEW i \in m..n, i # m, i - 1 \in G PROVE i \in G
  <2>1. U[i - 1] \in H /\ U[i] = step(U[i - 1], i)  BY <1>11, <1>8
  <2> QED BY <1>11, <2>1, <1>3
<1>12. \A i \in m..n : U[i] \in H
  <2> HIDE DEF G
  <2>1. m..n \subseteq G  BY <1>1, <1>10, <1>11, Upwards
  <2> QED BY <2>1 DEF G
<1>13. Slices(T, m, nodes, U)
  <2>1. m \in m..n  BY <1>1
  <2> QED BY <1>8, <2>1 DEF Slices, step, n, b
<1> QED BY <1>9, <1>12, <1>13 DEF H, n, m

LEMMA SetNodesIs ==
  ASSUME NEW size \in 0..twoto[MAXHBITS]
  PROVE  /\ setnodevector(size) \in Seq(Nodes) /\ NodesIn(setnodevector(size), {})
         /\ \A i \in DOMAIN setnodevector(size) : setnodevector(size)[i] = Node
         /\ LinksIn(setnodevector(size))
<1> DEFINE n == IF size = 0 THEN 0 ELSE twoto[Ceillog2(size)]
           ns == [i \in 1..n |-> Node] \o <<>>
<1>0. n \in Nat
  <2>1. MAXHBITS \in 0..MAXABITS /\ \A i \in 0..MAXHBITS : i \in 0..MAXABITS  BY TableAssumption
  <2>2. Ceillog2(size) \in 0..MAXHBITS  BY <2>1, CeilIs
  <2> QED BY <2>1, <2>2, Powers
<1>1. setnodevector(size) = ns  BY DEF setnodevector
<1> HIDE DEF n
<1>2. Node \in Nodes /\ Node.val = nil /\ Node.next = 0
  <2>1. nil \in AllKeys \cup {nil} /\ FALSE \in BOOLEAN /\ nil \in Values /\ 0 \in Nat  BY DEF Values
  <2> QED BY <2>1, NodeNew DEF Node
<1>3. ns = [i \in 1..n |-> Node]  BY <1>0
<1>4. ns \in Seq(Nodes) /\ \A i \in DOMAIN ns : ns[i] = Node
  <2> HIDE DEF ns
  <2>1. ns \in [1..n -> Nodes]  BY <1>2, <1>3
  <2> QED BY <1>0, <1>3, <2>1
<1> HIDE DEF ns
<1> QED BY <1>1, <1>2, <1>4 DEF NodesIn, NodeIn, LinksIn

(* 'b' has the new array and the new nodes, into which go those of 'T'.     *)
Rebuilds(T, newt, newasize, b, V) ==
  /\ b.node = newt.node /\ b.lastfree = newt.lastfree
  /\ \A i \in 1..newasize : b.arr[i] = IF i <= asize(T) THEN T.arr[i] ELSE nil
  /\ Reinserts(b, T.node, V) /\ FinishResize(T, newt, newasize) = V[Len(T.node)]
LEMMA FinishResizeIs ==
  ASSUME program \in Programs, NEW E \in SUBSET AllEntries,
         NEW T, IsTable(T), NodesIn(T.node, E), ArrayIn(T.arr, E),
         NEW newt, IsTable(newt), NodesIn(newt.node, E), NEW newasize \in Sizes
  PROVE  /\ FinishResize(T, newt, newasize) \in Holding(E, newasize)
         /\ \E b, V : /\ Rebuilds(T, newt, newasize, b, V)
                      /\ \A j \in 0..Len(T.node) : V[j] \in Holding(E, newasize)
<1> DEFINE m == Min({newasize, asize(T)})
           keep == SubSeq(T.arr, 1, m)
           fill == [i \in 1..newasize - Len(keep) |-> nil]
           arr  == keep \o fill
           hint == IF newasize > 0 THEN newasize \div 2 ELSE T.hint
           b    == [newt EXCEPT !.arr = arr, !.hint = hint]
<1>0. /\ T \in Tables /\ T.arr \in Seq(Values) /\ asize(T) = Len(T.arr) /\ asize(T) \in Nat
      /\ newasize \in Nat /\ T.node \in Seq(Nodes) /\ newt \in Tables /\ T.hint \in Nat
  BY DEF IsTable, Tables, asize, Sizes
<1>1. /\ m \in Nat /\ m <= newasize /\ m <= Len(T.arr)
      /\ \A i \in 1..newasize : i <= m <=> i <= asize(T)
  <2>1. m = IF newasize <= asize(T) THEN newasize ELSE asize(T)  BY <1>0, MinOfTwo
  <2> HIDE DEF m
  <2> QED BY <1>0, <2>1
<1> HIDE DEF m
<1>2. keep \in Seq(Values) /\ Len(keep) = m /\ \A i \in 1..m : keep[i] = T.arr[i]  BY <1>0, <1>1
<1> HIDE DEF keep
<1>3. fill \in Seq(Values) /\ Len(fill) = newasize - m /\ \A i \in 1..newasize - m : fill[i] = nil
  <2>1. nil \in Values /\ newasize - m \in Nat  BY <1>0, <1>1 DEF Values
  <2> QED BY <1>2, <2>1
<1> HIDE DEF fill
<1>4. arr \in Seq(Values) /\ Len(arr) = newasize
  <2>1. arr \in Seq(Values) /\ Len(arr) = Len(keep) + Len(fill)  BY <1>2, <1>3
  <2>2. m + (newasize - m) = newasize  BY <1>0, <1>1
  <2> QED BY <1>2, <1>3, <2>1, <2>2
<1>5. \A i \in 1..newasize : arr[i] = IF i <= m THEN T.arr[i] ELSE nil
  <2> TAKE i \in 1..newasize
  <2>1. CASE i <= m
    <3>1. i \in 1..Len(keep) /\ i \in 1..m  BY <2>1, <1>0, <1>1, <1>2
    <3> QED BY <2>1, <3>1, <1>2, <1>3
  <2>2. CASE ~(i <= m)
    <3>1. i - m \in 1..newasize - m /\ i \in Len(keep) + 1..Len(keep) + Len(fill)
      BY <2>2, <1>0, <1>1, <1>2, <1>3
    <3>2. arr[i] = fill[i - Len(keep)]  BY <3>1, <1>2, <1>3
    <3> QED BY <2>2, <3>1, <3>2, <1>2, <1>3
  <2> QED BY <2>1, <2>2
<1> HIDE DEF arr
<1>6. ArrayIn(arr, E)
  <2> SUFFICES ASSUME NEW i \in 1..newasize, arr[i] # nil PROVE <<i, arr[i]>> \in E
    BY <1>4, <1>0 DEF ArrayIn
  <2>1. arr[i] = T.arr[i] /\ i <= m  BY <1>5
  <2>2. i \in DOMAIN T.arr  BY <2>1, <1>0, <1>1
  <2> QED BY <2>1, <2>2 DEF ArrayIn
<1>7. hint \in Nat /\ (newasize > 0 => hint <= newasize)  BY <1>0
<1> HIDE DEF hint
<1>8. b.arr = arr /\ b.hint = hint /\ b.node = newt.node /\ b.lastfree = newt.lastfree /\ b \in Tables
  BY <1>0, <1>4, <1>7 DEF Tables
<1> HIDE DEF b
<1>9. b \in Holding(E, newasize)
  <2>1. asize(b) = newasize  BY <1>4, <1>8 DEF asize
  <2> QED BY <1>6, <1>7, <1>8, <2>1 DEF Holding, IsTable
<1>10. FinishResize(T, newt, newasize) = reinserthash(b, T.node)
  BY DEF FinishResize, b, hint, arr, fill, keep, m
<1> HIDE DEF m, keep, fill, arr, hint, b
<1>11. PICK V : Reinserts(b, T.node, V) /\ \A j \in 0..Len(T.node) : V[j] \in Holding(E, newasize)
  BY <1>0, <1>9, ReinserthashIs
<1>12. Len(T.node) \in 0..Len(T.node)  BY <1>0
<1>13. Rebuilds(T, newt, newasize, b, V)  BY <1>1, <1>5, <1>8, <1>10, <1>11 DEF Rebuilds, Reinserts
<1> QED BY <1>11, <1>12, <1>13 DEF Rebuilds

------------------------------------------------------------------------------
(* ---- finding keys ---- *)
(* The recursion of a search, as a function. *)
Hop(T, k, d, g) ==
  [i \in {0} \cup DOMAIN T.node |-> IF i = 0 \/ equalkey(k, T.node[i], d) THEN i ELSE g[T.node[i].next]]
Finds(T, k, d, find) ==
  /\ getgeneric(T, k, d) = find[Len(T.node)][mainposition(T, k)]
  /\ \A i \in {0} \cup DOMAIN T.node :
       find[0][i] = IF i = 0 \/ equalkey(k, T.node[i], d) THEN i ELSE 0
  /\ \A n \in 1..Len(T.node) : find[n] = Hop(T, k, d, find[n - 1])
LEMMA FindIs ==
  ASSUME program \in Programs, NEW T, IsTable(T), ~isdummy(T), NEW k, NEW d
  PROVE  \E find \in [0..Len(T.node) -> [{0} \cup DOMAIN T.node -> {0} \cup DOMAIN T.node]] :
           Finds(T, k, d, find)
<1> DEFINE N == Len(T.node)
           D == {0} \cup DOMAIN T.node
           H == [D -> D]
           go(g, n) == [i \in D |-> IF i = 0 \/ equalkey(k, T.node[i], d) THEN i
                                    ELSE IF n = 0 THEN 0 ELSE g[T.node[i].next]]
           b == [i \in D |-> IF i = 0 \/ equalkey(k, T.node[i], d) THEN i ELSE 0]
           F == [p \in (0..N) \X H |-> go(p[2], p[1])]
           Eq(f) == [n \in 0..N |-> go(f[n - 1], n)]
           find == CHOOSE f : f = Eq(f)
<1>0. /\ T.node \in Seq(Nodes) /\ N \in Nat /\ N \in Int /\ 0 \in Int /\ 0 <= N
      /\ \A i \in D : i # 0 => T.node[i].next \in D
  BY DEF IsTable, Tables, LinksIn
<1>1. getgeneric(T, k, d) = find[N][mainposition(T, k)]  BY DEF getgeneric
<1>2. b \in H  OBVIOUS
<1>3. ASSUME NEW g \in H, NEW n \in 0..N PROVE go(g, n) \in H
  <2> HIDE DEF D
  <2>1. 0 \in D  BY DEF D
  <2>2. \A i \in D : i # 0 => g[T.node[i].next] \in D  BY <1>0
  <2> QED BY <2>1, <2>2
<1>4. \A g : go(g, 0) = b  OBVIOUS
<1>5. ASSUME NEW g, NEW n \in 1..N PROVE go(g, n) = Hop(T, k, d, g)
  <2>1. n # 0  BY <1>0
  <2> QED BY <2>1 DEF Hop
<1> HIDE DEF D, go, b
<1>6. Steps(F, 0, N, H)
  <2> HIDE DEF H
  <2> QED BY <1>3 DEF Steps
<1>7. PICK f \in [0..N -> H] : Iterates(f, F, 0, N, b)
  <2> HIDE DEF F, H, N
  <2> QED BY <1>0, <1>2, <1>6, Iterate
<1>8. f = Eq(f)
  <2>1. ASSUME NEW n \in 0..N, n # 0 PROVE F[<<n, f[n - 1]>>] = go(f[n - 1], n)
    <3>1. n - 1 \in 0..N  BY <2>1, <1>0
    <3> HIDE DEF H
    <3>2. f[n - 1] \in H  BY <3>1, <1>7
    <3> QED BY <3>2
  <2> HIDE DEF F, H, N
  <2>2. f = [n \in 0..N |-> IF n = 0 THEN b ELSE F[<<n, f[n - 1]>>]]  BY <1>7 DEF Iterates
  <2> QED BY <1>4, <2>1, <2>2
<1>9. find = Eq(find)
  <2> HIDE DEF Eq
  <2> QED BY <1>8
<1>10. \A n \in 0..N : find[n] = go(find[n - 1], n)
  <2> HIDE DEF find
  <2> QED BY <1>9
<1> DEFINE h == [n \in 0..N |-> find[n]]
<1>11. h = find
  <2> HIDE DEF find, go
  <2> QED BY <1>9
<1> HIDE DEF find, F, Eq
<1> DEFINE G == {n \in 0..N : find[n] \in H}
<1>12. 0 \in G
  <2>1. 0 \in 0..N  BY <1>0
  <2> HIDE DEF H
  <2> QED BY <2>1, <1>2, <1>4, <1>10
<1>13. ASSUME NEW n \in 0..N, n # 0, n - 1 \in G PROVE n \in G
  <2> HIDE DEF H
  <2>1. find[n - 1] \in H  BY <1>13
  <2> QED BY <2>1, <1>3, <1>10
<1>14. \A n \in 0..N : find[n] \in H
  <2> HIDE DEF G, N
  <2>1. 0..N \subseteq G  BY <1>0, <1>12, <1>13, Upwards
  <2> QED BY <2>1 DEF G
<1>15. find \in [0..N -> H]
  <2> HIDE DEF H, N
  <2>1. h \in [0..N -> H]  BY <1>14
  <2> QED BY <1>11, <2>1
<1>16. find[0] = b  BY <1>0, <1>4, <1>10
<1>17. \A n \in 1..N : find[n] = Hop(T, k, d, find[n - 1])
  <2>1. \A n \in 1..N : n \in 0..N  BY <1>0
  <2> QED BY <1>5, <1>10, <2>1
<1>18. \A i \in D : find[0][i] = IF i = 0 \/ equalkey(k, T.node[i], d) THEN i ELSE 0  BY <1>16 DEF b
<1> QED BY <1>1, <1>15, <1>17, <1>18 DEF D, Finds

LEMMA GetIs ==
  ASSUME program \in Programs, NEW T, IsTable(T), NEW k \in AllKeys, NEW d
  PROVE  LET p == getgeneric(T, k, d) IN p = 0 \/ (p \in DOMAIN T.node /\ equalkey(k, T.node[p], d))
<1> DEFINE N == Len(T.node)
           D == {0} \cup DOMAIN T.node
           R == {0} \cup {i \in DOMAIN T.node : equalkey(k, T.node[i], d)}
<1>0. N \in Nat /\ 0 \in 0..N /\ N \in 0..N /\ T.node \in Seq(Nodes) /\ LinksIn(T.node)
  BY DEF IsTable, Tables
<1>1. CASE isdummy(T)  BY <1>1 DEF getgeneric
<1>2. CASE ~isdummy(T)
  <2>1. PICK find \in [0..N -> [D -> D]] : Finds(T, k, d, find)  BY <1>2, FindIs
  <2> DEFINE G == {n \in 0..N : \A i \in D : find[n][i] \in R}
  <2>2. 0 \in G
    <3>1. \A i \in D : find[0][i] = IF i = 0 \/ equalkey(k, T.node[i], d) THEN i ELSE 0
      BY <2>1 DEF Finds
    <3> QED BY <1>0, <3>1
  <2>3. ASSUME NEW n \in 0..N, n # 0, n - 1 \in G PROVE n \in G
    <3>1. n \in 1..N /\ find[n] = Hop(T, k, d, find[n - 1])  BY <1>0, <2>1, <2>3 DEF Finds
    <3> HIDE DEF N
    <3>2. \A i \in D : find[n][i] = IF i = 0 \/ equalkey(k, T.node[i], d) THEN i
                                    ELSE find[n - 1][T.node[i].next]
      BY <3>1 DEF Hop
    <3>3. ASSUME NEW i \in D PROVE find[n][i] \in R
      <4>1. CASE i = 0 \/ equalkey(k, T.node[i], d)  BY <3>2, <4>1
      <4>2. CASE ~(i = 0 \/ equalkey(k, T.node[i], d))
        <5>1. T.node[i].next \in D  BY <1>0, <4>2 DEF LinksIn
        <5>2. find[n - 1][T.node[i].next] \in R  BY <2>3, <5>1
        <5> QED BY <3>2, <4>2, <5>2
      <4> QED BY <4>1, <4>2
    <3> QED BY <3>3
  <2>4. 0 \in Int /\ N \in Int  BY <1>0
  <2> HIDE DEF G
  <2>5. 0..N \subseteq G
    <3> HIDE DEF N
    <3> QED BY <2>2, <2>3, <2>4, Upwards
  <2>6. mainposition(T, k) \in D  BY <1>0, <1>2, MainIn
  <2>7. find[N][mainposition(T, k)] \in R  BY <1>0, <2>5, <2>6 DEF G
  <2> QED BY <2>1, <2>7 DEF Finds
<1> QED BY <1>1, <1>2

(* A value that is found has its entry in the table. *)
LEMMA FoundIs ==
  ASSUME program \in Programs, NEW T, NEW E, Holds(T, E), NEW k \in AllKeys, luaH_get(T, k) # nil
  PROVE  <<k, luaH_get(T, k)>> \in E
<1>1. CASE InArray(T, k)
  <2>1. k \in DOMAIN T.arr  BY <1>1 DEF InArray, asize, Holds, IsTable, Tables
  <2> QED BY <1>1, <2>1 DEF luaH_get, Holds, ArrayIn
<1>2. CASE ~InArray(T, k)
  <2> DEFINE p == getgeneric(T, k, FALSE)
  <2>1. p = 0 \/ (p \in DOMAIN T.node /\ equalkey(k, T.node[p], FALSE))  BY GetIs DEF Holds
  <2>2. luaH_get(T, k) = IF p = 0 THEN nil ELSE T.node[p].val  BY <1>2 DEF luaH_get
  <2> HIDE DEF p
  <2> QED BY <2>1, <2>2 DEF equalkey, Holds, NodesIn, NodeIn
<1> QED BY <1>1, <1>2

(* The traversal goes through the array and then through the nodes.         *)
KeyAt(T, j) ==
  IF j <= asize(T) THEN IF T.arr[j] = nil THEN nil ELSE j
  ELSE IF T.node[j - asize(T)].val = nil THEN nil ELSE T.node[j - asize(T)].key
Further(T, i) == {j \in i + 1..asize(T) + Len(T.node) : KeyAt(T, j) # nil}
LEMMA NextKey ==
  ASSUME program \in Programs, NEW T, IsTable(T), NEW k \in AllKeys \cup {nil}
  PROVE  LET i == findindex(T, k)
             I == Further(T, i) IN
         /\ i = -1 \/ i \in Nat
         /\ luaH_next(T, k) = IF i = -1 THEN invalid ELSE IF I = {} THEN none ELSE KeyAt(T, Min(I))
         /\ i # -1 => I \subseteq 1..asize(T) + Len(T.node)
<1> DEFINE A == [i \in 1..asize(T) |-> IF T.arr[i] = nil THEN nil ELSE i]
           B == [i \in DOMAIN T.node |-> IF T.node[i].val = nil THEN nil ELSE T.node[i].key]
           keys == A \o B
           i == findindex(T, k)
           I == {j \in i + 1..Len(keys) : keys[j] # nil}
           rest == IF I # {} THEN Min(I) ELSE 0
<1>0. /\ IsTable(T) /\ T.node \in Seq(Nodes) /\ T.arr \in Seq(Values) /\ asize(T) = Len(T.arr)
      /\ asize(T) \in Nat /\ Len(T.node) \in Nat
  BY DEF IsTable, Tables, asize
<1>1. luaH_next(T, k) = CASE i = -1 -> invalid [] i # -1 /\ rest = 0 -> none [] OTHER -> keys[rest]
  BY DEF luaH_next, SelectInSubSeq
<1>2. i = -1 \/ i \in Nat
  <2>1. CASE k = nil \/ InArray(T, k)
    <3>1. i = 0 \/ (i = k /\ InArray(T, k))  BY <2>1 DEF findindex
    <3> HIDE DEF i
    <3> QED BY <1>0, <3>1 DEF InArray
  <2>2. CASE ~(k = nil \/ InArray(T, k))
    <3> DEFINE p == getgeneric(T, k, TRUE)
    <3>1. p = 0 \/ p \in DOMAIN T.node  BY <1>0, <2>2, GetIs
    <3>2. i = IF p = 0 THEN -1 ELSE asize(T) + p  BY <2>2 DEF findindex
    <3> HIDE DEF p, i
    <3>3. p \in Nat  BY <1>0, <3>1
    <3> QED BY <1>0, <3>2, <3>3
  <2> QED BY <2>1, <2>2
<1> HIDE DEF i
<1>3. /\ Len(keys) = asize(T) + Len(T.node)
      /\ \A j \in 1..Len(keys) : keys[j] = IF j <= asize(T) THEN A[j] ELSE B[j - asize(T)]
  <2>1. A \in Seq({nil} \cup Int) /\ Len(A) = asize(T)  BY <1>0
  <2>2. B \in Seq(AllKeys \cup {nil}) /\ Len(B) = Len(T.node)
    <3>1. DOMAIN T.node = 1..Len(T.node) /\ \A j \in DOMAIN T.node : T.node[j] \in Nodes  BY <1>0
    <3>2. \A j \in DOMAIN T.node : T.node[j].key \in AllKeys \cup {nil}  BY <3>1, NodeIs
    <3>3. B \in [1..Len(T.node) -> AllKeys \cup {nil}]  BY <3>1, <3>2
    <3> HIDE DEF B
    <3> QED BY <1>0, <3>3
  <2> HIDE DEF A, B
  <2> DEFINE S == {nil} \cup Int \cup AllKeys
  <2>3. A \in Seq(S) /\ B \in Seq(S)  BY <2>1, <2>2
  <2> HIDE DEF S
  <2>4. Len(A \o B) = Len(A) + Len(B)  BY <2>3
  <2>5. \A j \in 1..Len(A) + Len(B) : (A \o B)[j] = IF j <= Len(A) THEN A[j] ELSE B[j - Len(A)]
    BY <2>3
  <2> QED BY <2>1, <2>2, <2>4, <2>5
<1> HIDE DEF keys
<1>4. \A j \in 1..Len(keys) : /\ j <= asize(T) => j \in 1..asize(T)
                              /\ j <= asize(T) \/ j - asize(T) \in DOMAIN T.node
  <2>1. DOMAIN T.node = 1..Len(T.node)  BY <1>0
  <2>2. \A a, b \in Nat : \A j \in 1..a + b : (j <= a => j \in 1..a) /\ (j <= a \/ j - a \in 1..b)
    OBVIOUS
  <2> QED BY <1>0, <1>3, <2>1, <2>2
<1>5. ASSUME NEW j \in 1..Len(keys) PROVE keys[j] = KeyAt(T, j)
  <2>1. CASE j <= asize(T)
    <3>1. j \in 1..asize(T)  BY <1>4, <2>1
    <3>2. keys[j] = A[j]  BY <1>3, <2>1
    <3> QED BY <2>1, <3>1, <3>2 DEF KeyAt
  <2>2. CASE ~(j <= asize(T))
    <3> DEFINE m == j - asize(T)
    <3>1. keys[j] = B[m] /\ m \in DOMAIN T.node  BY <1>3, <1>4, <2>2
    <3> QED BY <2>2, <3>1 DEF KeyAt
  <2> QED BY <2>1, <2>2
<1> HIDE DEF A, B
<1>8. Len(keys) \in Nat /\ Len(keys) = asize(T) + Len(T.node)
  <2>1. Len(keys) = asize(T) + Len(T.node)  BY <1>3
  <2>2. \A a, b \in Nat : a + b \in Nat  OBVIOUS
  <2>3. asize(T) + Len(T.node) \in Nat  BY <1>0, <2>2
  <2> QED BY <2>1, <2>3
<1>6. CASE i = -1
  <2> HIDE DEF rest
  <2> QED BY <1>1, <1>6 DEF i
<1>7. CASE i # -1
  <2>1. i \in Nat /\ Len(keys) \in Nat  BY <1>2, <1>7, <1>8
  <2>2. i + 1..Len(keys) \subseteq 1..Len(keys)  BY <2>1
  <2>3. I = Further(T, i)  BY <1>5, <1>8, <2>2 DEF Further
  <2>4. I \subseteq 1..Len(keys)  BY <2>2
  <2>5. CASE I = {}
    <3>1. rest = 0  BY <2>5
    <3> HIDE DEF rest, I
    <3> QED BY <1>1, <1>2, <1>7, <1>8, <2>3, <2>4, <2>5, <3>1 DEF i
  <2>6. CASE I # {}
    <3>1. I \in SUBSET Nat  BY <2>4
    <3>2. Min(I) \in I
      <4> HIDE DEF I
      <4> QED BY <2>6, <3>1, MinIs
    <3>3. rest = Min(I)  BY <2>6
    <3>4. rest \in 1..Len(keys)  BY <2>4, <3>2, <3>3
    <3>5. rest # 0 /\ keys[rest] = KeyAt(T, rest)  BY <1>5, <3>4
    <3> HIDE DEF rest, I
    <3> QED BY <1>1, <1>2, <1>7, <1>8, <2>3, <2>4, <2>6, <3>3, <3>5 DEF i
  <2> QED BY <2>5, <2>6
<1> QED BY <1>6, <1>7

LEMMA NextIs ==
  ASSUME program \in Programs, NEW T, NEW E \in SUBSET AllEntries, Holds(T, E),
         NEW k \in AllKeys \cup {nil}
  PROVE  luaH_next(T, k) \in {none, invalid} \/ \E e \in E : luaH_next(T, k) = e[1]
<1> DEFINE i == findindex(T, k)
           I == Further(T, i)
           n == asize(T)
           N == Len(T.node)
<1>0. /\ IsTable(T) /\ n \in Nat /\ N \in Nat /\ DOMAIN T.node = 1..N /\ DOMAIN T.arr = 1..n
  BY DEF Holds, IsTable, Tables, asize
<1>1. luaH_next(T, k) = IF i = -1 THEN invalid ELSE IF I = {} THEN none ELSE KeyAt(T, Min(I))
  BY <1>0, NextKey
<1>2. CASE i = -1 \/ I = {}
  <2> HIDE DEF i, I
  <2> QED BY <1>1, <1>2
<1>3. CASE i # -1 /\ I # {}
  <2> DEFINE j == Min(I)
  <2>1. I \subseteq 1..n + N  BY <1>0, <1>3, NextKey
  <2>2. I \in SUBSET Nat  BY <2>1
  <2>3. j \in I
    <3> HIDE DEF I
    <3> QED BY <1>3, <2>2, MinIs
  <2>4. luaH_next(T, k) = KeyAt(T, j)
    <3> HIDE DEF I, i
    <3> QED BY <1>1, <1>3
  <2> HIDE DEF j
  <2>5. j \in 1..n + N /\ KeyAt(T, j) # nil  BY <2>1, <2>3 DEF Further
  <2>6. CASE j <= n
    <3>1. j \in DOMAIN T.arr  BY <1>0, <2>5, <2>6
    <3>2. T.arr[j] # nil /\ luaH_next(T, k) = j  BY <2>4, <2>5, <2>6 DEF KeyAt
    <3>3. <<j, T.arr[j]>> \in E  BY <3>1, <3>2 DEF Holds, ArrayIn
    <3> QED BY <3>2, <3>3
  <2>7. CASE ~(j <= n)
    <3> DEFINE m == j - n
    <3>1. m \in DOMAIN T.node
      <4> HIDE DEF n, N
      <4> QED BY <1>0, <2>5, <2>7
    <3>2. T.node[m].val # nil /\ luaH_next(T, k) = T.node[m].key  BY <2>4, <2>5, <2>7 DEF KeyAt
    <3> HIDE DEF m
    <3>3. <<T.node[m].key, T.node[m].val>> \in E  BY <3>1, <3>2 DEF Holds, NodesIn, NodeIn
    <3> QED BY <3>2, <3>3
  <2> QED BY <2>6, <2>7
<1> QED BY <1>2, <1>3

(* ---- the sizes of a rehash ---- *)
LEMMA SizesIs ==
  ASSUME program \in Programs, NEW T, IsTable(T), NEW k \in AllKeys
  PROVE  RehashSizes(T, k).asize \in Sizes /\ RehashSizes(T, k).nsize \in Nat
<1> DEFINE used  == Used(T)
           total == Cardinality(used) + 1
           img  == {T.node[i].key : i \in used}
           ints == (img \cup {k}) \cap arrayindex
           pres == {i \in DOMAIN T.arr : T.arr[i] # nil}
           all  == ints \cup pres
           na   == IF ints = {} THEN asize(T) ELSE computesizes(all)
           low  == {i \in all : i <= na}
           nh   == IF ints = {} THEN total ELSE total + Cardinality(all \ ints) - Cardinality(low)
<1>0. /\ T.node \in Seq(Nodes) /\ T.arr \in Seq(Values) /\ asize(T) \in Sizes
      /\ twoto[MAXABITS] \in Nat
  BY Powers, TableAssumption DEF IsTable, Tables
<1>1. RehashSizes(T, k).asize = na
      /\ RehashSizes(T, k).nsize \in {nh, nh + nh \div 4}
  BY DEF RehashSizes
<1>2. computesizes(all) \in Sizes
  <2> DEFINE J == {j \in 0..MAXABITS :
                     LET upto == {x \in all : x <= twoto[j]} IN
                     /\ arrayXhash(twoto[j], Cardinality(all))
                     /\ \E x \in upto : 2 * x > twoto[j]
                     /\ arrayXhash(twoto[j], Cardinality(upto))}
  <2>1. computesizes(all) = Max({0} \cup {twoto[i] : i \in J})  BY DEF computesizes
  <2>2. J \subseteq 0..MAXABITS  OBVIOUS
  <2> HIDE DEF J
  <2>3. {0} \cup {twoto[i] : i \in J} \subseteq 0..twoto[MAXABITS]  BY <2>2, <1>0, Powers
  <2>4. Max({0} \cup {twoto[i] : i \in J}) \in {0} \cup {twoto[i] : i \in J}  BY <1>0, <2>3, MaxIs
  <2> QED BY <2>1, <2>3, <2>4 DEF Sizes
<1>3. IsFiniteSet(used) /\ Cardinality(used) \in Nat
  <2>1. used \subseteq 1..Len(T.node) /\ 1 \in Int /\ Len(T.node) \in Int  BY <1>0 DEF Used
  <2>2. IsFiniteSet(1..Len(T.node))  BY <2>1, FS_Interval
  <2> HIDE DEF used
  <2> QED BY <2>1, <2>2, FS_Subset, FS_CardinalityType
<1>4. IsFiniteSet(img) /\ Cardinality(img) <= Cardinality(used)
  <2> DEFINE f == [i \in used |-> T.node[i].key]
  <2>1. f \in Surjection(used, img)  BY DEF Surjection
  <2> HIDE DEF f, img, used
  <2> QED BY <1>3, <2>1, FS_Surjection
<1>5. IsFiniteSet(pres)
  <2>1. pres \subseteq 1..Len(T.arr) /\ 1 \in Int /\ Len(T.arr) \in Int  BY <1>0
  <2>2. IsFiniteSet(1..Len(T.arr))  BY <2>1, FS_Interval
  <2> HIDE DEF pres
  <2> QED BY <2>1, <2>2, FS_Subset
<1> HIDE DEF used, img, pres
<1>6. IsFiniteSet(ints) /\ Cardinality(ints) \in Nat /\ Cardinality(ints) <= total
  <2> DEFINE S == img \cup {k}
  <2>1. IsFiniteSet(S) /\ Cardinality(S) <= Cardinality(img) + 1
    <3>1. /\ IsFiniteSet(S)
          /\ Cardinality(S) = IF k \in img THEN Cardinality(img) ELSE Cardinality(img) + 1
      BY <1>4, FS_AddElement
    <3>2. Cardinality(img) \in Nat  BY <1>4, FS_CardinalityType
    <3> HIDE DEF S
    <3> QED BY <3>1, <3>2
  <2>2. IsFiniteSet(S \cap arrayindex) /\ Cardinality(S \cap arrayindex) <= Cardinality(S)
    <3> HIDE DEF S
    <3> QED BY <2>1, FS_Intersection
  <2>3. Cardinality(S) \in Nat /\ Cardinality(img) \in Nat /\ Cardinality(S \cap arrayindex) \in Nat
    <3> HIDE DEF S
    <3> QED BY <1>4, <2>1, <2>2, FS_CardinalityType
  <2>4. ints = S \cap arrayindex  OBVIOUS
  <2> HIDE DEF S, ints
  <2> QED BY <1>3, <1>4, <2>1, <2>2, <2>3, <2>4
<1> HIDE DEF ints
<1>7. IsFiniteSet(all) /\ Cardinality(all) = Cardinality(ints) + Cardinality(all \ ints)
      /\ Cardinality(all \ ints) \in Nat
  <2>1. IsFiniteSet(all)  BY <1>5, <1>6, FS_Union
  <2>2. all \cap ints = ints  OBVIOUS
  <2> HIDE DEF all
  <2>3. /\ IsFiniteSet(all \ ints)
        /\ Cardinality(all \ ints) = Cardinality(all) - Cardinality(all \cap ints)
    BY <2>1, FS_Difference
  <2>4. Cardinality(all) \in Nat /\ Cardinality(all \ ints) \in Nat  BY <2>1, <2>3, FS_CardinalityType
  <2> QED BY <1>6, <2>1, <2>2, <2>3, <2>4
<1>8. Cardinality(low) \in Nat /\ Cardinality(low) <= Cardinality(all)
  <2>1. low \in SUBSET all  OBVIOUS
  <2> HIDE DEF low, all
  <2> QED BY <1>7, <2>1, FS_Subset, FS_CardinalityType
<1>9. na \in Sizes  BY <1>0, <1>2
<1> HIDE DEF low, all, na
<1>10. nh \in Nat  BY <1>3, <1>6, <1>7, <1>8
<1> HIDE DEF nh
<1> QED BY <1>1, <1>9, <1>10

------------------------------------------------------------------------------
(* ---- the steps ---- *)
LEMMA AliveIs ==
  ASSUME NEW A
  PROVE  /\ Alive(A) \in SUBSET AllEntries
         /\ \A k \in AllKeys, v \in Values :
              <<k, v>> \in Alive(A) <=> {k, v} \cap program.objects \subseteq A
         /\ \A B : A \subseteq B => Alive(A) \subseteq Alive(B)
BY DEF Alive, AllEntries

LEMMA Larger ==
  ASSUME NEW T, NEW E, NEW F, E \subseteq F, Holds(T, E)
  PROVE  Holds(T, F)
BY DEF Holds, NodesIn, NodeIn, ArrayIn

LEMMA LargerNodes ==
  ASSUME NEW ns, NEW E, NEW F, E \subseteq F, NodesIn(ns, E)
  PROVE  NodesIn(ns, F)
BY DEF NodesIn, NodeIn

LEMMA ValueIs ==
  ASSUME NEW k \in AllKeys
  PROVE  program.stored[k] \in Values /\ nil \in Values
BY DEF Values

LEMMA AssignedIs ==
  ASSUME NEW T, NEW k, NEW v, Assigned(T, k, v)
  PROVE  t' = T /\ pending' = none /\ key' \in {none, key} /\ left' \subseteq left
BY DEF Assigned

LEMMA SetArray ==
  ASSUME NEW T, NEW E, Holds(T, E), NEW k \in DOMAIN T.arr, NEW v \in Values, <<k, v>> \in E
  PROVE  Holds([T EXCEPT !.arr[k] = v], E)
<1> DEFINE a == [T.arr EXCEPT ![k] = v]
           R == [T EXCEPT !.arr = a]
<1>0. IsTable(T) /\ T \in Tables /\ T.arr \in Seq(Values)  BY DEF Holds, IsTable, Tables
<1>1. a \in Seq(Values) /\ Len(a) = Len(T.arr) /\ DOMAIN a = DOMAIN T.arr
      /\ \A i \in DOMAIN a : a[i] = IF i = k THEN v ELSE T.arr[i]
  BY <1>0
<1> HIDE DEF a
<1>2. ArrayIn(a, E)
  <2> SUFFICES ASSUME NEW i \in DOMAIN a, a[i] # nil PROVE <<i, a[i]>> \in E  BY DEF ArrayIn
  <2>1. CASE i = k  BY <2>1, <1>1
  <2>2. CASE i # k
    <3>1. a[i] = T.arr[i] /\ i \in DOMAIN T.arr  BY <2>2, <1>1
    <3> QED BY <3>1 DEF Holds, ArrayIn
  <2> QED BY <2>1, <2>2
<1>3. R.arr = a /\ R.hint = T.hint /\ R.node = T.node /\ R \in Tables  BY <1>0, <1>1 DEF Tables
<1>4. [T EXCEPT !.arr[k] = v] = R  BY DEF a
<1> HIDE DEF R
<1>5. Holds(R, E)  BY <1>0, <1>1, <1>2, <1>3 DEF Holds, IsTable, asize
<1> QED BY <1>4, <1>5

(* 'R' is 'T' with another value in the node 'p'. *)
Revalued(T, R, p, v) ==
  /\ DOMAIN R.node = DOMAIN T.node /\ Len(R.node) = Len(T.node)
  /\ R.lastfree = T.lastfree /\ R.arr = T.arr
  /\ \A i \in DOMAIN T.node :
       /\ R.node[i].key = T.node[i].key /\ R.node[i].next = T.node[i].next
       /\ R.node[i].dead = T.node[i].dead
       /\ R.node[i].val = IF i = p THEN v ELSE T.node[i].val
LEMMA SetNode ==
  ASSUME NEW T, NEW E, Holds(T, E), NEW p \in DOMAIN T.node, NEW v \in Values, <<T.node[p].key, v>> \in E
  PROVE  LET R == [T EXCEPT !.node[p].val = v] IN Holds(R, E) /\ Revalued(T, R, p, v)
<1> DEFINE x == [T.node[p] EXCEPT !.val = v]
           ns == [T.node EXCEPT ![p] = x]
           R == [T EXCEPT !.node = ns]
<1>0. IsTable(T) /\ T \in Tables /\ T.node \in Seq(Nodes) /\ T.node[p] \in Nodes /\ LinksIn(T.node)
  BY DEF Holds, IsTable, Tables
<1>1. /\ x \in Nodes /\ x.key = T.node[p].key /\ x.val = v /\ x.next = T.node[p].next
      /\ x.dead = T.node[p].dead
  BY <1>0 DEF Nodes
<1> HIDE DEF x
<1>2. /\ ns \in Seq(Nodes) /\ Len(ns) = Len(T.node) /\ DOMAIN ns = DOMAIN T.node
      /\ \A i \in DOMAIN T.node : ns[i] = IF i = p THEN x ELSE T.node[i]
  BY <1>0, <1>1, Update
<1> HIDE DEF ns
<1>3. NodesIn(ns, E)
  <2> SUFFICES ASSUME NEW i \in DOMAIN T.node PROVE NodeIn(ns[i], E)  BY <1>2 DEF NodesIn
  <2>1. CASE i = p
    <3>1. ns[i] = x  BY <2>1, <1>2
    <3> QED BY <3>1, <1>1 DEF NodeIn
  <2>2. CASE i # p
    <3>1. ns[i] = T.node[i]  BY <2>2, <1>2
    <3> QED BY <3>1 DEF Holds, NodesIn
  <2> QED BY <2>1, <2>2
<1>4. LinksIn(ns)
  <2> SUFFICES ASSUME NEW i \in DOMAIN T.node PROVE ns[i].next \in {0} \cup DOMAIN T.node
    BY <1>2 DEF LinksIn
  <2>1. ns[i].next = T.node[i].next  BY <1>1, <1>2
  <2> QED BY <2>1, <1>0 DEF LinksIn
<1>5. R.arr = T.arr /\ R.hint = T.hint /\ R.node = ns /\ R.lastfree = T.lastfree /\ R \in Tables
  BY <1>0, <1>2 DEF Tables
<1>6. [T EXCEPT !.node[p].val = v] = R  BY DEF ns, x
<1> HIDE DEF R
<1>7. Holds(R, E)  BY <1>0, <1>3, <1>4, <1>5 DEF Holds, IsTable, asize
<1>8. Revalued(T, R, p, v)  BY <1>1, <1>2, <1>5 DEF Revalued
<1> QED BY <1>6, <1>7, <1>8

LEMMA SetIs ==
  ASSUME program \in Programs, NEW E \in SUBSET AllEntries, Holds(t, E),
         NEW k \in AllKeys, NEW v \in Values, <<k, v>> \in E, luaH_set(k, v)
  PROVE  /\ Holds(t', E)
         /\ \/ pending' = none /\ key' \in {none, key} /\ left' \subseteq left
            \/ /\ UNCHANGED <<t, key, left>>
               /\ pending' = [k |-> k, v |-> v, newt |-> none, asize |-> RehashSizes(t, k).asize,
                              nsize |-> RehashSizes(t, k).nsize]
<1> DEFINE p == getgeneric(t, k, FALSE)
           new == [k |-> k, v |-> v, newt |-> none, asize |-> RehashSizes(t, k).asize,
                   nsize |-> RehashSizes(t, k).nsize]
<1>1. \/ InArray(t, k) /\ Assigned([t EXCEPT !.arr[k] = v], k, v)
      \/ p # 0 /\ Assigned([t EXCEPT !.node[p].val = v], k, v)
      \/ Assigned(t, k, v)
      \/ Assigned(insertkey(t, k, v), k, v)
      \/ pending' = new /\ UNCHANGED <<t, key, left>>
  BY DEF luaH_set
<1> HIDE DEF new, p
<1>2. CASE InArray(t, k) /\ Assigned([t EXCEPT !.arr[k] = v], k, v)
  <2>1. k \in DOMAIN t.arr  BY <1>2 DEF InArray, asize, Holds, IsTable, Tables
  <2>2. Holds([t EXCEPT !.arr[k] = v], E)  BY <2>1, SetArray
  <2> QED BY <1>2, <2>2, AssignedIs
<1>3. CASE p # 0 /\ Assigned([t EXCEPT !.node[p].val = v], k, v)
  <2>1. p \in DOMAIN t.node /\ equalkey(k, t.node[p], FALSE)  BY <1>3, GetIs DEF Holds, p
  <2>2. t.node[p].key = k  BY <2>1 DEF equalkey
  <2>3. Holds([t EXCEPT !.node[p].val = v], E)  BY <2>1, <2>2, SetNode
  <2> QED BY <1>3, <2>3, AssignedIs
<1>4. CASE Assigned(t, k, v)  BY <1>4, AssignedIs
<1>5. CASE Assigned(insertkey(t, k, v), k, v)
  <2> DEFINE I == insertkey(t, k, v)
  <2>1. IsTable(I) /\ Same(I, t) /\ NodesIn(I.node, E)  BY InsertIs DEF Holds
  <2> HIDE DEF I
  <2>2. Holds(I, E)  BY <2>1 DEF Holds, Same
  <2> QED BY <1>5, <2>2, AssignedIs DEF I
<1>6. CASE pending' = new /\ UNCHANGED <<t, key, left>>  BY <1>6 DEF new
<1> QED BY <1>1, <1>2, <1>3, <1>4, <1>5, <1>6

LEMMA FinishIs ==
  ASSUME program \in Programs, NEW E \in SUBSET AllEntries, Holds(t, E),
         NEW newt, IsTable(newt), NodesIn(newt.node, E), pending.asize \in Sizes,
         pending.k \in AllKeys, pending.v \in Values, <<pending.k, pending.v>> \in E, Finish(newt)
  PROVE  Holds(t', E) /\ pending' = none /\ key' \in {none, key} /\ left' \subseteq left
<1> DEFINE T == FinishResize(t, newt, pending.asize)
           R == newcheckedkey(T, pending.k, pending.v)
<1>1. T \in Holding(E, pending.asize)  BY FinishResizeIs DEF Holds
<1> HIDE DEF T
<1>2. R \in Holding(E, pending.asize)  BY <1>1, NewcheckedIs
<1>3. Assigned(R, pending.k, pending.v)  BY DEF Finish, T
<1> HIDE DEF R
<1> QED BY <1>2, <1>3, AssignedIs DEF Holding, Holds

(* The new nodes have copies of a vanishing part of the array. *)
LEMMA NewNodesAre ==
  ASSUME program \in Programs, Holds(t, AllEntries), pending.asize \in Sizes, pending.nsize \in Nat,
         pending.nsize <= twoto[MAXHBITS]
  PROVE  LET newt == reinsertOldSlice(t, pending.asize, setnodevector(pending.nsize)) IN
         /\ IsTable(newt) /\ NodesIn(newt.node, AllEntries)
         /\ NodesIn(newt.node, IF pending.asize < asize(t) THEN Entries(t.arr) ELSE {})
<1> DEFINE nodes == setnodevector(pending.nsize)
           E == AllEntries \cap (IF pending.asize < asize(t) THEN Entries(t.arr) ELSE {})
           newt == reinsertOldSlice(t, pending.asize, nodes)
<1>0. /\ IsTable(t) /\ t.arr \in Seq(Values) /\ asize(t) = Len(t.arr) /\ DOMAIN t.arr = 1..asize(t)
      /\ asize(t) \in Nat /\ pending.asize \in Nat /\ ArrayIn(t.arr, AllEntries)
  BY DEF Holds, IsTable, Tables, asize, Sizes
<1>1. pending.nsize \in 0..twoto[MAXHBITS]
  <2>1. MAXHBITS \in 0..MAXABITS  BY TableAssumption
  <2> QED BY <2>1, Powers
<1>2. nodes \in Seq(Nodes) /\ NodesIn(nodes, {}) /\ LinksIn(nodes)  BY <1>1, SetNodesIs
<1> HIDE DEF nodes
<1>3. ASSUME NEW i \in pending.asize + 1..asize(t), t.arr[i] # nil PROVE <<i, t.arr[i]>> \in E
  <2>1. i \in DOMAIN t.arr /\ pending.asize < asize(t)  BY <1>0
  <2> QED BY <2>1, <1>0, <1>3 DEF ArrayIn, Entries
<1>4. E \in SUBSET AllEntries  OBVIOUS
<1> HIDE DEF E
<1> DEFINE m == Min({pending.asize, asize(t)})
<1>5. IsTable(newt) /\ NodesIn(newt.node, E)
  <2>1. m <= asize(t) /\ m \in Nat  BY <1>0, MinOfTwo
  <2>2. PICK U : /\ Slices(t, m, nodes, U) /\ \A i \in m..asize(t) : U[i] \in SliceTables(t, E)
                 /\ newt = U[asize(t)]
    <3> HIDE DEF newt
    <3> QED BY <1>0, <1>2, <1>3, <1>4, OldSliceIs DEF newt
  <2>3. asize(t) \in m..asize(t)  BY <1>0, <2>1
  <2> HIDE DEF newt, m
  <2> QED BY <2>2, <2>3 DEF SliceTables
<1> HIDE DEF newt
<1>6. E \subseteq AllEntries /\ E \subseteq IF pending.asize < asize(t) THEN Entries(t.arr) ELSE {}
  BY DEF E
<1> QED BY <1>5, <1>6, LargerNodes DEF newt, nodes

(* The marks are closed under references. *)
LEMMA MarkedIs == Traversed(Marked)
<1>1. \A S \in SUBSET program.objects : Traversed(S) => Marked \subseteq S  BY DEF Marked
<1>2. ASSUME NEW x \in program.objects,
             \A S \in SUBSET program.objects : Traversed(S) => x \in S
      PROVE  x \in Marked
  BY <1>2 DEF Marked
<1>3. Roots \cap program.objects \subseteq Marked  BY <1>2 DEF Traversed
<1>4. ~Weak("k") => {t.node[i].key : i \in InUse} \cap program.objects \subseteq Marked
  BY <1>2 DEF Traversed
<1>5. ~Weak("v") => {t.arr[i] : i \in DOMAIN t.arr} \cap program.objects \subseteq Marked
  BY <1>2 DEF Traversed
<1>6. ASSUME ~Weak("v"), NEW i \in InUse, iscollectable(t.node[i].key) => t.node[i].key \in Marked
      PROVE  {t.node[i].val} \cap program.objects \subseteq Marked
  <2> SUFFICES ASSUME NEW S \in SUBSET program.objects, Traversed(S), t.node[i].val \in program.objects
               PROVE  t.node[i].val \in S
    BY <1>2
  <2>1. iscollectable(t.node[i].key) => t.node[i].key \in S  BY <1>1, <1>6
  <2> QED BY <1>6, <2>1 DEF Traversed
<1> QED BY <1>3, <1>4, <1>5, <1>6 DEF Traversed

LEMMA NodeCleared ==
  ASSUME NEW n \in Nodes, NEW b \in BOOLEAN
  PROVE  LET y == clearkey(IF b THEN [n EXCEPT !.val = nil] ELSE n) IN
         /\ y \in Nodes /\ y.key = n.key /\ y.next = n.next /\ y.val = IF b THEN nil ELSE n.val
         /\ y.dead = n.dead \/ (y.dead /\ y.val = nil)
<1> DEFINE x == IF b THEN [n EXCEPT !.val = nil] ELSE n
           d == TRUE
           y == [x EXCEPT !.dead = d]
<1>0. n = [key |-> n.key, dead |-> n.dead, val |-> n.val, next |-> n.next]  BY NodeIs
<1>1. x = [key |-> n.key, dead |-> n.dead, val |-> IF b THEN nil ELSE n.val, next |-> n.next]
  BY <1>0
<1> HIDE DEF x
<1>2. n.key \in AllKeys \cup {nil} /\ n.dead \in BOOLEAN /\ n.val \in Values /\ nil \in Values
      /\ d \in BOOLEAN /\ n.next \in Nat
  BY NodeIs DEF Values
<1> HIDE DEF d
<1>3. y = [key |-> n.key, dead |-> d, val |-> IF b THEN nil ELSE n.val, next |-> n.next]
  BY <1>1
<1> HIDE DEF y
<1>4. clearkey(x) = x \/ (clearkey(x) = y /\ x.val = nil)  BY DEF clearkey, y, d
<1>5. x \in Nodes /\ y \in Nodes  BY <1>1, <1>2, <1>3, NodeNew
<1>6. /\ x.key = n.key /\ x.next = n.next /\ x.val = IF b THEN nil ELSE n.val
      /\ y.key = n.key /\ y.next = n.next /\ y.val = IF b THEN nil ELSE n.val
      /\ x.dead = n.dead /\ y.dead
  BY <1>1, <1>3 DEF d
<1>7. /\ clearkey(x) \in Nodes /\ clearkey(x).key = n.key /\ clearkey(x).next = n.next
      /\ clearkey(x).val = IF b THEN nil ELSE n.val
      /\ clearkey(x).dead = n.dead \/ (clearkey(x).dead /\ clearkey(x).val = nil)
  BY <1>4, <1>5, <1>6
<1> QED BY <1>7 DEF x

(* What a collection leaves of the array and of a node. *)
ClearedNode(i) == (Weak("v") /\ iscleared(t.node[i].val)) \/ (Weak("k") /\ iscleared(t.node[i].key))
Clears(R) ==
  /\ DOMAIN R.node = DOMAIN t.node /\ Len(R.node) = Len(t.node) /\ R.lastfree = t.lastfree
  /\ \A i \in DOMAIN t.node :
       /\ R.node[i].key = t.node[i].key /\ R.node[i].next = t.node[i].next
       /\ R.node[i].val = IF ClearedNode(i) THEN nil ELSE t.node[i].val
       /\ R.node[i].dead = t.node[i].dead \/ (R.node[i].dead /\ R.node[i].val = nil)
  /\ \A i \in DOMAIN t.arr : R.arr[i] = IF Weak("v") /\ iscleared(t.arr[i]) THEN nil ELSE t.arr[i]
LEMMA CollectedIs ==
  ASSUME program \in Programs, NEW E, Holds(t, E), NEW F,
         \A i \in DOMAIN t.arr :
           t.arr[i] # nil /\ ~(Weak("v") /\ iscleared(t.arr[i])) => <<i, t.arr[i]>> \in F,
         \A i \in InUse :
           ~((Weak("v") /\ iscleared(t.node[i].val)) \/ (Weak("k") /\ iscleared(t.node[i].key)))
             => <<t.node[i].key, t.node[i].val>> \in F
  PROVE  /\ Holds(Collected, F) /\ asize(Collected) = asize(t) /\ Clears(Collected)
         /\ ~Weak("v") => Collected.arr = t.arr
<1> DEFINE c(i) == ClearedNode(i)
           a == ClearArray(t.arr)
           y(i) == clearkey(IF c(i) THEN [t.node[i] EXCEPT !.val = nil] ELSE t.node[i])
           ns == [i \in DOMAIN t.node |-> y(i)] \o <<>>
           R == [t EXCEPT !.arr = a, !.node = ns]
<1>0. /\ IsTable(t) /\ t \in Tables /\ t.arr \in Seq(Values) /\ t.node \in Seq(Nodes)
      /\ LinksIn(t.node) /\ Len(t.node) \in Nat /\ Len(t.arr) \in Nat
  BY DEF Holds, IsTable, Tables
<1>1. Collected = R  BY DEF Collected, ClearedNode
<1>2. /\ a \in Seq(Values) /\ Len(a) = Len(t.arr) /\ DOMAIN a = DOMAIN t.arr
      /\ \A i \in DOMAIN a : a[i] = IF Weak("v") /\ iscleared(t.arr[i]) THEN nil ELSE t.arr[i]
  <2> DEFINE g == [i \in DOMAIN t.arr |-> IF Weak("v") /\ iscleared(t.arr[i]) THEN nil ELSE t.arr[i]]
  <2>1. nil \in Values /\ DOMAIN t.arr = 1..Len(t.arr)  BY <1>0 DEF Values
  <2>2. g \in [1..Len(t.arr) -> Values]  BY <1>0, <2>1
  <2>3. a = g \o <<>>  BY DEF ClearArray
  <2>4. \A i \in DOMAIN t.arr : g[i] = IF Weak("v") /\ iscleared(t.arr[i]) THEN nil ELSE t.arr[i]
    OBVIOUS
  <2> HIDE DEF g, a
  <2>5. g \in Seq(Values) /\ Len(g) = Len(t.arr) /\ DOMAIN g = DOMAIN t.arr  BY <1>0, <2>1, <2>2
  <2>6. a = g  BY <2>3, <2>5
  <2> QED BY <2>4, <2>5, <2>6
<1> HIDE DEF a
<1>3. ASSUME NEW i \in DOMAIN t.node
      PROVE  /\ y(i) \in Nodes /\ y(i).key = t.node[i].key /\ y(i).next = t.node[i].next
             /\ y(i).val = IF c(i) THEN nil ELSE t.node[i].val
             /\ y(i).dead = t.node[i].dead \/ (y(i).dead /\ y(i).val = nil)
  <2>1. t.node[i] \in Nodes /\ c(i) \in BOOLEAN  BY <1>0 DEF ClearedNode
  <2> HIDE DEF c
  <2> QED BY <2>1, NodeCleared
<1> HIDE DEF y
<1>4. /\ ns \in Seq(Nodes) /\ DOMAIN ns = DOMAIN t.node
      /\ \A i \in DOMAIN ns : ns[i] = y(i)
  <2> DEFINE g == [i \in DOMAIN t.node |-> y(i)]
  <2>1. DOMAIN t.node = 1..Len(t.node)  BY <1>0
  <2>2. g \in [1..Len(t.node) -> Nodes] /\ \A i \in DOMAIN t.node : g[i] = y(i)  BY <1>3, <2>1
  <2>3. ns = g \o <<>>  OBVIOUS
  <2> HIDE DEF g, ns
  <2>4. g \in Seq(Nodes) /\ DOMAIN g = DOMAIN t.node  BY <1>0, <2>1, <2>2
  <2>5. ns = g  BY <2>3, <2>4
  <2> QED BY <2>2, <2>4, <2>5
<1> HIDE DEF ns
<1>5. ArrayIn(a, F)
  <2> SUFFICES ASSUME NEW i \in DOMAIN a, a[i] # nil PROVE <<i, a[i]>> \in F  BY DEF ArrayIn
  <2>1. ~(Weak("v") /\ iscleared(t.arr[i])) /\ a[i] = t.arr[i] /\ i \in DOMAIN t.arr  BY <1>2
  <2> QED BY <2>1
<1>6. NodesIn(ns, F)
  <2> SUFFICES ASSUME NEW i \in DOMAIN t.node, y(i).val # nil PROVE <<y(i).key, y(i).val>> \in F
    BY <1>4 DEF NodesIn, NodeIn
  <2>1. ~c(i) /\ y(i).val = t.node[i].val /\ y(i).key = t.node[i].key  BY <1>3
  <2>2. i \in InUse  BY <2>1 DEF InUse
  <2> QED BY <2>1, <2>2 DEF ClearedNode
<1>7. LinksIn(ns)
  <2> SUFFICES ASSUME NEW i \in DOMAIN t.node PROVE ns[i].next \in {0} \cup DOMAIN t.node
    BY <1>4 DEF LinksIn
  <2>1. ns[i].next = t.node[i].next  BY <1>3, <1>4
  <2> QED BY <2>1, <1>0 DEF LinksIn
<1>8. R.arr = a /\ R.hint = t.hint /\ R.node = ns /\ R.lastfree = t.lastfree /\ R \in Tables
  BY <1>0, <1>2, <1>4 DEF Tables
<1> HIDE DEF R
<1>9. asize(R) = asize(t)  BY <1>2, <1>8 DEF asize
<1>10. Holds(R, F)  BY <1>0, <1>5, <1>6, <1>7, <1>8, <1>9 DEF Holds, IsTable
<1>11. ~Weak("v") => a = t.arr
  <2> SUFFICES ASSUME ~Weak("v") PROVE a = t.arr  OBVIOUS
  <2>1. \A i \in DOMAIN a : a[i] = t.arr[i]  BY <1>2
  <2> QED BY <1>0, <1>2, <2>1
<1>12. Clears(R)
  <2>1. Len(ns) = Len(t.node)  BY <1>0, <1>4
  <2> QED BY <1>2, <1>3, <1>4, <1>8, <2>1 DEF Clears
<1> QED BY <1>1, <1>8, <1>9, <1>10, <1>11, <1>12

(* The new table is empty. *)
LEMMA InitHolds ==
  ASSUME Init, NEW E
  PROVE  Holds(t, E)
<1> DEFINE g == [i \in 1..program.asize |-> nil]
           ns == setnodevector(program.nsize)
           h == program.asize \div 2
           l == Len(ns) + 1
<1>0. program \in Programs /\ t = [arr |-> g \o <<>>, hint |-> h, node |-> ns, lastfree |-> l]
  BY DEF Init
<1>1. program.asize \in 0..twoto[MAXABITS] /\ program.nsize \in 0..twoto[MAXHBITS]
      /\ twoto[MAXABITS] \in Nat /\ program.asize \in Nat /\ h \in Nat /\ h <= program.asize
  BY <1>0, TableAssumption, Powers
<1>2. ns \in Seq(Nodes) /\ LinksIn(ns) /\ NodesIn(ns, {})  BY <1>1, SetNodesIs
<1>3. l \in Nat  BY <1>2
<1>4. g \in Seq(Values) /\ Len(g) = program.asize /\ (\A i \in DOMAIN g : g[i] = nil) /\ g \o <<>> = g
  <2>1. g \in [1..program.asize -> Values] /\ \A i \in 1..program.asize : g[i] = nil  BY DEF Values
  <2> HIDE DEF g
  <2>2. g \in Seq(Values) /\ Len(g) = program.asize /\ DOMAIN g = 1..program.asize  BY <1>1, <2>1
  <2> QED BY <2>1, <2>2
<1> HIDE DEF g, ns, h, l
<1>5. t.arr = g /\ t.hint = h /\ t.node = ns /\ t \in Tables  BY <1>0, <1>1, <1>2, <1>3, <1>4 DEF Tables
<1>6. asize(t) = program.asize  BY <1>4, <1>5 DEF asize
<1>7. IsTable(t)  BY <1>1, <1>2, <1>5, <1>6 DEF IsTable, Sizes
<1>8. ArrayIn(t.arr, E)  BY <1>4, <1>5 DEF ArrayIn
<1>9. NodesIn(t.node, E)  BY <1>2, <1>5 DEF NodesIn, NodeIn
<1> QED BY <1>7, <1>8, <1>9 DEF Holds

LEMMA InitRight == Init => TypeInv /\ ReferInv
<1> SUFFICES ASSUME Init PROVE TypeInv /\ ReferInv  OBVIOUS
<1>0. /\ program \in Programs /\ pending = none /\ key = none /\ left = {} /\ alloc = program.objects
      /\ held = program.objects
  BY DEF Init
<1>7. \A E : Holds(t, E)  BY InitHolds
<1>8. TypeInv  BY <1>0, <1>7 DEF TypeInv, Others, Resizing, Idle
<1>9. ReferInv
  <2>1. none \notin program.objects  BY <1>0, NilIs
  <2> QED BY <1>0, <1>7, <2>1 DEF ReferInv, Idle, Roots
<1> QED BY <1>8, <1>9

LEMMA NewPending ==
  ASSUME program \in Programs, IsTable(t), NEW k \in AllKeys, NEW v \in Values,
         pending' = [k |-> k, v |-> v, newt |-> none, asize |-> RehashSizes(t, k).asize,
                     nsize |-> RehashSizes(t, k).nsize]
  PROVE  /\ pending' \in Resizes
         /\ pending'.newt = none /\ pending'.k = k /\ pending'.v = v
         /\ pending'.asize = RehashSizes(t, k).asize /\ pending'.nsize = RehashSizes(t, k).nsize
<1>1. RehashSizes(t, k).asize \in Sizes /\ RehashSizes(t, k).nsize \in Nat  BY SizesIs
<1> QED BY <1>1 DEF Resizes

LEMMA TypeStep == TypeInv /\ [Next]_vars => TypeInv'
<1> SUFFICES ASSUME TypeInv, [Next]_vars PROVE TypeInv'  OBVIOUS
<1>0. program \in Programs /\ Holds(t, AllEntries) /\ Others /\ AllEntries \in SUBSET AllEntries
  BY DEF TypeInv
<1>11. ~Idle => /\ pending \in Resizes
                /\ pending.newt # none => IsTable(pending.newt) /\ NodesIn(pending.newt.node, AllEntries)
  BY DEF TypeInv, Resizing
<1>12. ~Idle => /\ pending.k \in AllKeys /\ pending.v \in Values /\ pending.asize \in Sizes
                /\ pending.nsize \in Nat /\ pending.newt \in {none} \cup Tables
                /\ <<pending.k, pending.v>> \in AllEntries
  <2> SUFFICES ASSUME ~Idle PROVE
         /\ pending.k \in AllKeys /\ pending.v \in Values /\ pending.asize \in Sizes
         /\ pending.nsize \in Nat /\ pending.newt \in {none} \cup Tables
         /\ <<pending.k, pending.v>> \in AllEntries  OBVIOUS
  <2> DEFINE newts == {none} \cup Tables
  <2> HIDE DEF newts
  <2>1. pending \in [k : AllKeys, v : Values, newt : newts, asize : Sizes, nsize : Nat]
    BY <1>11 DEF newts, Resizes
  <2>2. /\ pending.k \in AllKeys /\ pending.v \in Values /\ pending.asize \in Sizes
        /\ pending.nsize \in Nat /\ pending.newt \in newts
    BY <2>1
  <2> QED BY <2>2 DEF AllEntries, newts
(* What an action has to show. *)
<1>13. ASSUME program' = program, Holds(t', AllEntries), Others',
             \/ pending' = none
             \/ /\ pending' \in Resizes
                /\ pending'.newt # none =>
                     IsTable(pending'.newt) /\ NodesIn(pending'.newt.node, AllEntries)
      PROVE  TypeInv'
  <2>1. AllKeys' = AllKeys /\ nil' = nil /\ Sizes' = Sizes  BY <1>13 DEF AllKeys, Sizes
  <2>2. Values' = Values  BY <1>13, <2>1 DEF Values
  <2>3. Nodes' = Nodes /\ AllEntries' = AllEntries  BY <2>1, <2>2 DEF Nodes, AllEntries
  <2>4. Tables' = Tables /\ Resizes' = Resizes  BY <2>1, <2>2, <2>3 DEF Tables, Resizes
  <2>5. IsTable(t)' = IsTable(t') /\ IsTable(pending.newt)' = IsTable(pending'.newt)
    BY <2>1, <2>4 DEF IsTable, LinksIn, asize
  <2>6. Holds(t, AllEntries)' /\ NodesIn(pending.newt.node, AllEntries)' = NodesIn(pending'.newt.node, AllEntries)
    BY <1>13, <2>3, <2>5 DEF Holds, NodesIn, NodeIn, ArrayIn
  <2>7. program' \in Programs  BY <1>0, <1>13
  <2>8. Resizing'
    <3>1. CASE pending' = none  BY <3>1 DEF Resizing, Idle
    <3>2. CASE pending' # none  BY <3>2, <1>13, <2>4, <2>5, <2>6 DEF Resizing, Idle
    <3> QED BY <3>1, <3>2
  <2> QED BY <1>13, <2>6, <2>7, <2>8 DEF TypeInv
(* What an action has to show that keeps the resize. *)
<1>14. ASSUME UNCHANGED <<program, pending>>, Holds(t', AllEntries), Others' PROVE TypeInv'
  BY <1>11, <1>13, <1>14 DEF Idle
<1>15. AllKeys' = AllKeys <=> DOMAIN program'.stored = AllKeys  BY DEF AllKeys
<1>1. CASE UNCHANGED vars
  BY <1>0, <1>1, <1>14, <1>15 DEF vars, Others, AllKeys
<1>2. CASE Set
  <2>1. PICK k \in AllKeys : luaH_set(k, program.stored[k]) \/ luaH_set(k, nil)  BY <1>2 DEF Set
  <2>2. PICK v \in Values : luaH_set(k, v)  BY <2>1, ValueIs
  <2>8. <<k, v>> \in AllEntries  BY DEF AllEntries
  <2>3. UNCHANGED <<program, alloc, held>>  BY <2>2 DEF luaH_set
  <2>4. /\ Holds(t', AllEntries)
        /\ \/ pending' = none /\ key' \in {none, key} /\ left' \subseteq left
           \/ /\ UNCHANGED <<t, key, left>>
              /\ pending' = [k |-> k, v |-> v, newt |-> none, asize |-> RehashSizes(t, k).asize,
                             nsize |-> RehashSizes(t, k).nsize]
    BY <1>0, <2>2, <2>8, SetIs
  <2>5. Others'  BY <1>0, <2>3, <2>4 DEF Others, AllKeys
  <2>6. pending' = none \/ (pending' \in Resizes /\ pending'.newt = none)
    BY <1>0, <2>4, NewPending DEF Holds
  <2> QED BY <1>13, <2>3, <2>4, <2>5, <2>6
<1>3. ASSUME NEW newt, ~Idle, IsTable(newt), NodesIn(newt.node, AllEntries), Finish(newt),
             UNCHANGED <<program, alloc, held>>
      PROVE  TypeInv'
  <2>1. Holds(t', AllEntries) /\ pending' = none /\ key' \in {none, key} /\ left' \subseteq left
    BY <1>0, <1>12, <1>3, FinishIs
  <2>2. Others'  BY <1>0, <1>3, <2>1 DEF Others, AllKeys
  <2> QED BY <1>3, <1>13, <2>1, <2>2
<1>4. CASE AllocNodes
  <2> DEFINE newt == reinsertOldSlice(t, pending.asize, setnodevector(pending.nsize))
  <2>1. /\ ~Idle /\ UNCHANGED <<program, alloc, held>> /\ pending.nsize <= twoto[MAXHBITS]
        /\ \/ Finish(newt)
           \/ pending' = [pending EXCEPT !.newt = newt] /\ UNCHANGED <<t, key, left>>
    BY <1>4 DEF AllocNodes
  <2>2. IsTable(newt) /\ NodesIn(newt.node, AllEntries)  BY <1>0, <1>12, <2>1, NewNodesAre
  <2> HIDE DEF newt
  <2>3. CASE Finish(newt)  BY <1>3, <2>1, <2>2, <2>3
  <2>4. CASE pending' = [pending EXCEPT !.newt = newt] /\ UNCHANGED <<t, key, left>>
    <3>1. pending \in Resizes /\ newt \in Tables  BY <1>11, <2>1, <2>2 DEF IsTable
    <3>2. pending' \in Resizes /\ pending'.newt = newt  BY <2>4, <3>1 DEF Resizes
    <3>3. Others'  BY <1>0, <2>1, <2>4 DEF Others, AllKeys
    <3> QED BY <1>0, <1>13, <2>1, <2>2, <2>4, <3>2, <3>3
  <2> QED BY <2>1, <2>3, <2>4
<1>5. CASE AllocArray
  <2>1. ~Idle /\ pending.newt # none /\ UNCHANGED <<program, alloc, held>> /\ Finish(pending.newt)
    BY <1>5 DEF AllocArray
  <2> QED BY <1>3, <1>11, <2>1
<1>6. CASE AllocFails
  <2>1. Others'  BY <1>0, <1>6 DEF AllocFails, Others, AllKeys
  <2> QED BY <1>0, <1>6, <1>13, <2>1 DEF AllocFails
<1>7. CASE luaH_getn_hint
  <2>1. PICK rnd \in Seeds : /\ t' = [t EXCEPT !.hint = luaH_getn(t, rnd).hint]
                             /\ UNCHANGED <<program, alloc, held, key, left, pending>>
    BY <1>7 DEF luaH_getn_hint
  <2> DEFINE h == luaH_getn(t, rnd).hint
  <2>2. rnd \in Nat  BY TableAssumption
  <2>3. IsTable(t) /\ t \in Tables /\ asize(t) \in Sizes /\ t.hint \in Nat  BY <1>0 DEF Holds, IsTable, Tables
  <2>4. h \in Nat /\ (asize(t) > 0 => h <= asize(t))  BY <2>2, <2>3, GetnIs DEF IsLength, IsTable
  <2> HIDE DEF h
  <2>5. t'.arr = t.arr /\ t'.hint = h /\ t'.node = t.node /\ t' \in Tables
    BY <2>1, <2>3, <2>4 DEF Tables, h
  <2>6. Holds(t', AllEntries)  BY <1>0, <2>3, <2>4, <2>5 DEF Holds, IsTable, asize
  <2>7. Others'  BY <1>0, <2>1 DEF Others, AllKeys
  <2> QED BY <1>14, <2>1, <2>6, <2>7
<1>8. CASE StartTraversal
  <2>1. Others'  BY <1>0, <1>8 DEF StartTraversal, Others, AllKeys
  <2> QED BY <1>0, <1>8, <1>14, <2>1 DEF StartTraversal
<1>9. CASE Traverse
  <2>1. /\ key \notin {none, invalid} /\ key' = luaH_next(t, key) /\ left' = left \ {key'}
        /\ UNCHANGED <<t, program, alloc, held, pending>>
    BY <1>9 DEF Traverse
  <2>2. key \in AllKeys \cup {nil}  BY <1>0, <2>1 DEF Others
  <2>3. luaH_next(t, key) \in {none, invalid} \/ \E e \in AllEntries : luaH_next(t, key) = e[1]
    BY <1>0, <2>2, NextIs
  <2>4. key' \in AllKeys \cup {none, invalid}  BY <2>1, <2>3 DEF AllEntries
  <2>5. Others'  BY <1>0, <2>1, <2>4 DEF Others, AllKeys
  <2> QED BY <1>0, <1>14, <2>1, <2>5
<1>10. CASE Forgets
  <2>1. /\ UNCHANGED <<t, program, key, left, pending>>
        /\ \E o \in program.objects : Forget(o) \/ Fetch(o) \/ Create(o)
    BY <1>10 DEF Forgets
  <2>2. alloc' \subseteq program.objects /\ held' \subseteq program.objects
    BY <1>0, <2>1 DEF Forget, Fetch, Create, Others
  <2>3. Others'  BY <1>0, <2>1, <2>2 DEF Others, AllKeys
  <2> QED BY <1>0, <1>14, <2>1, <2>3
<1>16. CASE Collect
  <2>1. /\ t' = Collected /\ alloc' = alloc \cap Marked /\ left' \subseteq left
        /\ UNCHANGED <<program, held, key, pending>>
    BY <1>16 DEF Collect
  <2>2. Holds(Collected, AllEntries)
    <3>1. \A i \in DOMAIN t.arr : t.arr[i] # nil => <<i, t.arr[i]>> \in AllEntries
      BY <1>0 DEF Holds, ArrayIn
    <3>2. \A i \in InUse : <<t.node[i].key, t.node[i].val>> \in AllEntries
      BY <1>0 DEF Holds, NodesIn, NodeIn, InUse
    <3> QED BY <1>0, <3>1, <3>2, CollectedIs
  <2>3. Others'  BY <1>0, <2>1 DEF Others, AllKeys
  <2> QED BY <1>14, <2>1, <2>2, <2>3
<1> QED
  BY <1>1, <1>2, <1>4, <1>5, <1>6, <1>7, <1>8, <1>9, <1>10, <1>16 DEF Next

(* The table, a resize and the program keep their shape, and the array and  *)
(* nodes have only the program's entries.                                   *)
THEOREM TypeCorrect == Spec => []TypeInv
<1>1. Init => TypeInv  BY InitRight
<1> QED BY <1>1, TypeStep, PTL DEF Spec

(* Whatever collisions, failed rehashes and collections do to a table, the  *)
(* length is a border (luaH_getn).                                          *)
THEOREM LengthRight == Spec => []LengthIsBorder
<1>1. TypeInv => LengthIsBorder
  <2> SUFFICES ASSUME TypeInv, NEW rnd \in Seeds
               PROVE  LET n == luaH_getn(t, rnd).n IN
                      /\ n = 0 \/ luaH_get(t, n) # nil
                      /\ n = MaxInt \/ luaH_get(t, n + 1) = nil
    BY DEF LengthIsBorder
  <2>1. rnd \in Nat  BY TableAssumption
  <2>2. IsTable(t) /\ t.hint \in Nat  BY DEF TypeInv, Holds, IsTable, Tables
  <2>3. IsLength(t, luaH_getn(t, rnd))  BY <2>1, <2>2, GetnIs DEF IsTable
  <2> QED BY <2>3 DEF IsLength, Present, Empty
<1> QED BY <1>1, TypeCorrect, PTL

------------------------------------------------------------------------------
(* ---- no entry refers to a freed object ---- *)
(* No array that a failed allocation may leave in place loses entries.      *)
Shrinkable == ShrinkFails => \A p \in Programs : "v" \notin p.weak

LEMMA ReferStep ==
  ASSUME Shrinkable
  PROVE  TypeInv /\ ReferInv /\ [Next]_vars => ReferInv'
<1> SUFFICES ASSUME TypeInv, ReferInv, [Next]_vars PROVE ReferInv'  OBVIOUS
<1> DEFINE E == Alive(alloc)
<1>0. /\ program \in Programs /\ Holds(t, AllEntries) /\ Others /\ Holds(t, E) /\ E \in SUBSET AllEntries
      /\ Roots \cap program.objects \subseteq alloc
  BY AliveIs DEF TypeInv, ReferInv
<1>11. ~Idle => /\ Knows(pending.k) /\ Knows(pending.v)
                /\ pending.newt # none =>
                     NodesIn(pending.newt.node, IF Shrinking THEN Entries(t.arr) ELSE {})
  BY DEF ReferInv
<1>12. ~Idle => /\ pending \in Resizes
                /\ pending.newt # none => IsTable(pending.newt) /\ NodesIn(pending.newt.node, AllEntries)
  BY DEF TypeInv, Resizing
<1>13. ASSUME ~Idle
       PROVE  /\ pending.k \in AllKeys /\ pending.v \in Values /\ pending.asize \in Sizes
              /\ pending.nsize \in Nat
  <2> DEFINE newts == {none} \cup Tables
  <2> HIDE DEF newts
  <2>1. pending \in [k : AllKeys, v : Values, newt : newts, asize : Sizes, nsize : Nat]
    BY <1>12, <1>13 DEF newts, Resizes
  <2> QED BY <2>1
(* An entry that the program knows is alive. *)
<1>14. ASSUME NEW k \in AllKeys, NEW v \in Values, Knows(k), Knows(v) PROVE <<k, v>> \in E
  <2>1. {k, v} \cap program.objects \subseteq alloc  BY <1>0, <1>14 DEF Knows, iscollectable
  <2> QED BY <2>1, AliveIs
<1>15. none \notin program.objects /\ nil \notin program.objects /\ invalid \notin program.objects
  BY <1>0, NilIs
(* What an action has to show. *)
<1>16. ASSUME program' = program, Holds(t', Alive(alloc')), Roots' \cap program.objects \subseteq alloc',
              \/ pending' = none
              \/ /\ iscollectable(pending'.k) => pending'.k \in Roots'
                 /\ iscollectable(pending'.v) => pending'.v \in Roots'
                 /\ pending'.newt # none =>
                      NodesIn(pending'.newt.node,
                              IF pending'.asize < asize(t') THEN Entries(t'.arr) ELSE {})
       PROVE  ReferInv'
  <2>1. AllKeys' = AllKeys  BY <1>16 DEF AllKeys
  <2>2. Values' = Values  BY <1>16, <2>1 DEF Values
  <2>3. Nodes' = Nodes /\ AllEntries' = AllEntries  BY <2>1, <2>2 DEF Nodes, AllEntries
  <2>4. Tables' = Tables  BY <2>2, <2>3 DEF Tables
  <2>5. IsTable(t)' = IsTable(t')  BY <2>4 DEF IsTable, LinksIn, asize, Sizes
  <2>6. Alive(alloc)' = Alive(alloc')  BY <1>16, <2>3 DEF Alive
  <2>7. Holds(t, Alive(alloc))'  BY <1>16, <2>5, <2>6 DEF Holds, NodesIn, NodeIn, ArrayIn
  <2>8. CASE pending' = none  BY <1>16, <2>7, <2>8 DEF ReferInv, Idle
  <2>9. CASE pending' # none
    <3>1. Knows(pending.k)' /\ Knows(pending.v)'  BY <1>16, <2>9 DEF Knows, iscollectable
    <3>2. pending'.newt # none => Shrinking' = (pending'.asize < asize(t'))
      BY <2>9 DEF Shrinking, Idle, asize
    <3>3. ASSUME pending'.newt # none
          PROVE  NodesIn(pending.newt.node, IF Shrinking THEN Entries(t.arr) ELSE {})'
      <4>1. NodesIn(pending'.newt.node, IF Shrinking' THEN Entries(t'.arr) ELSE {})
        BY <1>16, <2>9, <3>2, <3>3
      <4> QED BY <4>1 DEF NodesIn, NodeIn, Entries
    <3> QED BY <1>16, <2>7, <3>1, <3>3 DEF ReferInv
  <2> QED BY <2>8, <2>9
(* What an action has to show that keeps the resize. *)
<1>17. ASSUME UNCHANGED <<t, program, pending>>, alloc \subseteq alloc',
              Roots' \cap program.objects \subseteq alloc', ~Idle => Roots \subseteq Roots'
       PROVE  ReferInv'
  <2>1. Holds(t', Alive(alloc'))
    <3>1. E \subseteq Alive(alloc')  BY <1>17, AliveIs
    <3> QED BY <1>0, <1>17, <3>1, Larger
  <2>2. CASE Idle  BY <1>16, <1>17, <2>1, <2>2 DEF Idle
  <2>3. CASE ~Idle
    <3>1. pending'.newt # none => Shrinking = (pending'.asize < asize(t'))
      BY <1>17, <2>3 DEF Shrinking, Idle
    <3> QED BY <1>11, <1>16, <1>17, <2>1, <2>3, <3>1 DEF Knows
  <2> QED BY <2>2, <2>3
<1>1. CASE UNCHANGED vars
  <2>1. Roots' = Roots  BY <1>1 DEF vars, Roots
  <2> QED BY <1>0, <1>1, <1>17, <2>1 DEF vars
<1>2. CASE Set
  <2>1. PICK k \in AllKeys : luaH_set(k, program.stored[k]) \/ luaH_set(k, nil)  BY <1>2 DEF Set
  <2>2. PICK v \in Values : luaH_set(k, v)  BY <2>1, ValueIs
  <2>3. Idle /\ Knows(k) /\ Knows(v) /\ UNCHANGED <<program, alloc, held>>  BY <2>2 DEF luaH_set
  <2>4. <<k, v>> \in E  BY <1>14, <2>3
  <2>5. /\ Holds(t', E)
        /\ \/ pending' = none /\ key' \in {none, key} /\ left' \subseteq left
           \/ /\ UNCHANGED <<t, key, left>>
              /\ pending' = [k |-> k, v |-> v, newt |-> none, asize |-> RehashSizes(t, k).asize,
                             nsize |-> RehashSizes(t, k).nsize]
    <3> HIDE DEF E
    <3> QED BY <1>0, <2>2, <2>4, SetIs
  <2>6. Roots' \subseteq Roots \cup {none}  BY <2>3, <2>5 DEF Roots
  <2>7. Roots' \cap program.objects \subseteq alloc'  BY <1>0, <1>15, <2>3, <2>6
  <2>8. CASE pending' = none  BY <1>16, <2>3, <2>5, <2>7, <2>8
  <2>9. CASE pending' # none
    <3>1. /\ UNCHANGED <<t, key, left>> /\ pending'.k = k /\ pending'.v = v /\ pending'.newt = none
      BY <1>0, <2>5, <2>9, NewPending DEF Holds
    <3>2. Roots' = Roots  BY <2>3, <3>1 DEF Roots
    <3> QED BY <1>16, <2>3, <2>5, <2>7, <3>1, <3>2 DEF Knows
  <2> QED BY <2>8, <2>9
<1>3. ASSUME NEW newt, ~Idle, IsTable(newt), NodesIn(newt.node, E), Finish(newt),
             UNCHANGED <<program, alloc, held>>
      PROVE  ReferInv'
  <2>1. <<pending.k, pending.v>> \in E  BY <1>3, <1>11, <1>13, <1>14
  <2>2. Holds(t', E) /\ pending' = none /\ key' \in {none, key} /\ left' \subseteq left
    <3> HIDE DEF E
    <3> QED BY <1>0, <1>3, <1>13, <2>1, FinishIs
  <2>3. Roots' \cap program.objects \subseteq alloc'  BY <1>0, <1>3, <1>15, <2>2 DEF Roots
  <2> QED BY <1>3, <1>16, <2>2, <2>3
(* The new nodes have entries that are alive. *)
<1>4. ASSUME NEW ns, NEW a, NodesIn(ns, IF a THEN Entries(t.arr) ELSE {}) PROVE NodesIn(ns, E)
  <2>1. ASSUME NEW i \in DOMAIN ns, ns[i].val # nil PROVE <<ns[i].key, ns[i].val>> \in E
    <3>1. <<ns[i].key, ns[i].val>> \in Entries(t.arr)  BY <1>4, <2>1 DEF NodesIn, NodeIn
    <3>2. PICK j \in DOMAIN t.arr : <<ns[i].key, ns[i].val>> = <<j, t.arr[j]>>  BY <3>1 DEF Entries
    <3> QED BY <1>0, <2>1, <3>2 DEF Holds, ArrayIn
  <2> QED BY <2>1 DEF NodesIn, NodeIn
<1>5. CASE AllocNodes
  <2> DEFINE newt == reinsertOldSlice(t, pending.asize, setnodevector(pending.nsize))
  <2>1. /\ ~Idle /\ UNCHANGED <<program, alloc, held>> /\ pending.nsize <= twoto[MAXHBITS]
        /\ \/ Finish(newt)
           \/ pending' = [pending EXCEPT !.newt = newt] /\ UNCHANGED <<t, key, left>>
    BY <1>5 DEF AllocNodes
  <2>2. /\ IsTable(newt) /\ NodesIn(newt.node, AllEntries)
        /\ NodesIn(newt.node, IF pending.asize < asize(t) THEN Entries(t.arr) ELSE {})
    BY <1>0, <1>13, <2>1, NewNodesAre
  <2> HIDE DEF newt
  <2>3. CASE Finish(newt)
    <3>1. NodesIn(newt.node, E)  BY <1>4, <2>2
    <3> QED BY <1>3, <2>1, <2>2, <2>3, <3>1
  <2>4. CASE pending' = [pending EXCEPT !.newt = newt] /\ UNCHANGED <<t, key, left>>
    <3>1. pending \in Resizes  BY <1>12, <2>1
    <3>2. /\ pending'.newt = newt /\ pending'.k = pending.k /\ pending'.v = pending.v
          /\ pending'.asize = pending.asize
      BY <2>4, <3>1 DEF Resizes
    <3>3. Roots' = Roots  BY <2>1, <2>4 DEF Roots
    <3>4. iscollectable(pending.k) => pending.k \in Roots  BY <1>11, <2>1 DEF Knows
    <3>5. iscollectable(pending.v) => pending.v \in Roots  BY <1>11, <2>1 DEF Knows
    <3> QED BY <1>0, <1>16, <2>1, <2>2, <2>4, <3>2, <3>3, <3>4, <3>5
  <2> QED BY <2>1, <2>3, <2>4
<1>6. CASE AllocArray
  <2>1. ~Idle /\ pending.newt # none /\ UNCHANGED <<program, alloc, held>> /\ Finish(pending.newt)
    BY <1>6 DEF AllocArray
  <2>2. NodesIn(pending.newt.node, E)  BY <1>4, <1>11, <2>1
  <2> QED BY <1>3, <1>12, <2>1, <2>2
<1>7. CASE AllocFails
  <2>1. Roots' = Roots  BY <1>7 DEF AllocFails, Roots
  <2> QED BY <1>0, <1>7, <1>16, <2>1 DEF AllocFails
<1>8. CASE luaH_getn_hint
  <2>1. PICK rnd \in Seeds : /\ Idle /\ t' = [t EXCEPT !.hint = luaH_getn(t, rnd).hint]
                             /\ UNCHANGED <<program, alloc, held, key, left, pending>>
    BY <1>8 DEF luaH_getn_hint
  <2> DEFINE h == luaH_getn(t, rnd).hint
  <2>2. rnd \in Nat  BY TableAssumption
  <2>3. IsTable(t) /\ t \in Tables /\ asize(t) \in Sizes /\ t.hint \in Nat  BY <1>0 DEF Holds, IsTable, Tables
  <2>4. h \in Nat /\ (asize(t) > 0 => h <= asize(t))  BY <2>2, <2>3, GetnIs DEF IsLength, IsTable
  <2> HIDE DEF h
  <2>5. t'.arr = t.arr /\ t'.hint = h /\ t'.node = t.node /\ t' \in Tables
    BY <2>1, <2>3, <2>4 DEF Tables, h
  <2>6. Holds(t', E)  BY <1>0, <2>3, <2>4, <2>5 DEF Holds, IsTable, asize
  <2>7. Roots' = Roots  BY <2>1 DEF Roots
  <2>8. pending' = none  BY <2>1 DEF Idle
  <2> QED BY <1>0, <1>16, <2>1, <2>6, <2>7, <2>8
<1>9. CASE StartTraversal
  <2>1. Idle /\ key' = nil /\ UNCHANGED <<t, program, alloc, held, pending>>  BY <1>9 DEF StartTraversal
  <2>2. Roots' \cap program.objects \subseteq alloc'  BY <1>0, <1>15, <2>1 DEF Roots
  <2> QED BY <1>17, <2>1, <2>2
<1>10. CASE Traverse
  <2>1. /\ Idle /\ key \notin {none, invalid} /\ key' = luaH_next(t, key)
        /\ UNCHANGED <<t, program, alloc, held, pending>>
    BY <1>10 DEF Traverse
  <2>2. key \in AllKeys \cup {nil}  BY <1>0, <2>1 DEF Others
  <2>3. luaH_next(t, key) \in {none, invalid} \/ \E e \in E : luaH_next(t, key) = e[1]
    <3> HIDE DEF E
    <3> QED BY <1>0, <2>2, NextIs
  <2>4. \A e \in E : {e[1]} \cap program.objects \subseteq alloc  BY DEF Alive
  <2>5. Roots' \cap program.objects \subseteq alloc'
    <3> HIDE DEF E
    <3> QED BY <1>0, <1>15, <2>1, <2>3, <2>4 DEF Roots
  <2> QED BY <1>17, <2>1, <2>5
<1>18. CASE Forgets
  <2>1. Idle /\ UNCHANGED <<t, program, key, left, pending>>  BY <1>18 DEF Forgets
  <2>2. PICK o \in program.objects : Forget(o) \/ Fetch(o) \/ Create(o)  BY <1>18 DEF Forgets
  <2>3. CASE Forget(o)
    <3>1. Roots' \subseteq Roots /\ alloc' = alloc  BY <2>1, <2>3 DEF Forget, Roots
    <3> QED BY <1>0, <1>17, <2>1, <3>1
  <2>4. CASE Fetch(o)
    <3>1. PICK k \in AllKeys : luaH_get(t, k) # nil /\ o \in {k, luaH_get(t, k)}  BY <2>4 DEF Fetch
    <3>2. <<k, luaH_get(t, k)>> \in E
      <4> HIDE DEF E
      <4> QED BY <1>0, <3>1, FoundIs
    <3>3. {k, luaH_get(t, k)} \cap program.objects \subseteq alloc  BY <3>2 DEF Alive
    <3>4. o \in alloc  BY <3>1, <3>3
    <3>5. Roots' = Roots \cup {o} /\ alloc' = alloc  BY <2>1, <2>4 DEF Fetch, Roots
    <3> QED BY <1>0, <1>17, <2>1, <3>4, <3>5
  <2>5. CASE Create(o)
    <3>1. Roots' = Roots \cup {o} /\ alloc' = alloc \cup {o}  BY <2>1, <2>5 DEF Create, Roots
    <3> QED BY <1>0, <1>17, <2>1, <3>1
  <2> QED BY <2>2, <2>3, <2>4, <2>5
<1>19. CASE Collect
  <2> DEFINE F == Alive(alloc \cap Marked)
  <2>1. /\ Shrinking /\ Weak("v") => ShrinkFails
        /\ t' = Collected /\ alloc' = alloc \cap Marked /\ UNCHANGED <<program, held, key, pending>>
    BY <1>19 DEF Collect
  <2>2. Shrinking => ~Weak("v")  BY <1>0, <2>1 DEF Shrinkable, Weak
  <2>3. Traversed(Marked)  BY MarkedIs
  <2>4. Roots' \cap program.objects \subseteq alloc'
    <3>1. Roots' = Roots  BY <2>1 DEF Roots
    <3> QED BY <1>0, <2>1, <2>3, <3>1 DEF Traversed
  <2>5. ASSUME NEW k \in AllKeys, NEW v \in Values, <<k, v>> \in E,
               {k, v} \cap program.objects \subseteq Marked
        PROVE  <<k, v>> \in F
    <3>1. {k, v} \cap program.objects \subseteq alloc  BY <2>5, AliveIs
    <3>2. {k, v} \cap program.objects \subseteq alloc \cap Marked  BY <2>5, <3>1
    <3> QED BY <3>2, AliveIs
  <2>6. ASSUME NEW i \in DOMAIN t.arr, t.arr[i] # nil, ~(Weak("v") /\ iscleared(t.arr[i]))
        PROVE  <<i, t.arr[i]>> \in F
    <3>1. <<i, t.arr[i]>> \in E /\ i \in AllKeys /\ t.arr[i] \in Values
      BY <1>0, <2>6 DEF Holds, ArrayIn, AllEntries
    <3>2. i \notin program.objects
      <4>1. i \in Int  BY <1>0 DEF Holds, IsTable, Tables
      <4> QED BY <1>0, <4>1, NilIs
    <3>3. {t.arr[i]} \cap program.objects \subseteq Marked
      BY <2>3, <2>6 DEF Traversed, iscleared, iscollectable
    <3> QED BY <2>5, <3>1, <3>2, <3>3
  <2>7. ASSUME NEW i \in InUse,
               ~((Weak("v") /\ iscleared(t.node[i].val)) \/ (Weak("k") /\ iscleared(t.node[i].key)))
        PROVE  <<t.node[i].key, t.node[i].val>> \in F
    <3>1. <<t.node[i].key, t.node[i].val>> \in E  BY <1>0, <2>7 DEF Holds, NodesIn, NodeIn, InUse
    <3>2. t.node[i].key \in AllKeys /\ t.node[i].val \in Values  BY <1>0, <3>1 DEF AllEntries
    <3>3. {t.node[i].key} \cap program.objects \subseteq Marked
      BY <2>3, <2>7 DEF Traversed, iscleared, iscollectable
    <3>4. {t.node[i].val} \cap program.objects \subseteq Marked
      BY <2>3, <2>7, <3>3 DEF Traversed, iscleared, iscollectable
    <3> QED BY <2>5, <3>1, <3>2, <3>3, <3>4
  <2>8. Holds(Collected, F) /\ asize(Collected) = asize(t) /\ (~Weak("v") => Collected.arr = t.arr)
    <3> HIDE DEF E, F
    <3> QED BY <1>0, <2>6, <2>7, CollectedIs
  <2>9. Holds(t', Alive(alloc'))  BY <2>1, <2>8
  <2>10. CASE Idle  BY <1>16, <2>1, <2>4, <2>9, <2>10 DEF Idle
  <2>11. CASE ~Idle
    <3>1. Roots' = Roots /\ asize(t') = asize(t) /\ pending' = pending  BY <2>1, <2>8 DEF Roots
    <3>2. Knows(pending.k) /\ Knows(pending.v)  BY <1>11, <2>11
    <3>3. ASSUME pending.newt # none
          PROVE  NodesIn(pending.newt.node,
                         IF pending.asize < asize(t') THEN Entries(t'.arr) ELSE {})
      <4>1. NodesIn(pending.newt.node, IF Shrinking THEN Entries(t.arr) ELSE {})  BY <1>11, <2>11, <3>3
      <4>2. Shrinking = (pending.asize < asize(t))  BY <2>11, <3>3 DEF Shrinking
      <4>3. Shrinking => t'.arr = t.arr  BY <2>1, <2>2, <2>8
      <4>4. CASE Shrinking
        <5>1. pending.asize < asize(t') /\ NodesIn(pending.newt.node, Entries(t'.arr))
          BY <3>1, <4>1, <4>2, <4>3, <4>4
        <5> QED BY <5>1
      <4>5. CASE ~Shrinking
        <5>1. ~(pending.asize < asize(t')) /\ NodesIn(pending.newt.node, {})
          BY <3>1, <4>1, <4>2, <4>5
        <5> QED BY <5>1
      <4> QED BY <4>4, <4>5
    <3> QED BY <1>16, <2>1, <2>4, <2>9, <3>1, <3>2, <3>3 DEF Knows
  <2> QED BY <2>10, <2>11
<1> QED
  BY <1>1, <1>2, <1>5, <1>6, <1>7, <1>8, <1>9, <1>10, <1>18, <1>19 DEF Next

(* A table refers to no object that was freed, whatever allocations of a    *)
(* rehash fail and whatever a collection clears meanwhile, unless the array *)
(* of a table with weak values shrinks and that fails (luaH_resize).        *)
THEOREM EntriesAlive ==
  ASSUME Shrinkable
  PROVE  Spec => []NoDanglingEntry
<1>1. Init => TypeInv /\ ReferInv  BY InitRight
<1>2. TypeInv /\ ReferInv /\ [Next]_vars => TypeInv' /\ ReferInv'  BY TypeStep, ReferStep
<1>3. TypeInv /\ ReferInv => NoDanglingEntry
  <2> SUFFICES ASSUME TypeInv, ReferInv PROVE NoDanglingEntry  OBVIOUS
  <2>1. program \in Programs /\ Holds(t, Alive(alloc))  BY DEF TypeInv, ReferInv
  <2>2. ASSUME NEW i \in DOMAIN t.arr, iscollectable(t.arr[i]) PROVE t.arr[i] \in alloc
    <3>1. t.arr[i] # nil  BY <2>1, <2>2, NilIs DEF iscollectable
    <3>2. <<i, t.arr[i]>> \in Alive(alloc)  BY <2>1, <3>1 DEF Holds, ArrayIn
    <3> QED BY <2>2, <3>2 DEF Alive, iscollectable
  <2>3. ASSUME NEW i \in InUse PROVE {t.node[i].key, t.node[i].val} \cap Objects \subseteq alloc
    <3>1. <<t.node[i].key, t.node[i].val>> \in Alive(alloc)
      BY <2>1, <2>3 DEF Holds, NodesIn, NodeIn, InUse
    <3> DEFINE k == t.node[i].key
               v == t.node[i].val
    <3>2. k \in AllKeys /\ v \in Values /\ {k, v} \cap program.objects \subseteq alloc
      BY <3>1 DEF Alive, AllEntries
    <3> HIDE DEF k, v
    <3>3. AllKeys \subseteq Int \cup program.objects /\ Values \subseteq Int \cup program.objects \cup {nil}
          /\ Objects \cap Int = {} /\ nil \notin Objects
      BY <2>1, TableAssumption DEF AllKeys, Values
    <3>4. {k, v} \cap Objects \subseteq alloc  BY <3>2, <3>3
    <3> QED BY <3>4 DEF k, v
  <2> QED BY <2>2, <2>3 DEF NoDanglingEntry
<1> QED BY <1>1, <1>2, <1>3, PTL DEF Spec
------------------------------------------------------------------------------
(* ---- chains ---- *)
Live(T) == {i \in DOMAIN T.node : T.node[i].key # nil /\ ~T.node[i].dead}
Free(T) == {i \in DOMAIN T.node : T.node[i].key = nil}

(* A search for 'k' that is in 'S' stays there, and it comes to 'i'.        *)
Follows(T, k, S) == \A x \in S : T.node[x].key # k /\ T.node[x].next # 0 => T.node[x].next \in S
Reached(T, k, i) ==
  \A S \in SUBSET DOMAIN T.node : mainposition(T, k) \in S /\ Follows(T, k, S) => i \in S

(* A node has one predecessor, a free one has none and is not yet passed by *)
(* 'lastfree', the search for a key that is alive comes to its node, and    *)
(* the main position of such a key is taken by one that belongs there.      *)
OnePredecessor(T) ==
  \A i, j \in DOMAIN T.node : i # j /\ T.node[i].next = T.node[j].next => T.node[i].next = 0
FreeApart(T) ==
  \A i \in Free(T) : /\ T.node[i].next = 0 /\ \A j \in DOMAIN T.node : T.node[j].next # i
                     /\ haslastfree(T) => i < T.lastfree
AtHome(T, p) == p \in DOMAIN T.node /\ T.node[p].key # nil /\ mainposition(T, T.node[p].key) = p
LiveReached(T) ==
  \A i \in Live(T) : Reached(T, T.node[i].key, i) /\ AtHome(T, mainposition(T, T.node[i].key))
Orderly(T) == OnePredecessor(T) /\ FreeApart(T) /\ LiveReached(T) /\ Used(T) \subseteq Live(T)

Absent(T, k) == \A i \in Live(T) : T.node[i].key # k
NodeEntries(T) == {<<T.node[i].key, T.node[i].val>> : i \in Used(T)}

(* 'I' is 'T' with the key 'k' in the node 'p'.                             *)
Placed(T, I, p, k, v) ==
  /\ Same(I, T) /\ DOMAIN I.node = DOMAIN T.node /\ DOMAIN T.node \subseteq Nat \ {0}
  /\ I.node[p].key = k /\ ~I.node[p].dead /\ I.node[p].val = v
Kept(T, I, i) == /\ I.node[i].key = T.node[i].key /\ I.node[i].dead = T.node[i].dead
                 /\ I.node[i].val = T.node[i].val
Taken(T, I, p, k, v) ==
  /\ Placed(T, I, p, k, v) /\ I.node[p].next = T.node[p].next /\ I.lastfree = T.lastfree
  /\ \A i \in DOMAIN T.node \ {p} : Kept(T, I, i) /\ I.node[i].next = T.node[i].next
Freed(T, I, f) ==
  /\ f \in Free(T) /\ \A i \in Free(T) : i <= f
  /\ I.lastfree = IF haslastfree(T) THEN f ELSE T.lastfree
MovedAway(T, I, p, f, k, v) ==
  /\ Placed(T, I, p, k, v) /\ I.node[p].next = 0 /\ Freed(T, I, f)
  /\ I.node[f] = T.node[p]
  /\ \A i \in DOMAIN T.node \ {p, f} :
       Kept(T, I, i) /\ I.node[i].next = IF i = Previous(T, p) THEN f ELSE T.node[i].next
ChainedAfter(T, I, p, f, k, v) ==
  /\ Placed(T, I, f, k, v) /\ I.node[f].next = T.node[p].next /\ Freed(T, I, f)
  /\ \A i \in DOMAIN T.node \ {f} :
       Kept(T, I, i) /\ I.node[i].next = IF i = p THEN f ELSE T.node[i].next

(* What an insertion promises. *)
Grown(T, I, k, v) ==
  /\ Orderly(I) /\ Same(I, T)
  /\ v # nil => NodeEntries(I) = NodeEntries(T) \cup {<<k, v>>}
  /\ {I.node[i].key : i \in Live(I)} \subseteq {T.node[i].key : i \in Live(T)} \cup {k}
  /\ \E f \in {0} \cup DOMAIN T.node : Free(T) \subseteq Free(I) \cup {f}

LEMMA TakenGrows ==
  ASSUME NEW T, NEW I, NEW k, NEW v, k # nil, NEW p \in DOMAIN T.node, p = mainposition(T, k),
         LinksIn(T.node), Orderly(T), Absent(T, k), T.node[p].val = nil, Taken(T, I, p, k, v)
  PROVE  Grown(T, I, k, v)
<1>0. /\ DOMAIN I.node = DOMAIN T.node /\ \A x : mainposition(I, x) = mainposition(T, x)
      /\ haslastfree(I) = haslastfree(T)
  BY DEF Taken, Placed, Same, mainposition, haslastfree
<1>1. /\ \A i \in DOMAIN T.node : I.node[i].next = T.node[i].next
      /\ \A i \in DOMAIN T.node \ {p} : Kept(T, I, i)
      /\ I.node[p].key = k /\ ~I.node[p].dead /\ I.node[p].val = v /\ I.lastfree = T.lastfree
  BY DEF Taken, Placed
<1>2. Free(I) = Free(T) \ {p} /\ Live(I) = Live(T) \cup {p}  BY <1>0, <1>1 DEF Free, Live, Kept
<1>3. OnePredecessor(I)  BY <1>0, <1>1 DEF Orderly, OnePredecessor
<1>4. FreeApart(I)
  <2>1. \A i \in Free(I) : i \in Free(T) /\ i \in DOMAIN T.node  BY <1>2 DEF Free
  <2>2. FreeApart(T)  BY DEF Orderly
  <2> QED BY <1>0, <1>1, <2>1, <2>2 DEF FreeApart
<1>5. ASSUME NEW i \in Live(I) PROVE Reached(I, I.node[i].key, i) /\ AtHome(I, mainposition(I, I.node[i].key))
  <2>1. CASE i = p
    <3>1. mainposition(I, I.node[i].key) = p  BY <1>0, <1>1, <2>1
    <3> QED BY <1>0, <1>1, <2>1, <3>1 DEF Reached, AtHome
  <2>2. CASE i # p
    <3> DEFINE x == T.node[i].key
    <3>1. i \in Live(T) /\ i \in DOMAIN T.node /\ I.node[i].key = x /\ x # k
      BY <1>1, <1>2, <2>2 DEF Absent, Live, Kept
    <3>2. Reached(T, x, i) /\ AtHome(T, mainposition(T, x))  BY <3>1 DEF Orderly, LiveReached
    <3> HIDE DEF x
    <3>3. Reached(I, x, i)
      <4> SUFFICES ASSUME NEW S \in SUBSET DOMAIN T.node, mainposition(T, x) \in S, Follows(I, x, S)
                   PROVE  i \in S
        BY <1>0 DEF Reached
      <4>1. Follows(T, x, S)
        <5>1. ASSUME NEW y \in S, T.node[y].key # x, T.node[y].next # 0 PROVE T.node[y].next \in S
          <6>1. I.node[y].key # x  BY <1>1, <3>1, <5>1 DEF Kept
          <6> QED BY <1>1, <5>1, <6>1 DEF Follows
        <5> QED BY <5>1 DEF Follows
      <4> QED BY <3>2, <4>1 DEF Reached
    <3>4. AtHome(I, mainposition(I, x))
      <4>1. CASE mainposition(T, x) = p  BY <1>0, <1>1, <4>1 DEF AtHome
      <4>2. CASE mainposition(T, x) # p  BY <1>0, <1>1, <3>2, <4>2 DEF AtHome, Kept
      <4> QED BY <4>1, <4>2
    <3> QED BY <3>1, <3>3, <3>4
  <2> QED BY <2>1, <2>2
<1>6. Orderly(I) /\ (v # nil => Used(I) = Used(T) \cup {p}) /\ p \notin Used(T)
  <2>1. p \notin Used(T) /\ (v # nil => Used(I) = Used(T) \cup {p}) /\ Used(I) \subseteq Used(T) \cup {p}
    BY <1>0, <1>1 DEF Used, Kept
  <2>2. Used(I) \subseteq Live(I)  BY <1>2, <2>1 DEF Orderly
  <2> QED BY <1>3, <1>4, <1>5, <2>1, <2>2 DEF Orderly, LiveReached
<1>7. v # nil => NodeEntries(I) = NodeEntries(T) \cup {<<k, v>>}
  BY <1>1, <1>6 DEF NodeEntries, Used, Kept
<1>8. {I.node[i].key : i \in Live(I)} \subseteq {T.node[i].key : i \in Live(T)} \cup {k}
  BY <1>1, <1>2 DEF Live, Kept
<1>9. Free(T) \subseteq Free(I) \cup {p}  BY <1>2
<1> QED BY <1>6, <1>7, <1>8, <1>9 DEF Grown, Taken, Placed

LEMMA MovedGrows ==
  ASSUME NEW T, NEW I, NEW k, NEW v, k # nil, NEW p \in DOMAIN T.node, p = mainposition(T, k),
         LinksIn(T.node), Orderly(T), Absent(T, k), T.node[p].val # nil,
         mainposition(T, T.node[p].key) # p, NEW f \in DOMAIN T.node, MovedAway(T, I, p, f, k, v)
  PROVE  Grown(T, I, k, v)
<1> DEFINE q == Previous(T, p)
           z == T.node[p].key
<1>0. /\ DOMAIN I.node = DOMAIN T.node /\ \A x : mainposition(I, x) = mainposition(T, x)
      /\ haslastfree(I) = haslastfree(T) /\ DOMAIN T.node \subseteq Nat \ {0}
  BY DEF MovedAway, Placed, Same, mainposition, haslastfree
<1>1. p \in Live(T) /\ p \in Used(T) /\ z # nil /\ z # k /\ f # p /\ f \in Free(T)
  BY DEF Orderly, Used, Live, Absent, MovedAway, Freed, Free
<1>2. T.node[f].next = 0 /\ T.node[f].key = nil /\ \A j \in DOMAIN T.node : T.node[j].next # f
  BY <1>1 DEF Orderly, FreeApart, Free
<1>3. q \in DOMAIN T.node /\ T.node[q].next = p /\ q # p /\ q # f
  <2>1. \E j \in DOMAIN T.node \ {p} : T.node[j].next = p
    <3> SUFFICES ASSUME \A j \in DOMAIN T.node \ {p} : T.node[j].next # p PROVE FALSE  OBVIOUS
    <3> DEFINE S == DOMAIN T.node \ {p}
    <3>1. mainposition(T, z) \in S /\ Reached(T, z, p)
      BY <1>1 DEF Orderly, LiveReached, AtHome
    <3>2. Follows(T, z, S)  BY DEF Follows, LinksIn
    <3> QED BY <3>1, <3>2 DEF Reached
  <2>2. PICK j \in DOMAIN T.node \ {p} : T.node[j].next = p  BY <2>1
  <2>3. q \in DOMAIN T.node /\ T.node[q].next = p  BY <2>2 DEF Previous
  <2>4. q = j  BY <1>0, <2>2, <2>3 DEF Orderly, OnePredecessor
  <2> QED BY <1>0, <1>2, <2>2, <2>3, <2>4
<1>4. /\ I.node[p].key = k /\ ~I.node[p].dead /\ I.node[p].val = v /\ I.node[p].next = 0
      /\ I.node[f] = T.node[p] /\ I.node[q].next = f
      /\ \A i \in DOMAIN T.node \ {p, f} : Kept(T, I, i)
      /\ \A i \in DOMAIN T.node \ {p, f, q} : I.node[i].next = T.node[i].next
  BY <1>3 DEF MovedAway, Placed
<1> HIDE DEF q
<1>5. Free(I) = Free(T) \ {f} /\ Live(I) = Live(T) \cup {f}
  BY <1>0, <1>1, <1>2, <1>4 DEF Free, Live, Kept
<1>6. OnePredecessor(I)
  <2> SUFFICES ASSUME NEW i \in DOMAIN T.node, NEW j \in DOMAIN T.node, i # j,
                      I.node[i].next = I.node[j].next, I.node[i].next # 0
               PROVE  FALSE
    BY <1>0 DEF OnePredecessor
  <2> DEFINE o(x) == IF x = f THEN p ELSE x
  <2>1. i # p /\ j # p  BY <1>4
  <2>2. ASSUME NEW x \in DOMAIN T.node \ {p, q} PROVE I.node[x].next = T.node[o(x)].next /\ o(x) # q
    BY <1>3, <1>4, <2>2
  <2>3. \A x \in DOMAIN T.node : T.node[x].next # f  BY <1>2
  <2>4. CASE i = q  BY <1>1, <1>4, <2>1, <2>2, <2>3, <2>4
  <2>5. CASE j = q  BY <1>1, <1>4, <2>1, <2>2, <2>3, <2>5
  <2>6. CASE i # q /\ j # q
    <3>1. o(i) # o(j) /\ o(i) \in DOMAIN T.node /\ o(j) \in DOMAIN T.node  BY <2>1, <2>6
    <3>2. T.node[o(i)].next = T.node[o(j)].next /\ T.node[o(i)].next # 0  BY <2>1, <2>2, <2>6
    <3> HIDE DEF o
    <3> QED BY <3>1, <3>2 DEF Orderly, OnePredecessor
  <2> QED BY <2>4, <2>5, <2>6
<1>7. FreeApart(I)
  <2> SUFFICES ASSUME NEW i \in Free(I)
               PROVE  /\ I.node[i].next = 0 /\ \A j \in DOMAIN T.node : I.node[j].next # i
                      /\ haslastfree(T) => i < I.lastfree
    BY <1>0 DEF FreeApart
  <2>1. i \in Free(T) /\ i # f /\ i \in DOMAIN T.node /\ i # p /\ i # q
    BY <1>0, <1>1, <1>3, <1>5 DEF Free, Live, Orderly, FreeApart
  <2>2. T.node[i].next = 0 /\ \A j \in DOMAIN T.node : T.node[j].next # i
    BY <2>1 DEF Orderly, FreeApart
  <2>3. I.node[i].next = 0  BY <1>4, <2>1, <2>2
  <2>4. ASSUME NEW j \in DOMAIN T.node PROVE I.node[j].next # i
    BY <1>0, <1>4, <2>1, <2>2
  <2>5. haslastfree(T) => i < I.lastfree
    <3>1. i <= f /\ (haslastfree(T) => I.lastfree = f)  BY <2>1 DEF MovedAway, Freed
    <3> QED BY <1>0, <2>1, <3>1
  <2> QED BY <2>3, <2>4, <2>5
<1>8. ASSUME NEW i \in Live(T)
      PROVE  LET x == T.node[i].key j == IF i = p THEN f ELSE i IN
             Reached(I, x, j) /\ AtHome(I, mainposition(I, x))
  <2> DEFINE x == T.node[i].key
             j == IF i = p THEN f ELSE i
             m == mainposition(T, x)
  <2>1. Reached(T, x, i) /\ AtHome(T, m) /\ x # k /\ i # f /\ i \in DOMAIN T.node
    BY <1>2 DEF Orderly, LiveReached, Absent, Live
  <2>2. m # p /\ m # f /\ m \in DOMAIN T.node  BY <1>2, <2>1 DEF AtHome
  <2>3. AtHome(I, m)  BY <1>0, <1>4, <2>1, <2>2 DEF AtHome, Kept
  <2> HIDE DEF x
  <2>4. ASSUME NEW S \in SUBSET DOMAIN T.node, m \in S, Follows(I, x, S) PROVE j \in S
    <3> DEFINE R == (S \ {p, f}) \cup (IF f \in S THEN {p} ELSE {})
    <3>1. m \in R /\ R \in SUBSET DOMAIN T.node  BY <2>2, <2>4
    <3>2. ASSUME NEW y \in R, T.node[y].key # x, T.node[y].next # 0 PROVE T.node[y].next \in R
      <4> DEFINE n == T.node[y].next
      <4>1. n \in DOMAIN T.node /\ n # f /\ y # f /\ y \in DOMAIN T.node  BY <1>1, <1>2, <3>2 DEF LinksIn
      <4>2. CASE y = p
        <5>1. f \in S /\ I.node[f].key # x /\ I.node[f].next = n  BY <1>4, <3>2, <4>2
        <5>2. n \in S  BY <2>4, <3>2, <5>1 DEF Follows
        <5>3. n # p  BY <1>3, <3>2, <4>2 DEF Orderly, OnePredecessor
        <5> QED BY <4>1, <5>2, <5>3
      <4>3. CASE y = q
        <5>1. y \in S /\ I.node[y].key # x /\ I.node[y].next = f /\ f # 0
          BY <1>0, <1>3, <1>4, <3>2, <4>1, <4>3 DEF Kept
        <5>2. f \in S  BY <2>4, <5>1 DEF Follows
        <5> QED BY <1>3, <4>3, <5>2
      <4>4. CASE y \notin {p, q}
        <5>1. y \in S /\ I.node[y].key # x /\ I.node[y].next = n  BY <1>4, <3>2, <4>1, <4>4 DEF Kept
        <5>2. n \in S  BY <2>4, <3>2, <5>1 DEF Follows
        <5>3. n # p  BY <1>3, <3>2, <4>1, <4>4 DEF Orderly, OnePredecessor
        <5> QED BY <4>1, <5>2, <5>3
      <4> QED BY <4>2, <4>3, <4>4
    <3>3. i \in R
      <4> HIDE DEF R
      <4>1. Follows(T, x, R)  BY <3>2 DEF Follows
      <4> QED BY <2>1, <3>1, <4>1 DEF Reached
    <3> QED BY <2>1, <3>3
  <2>5. Reached(I, x, j)  BY <1>0, <2>4 DEF Reached
  <2> QED BY <1>0, <2>3, <2>5 DEF x
<1>9. LiveReached(I)
  <2> SUFFICES ASSUME NEW i \in Live(I)
               PROVE  Reached(I, I.node[i].key, i) /\ AtHome(I, mainposition(I, I.node[i].key))
    BY DEF LiveReached
  <2>1. CASE i = p
    <3>1. mainposition(I, I.node[i].key) = p  BY <1>0, <1>4, <2>1
    <3> QED BY <1>0, <1>4, <2>1, <3>1 DEF Reached, AtHome
  <2>2. CASE i = f  BY <1>1, <1>4, <1>8, <2>2
  <2>3. CASE i \notin {p, f}
    <3>1. i \in Live(T) /\ I.node[i].key = T.node[i].key  BY <1>4, <1>5, <2>3 DEF Live, Kept
    <3> QED BY <1>8, <2>3, <3>1
  <2> QED BY <2>1, <2>2, <2>3
<1>10. Used(I) \ {p} = (Used(T) \ {p}) \cup {f} /\ (v # nil => p \in Used(I))
  BY <1>0, <1>1, <1>2, <1>4 DEF Used, Kept
<1>11. Orderly(I)
  <2>1. Used(I) \subseteq Live(I)  BY <1>1, <1>5, <1>10 DEF Orderly
  <2> QED BY <1>6, <1>7, <1>9, <2>1 DEF Orderly
<1>12. f \notin Used(T)  BY <1>1, <1>2 DEF Orderly, Live
<1>13. v # nil => NodeEntries(I) = NodeEntries(T) \cup {<<k, v>>}
  <2> SUFFICES ASSUME v # nil PROVE NodeEntries(I) = NodeEntries(T) \cup {<<k, v>>}  OBVIOUS
  <2> DEFINE e(U, i) == <<U.node[i].key, U.node[i].val>>
  <2>1. e(I, p) = <<k, v>> /\ e(I, f) = e(T, p)  BY <1>4
  <2>2. \A i \in Used(T) \ {p} : e(I, i) = e(T, i)  BY <1>4, <1>12 DEF Kept, Used
  <2>3. Used(I) = (Used(T) \ {p}) \cup {f, p} /\ p \in Used(T)  BY <1>1, <1>10
  <2>4. NodeEntries(I) = {e(I, i) : i \in Used(I)} /\ NodeEntries(T) = {e(T, i) : i \in Used(T)}
    BY DEF NodeEntries
  <2> HIDE DEF e
  <2> QED BY <2>1, <2>2, <2>3, <2>4
<1>14. {I.node[i].key : i \in Live(I)} \subseteq {T.node[i].key : i \in Live(T)} \cup {k}
  <2> SUFFICES ASSUME NEW i \in Live(I) PROVE I.node[i].key \in {T.node[j].key : j \in Live(T)} \cup {k}
    OBVIOUS
  <2>1. i \in DOMAIN T.node /\ (i = f \/ i \in Live(T))  BY <1>0, <1>5 DEF Live
  <2> QED BY <1>1, <1>4, <2>1 DEF Kept
<1>15. Free(T) \subseteq Free(I) \cup {f}  BY <1>5
<1> QED BY <1>11, <1>13, <1>14, <1>15 DEF Grown, MovedAway, Placed

LEMMA ChainedGrows ==
  ASSUME NEW T, NEW I, NEW k, NEW v, k # nil, NEW p \in DOMAIN T.node, p = mainposition(T, k),
         LinksIn(T.node), Orderly(T), Absent(T, k), T.node[p].val # nil,
         mainposition(T, T.node[p].key) = p, NEW f \in DOMAIN T.node, ChainedAfter(T, I, p, f, k, v)
  PROVE  Grown(T, I, k, v)
<1> DEFINE n == T.node[p].next
<1>0. /\ DOMAIN I.node = DOMAIN T.node /\ \A x : mainposition(I, x) = mainposition(T, x)
      /\ haslastfree(I) = haslastfree(T) /\ DOMAIN T.node \subseteq Nat \ {0}
  BY DEF ChainedAfter, Placed, Same, mainposition, haslastfree
<1>1. /\ p \in Live(T) /\ p \in Used(T) /\ T.node[p].key # nil /\ T.node[p].key # k
      /\ f # p /\ f \in Free(T)
  BY DEF Orderly, Used, Live, Absent, ChainedAfter, Freed, Free
<1>2. T.node[f].next = 0 /\ T.node[f].key = nil /\ \A j \in DOMAIN T.node : T.node[j].next # f
  BY <1>1 DEF Orderly, FreeApart, Free
<1>3. /\ I.node[f].key = k /\ ~I.node[f].dead /\ I.node[f].val = v /\ I.node[f].next = n
      /\ I.node[p].next = f /\ \A i \in DOMAIN T.node \ {f} : Kept(T, I, i)
      /\ \A i \in DOMAIN T.node \ {p, f} : I.node[i].next = T.node[i].next
  BY <1>1 DEF ChainedAfter, Placed
<1>4. Free(I) = Free(T) \ {f} /\ Live(I) = Live(T) \cup {f}
  BY <1>0, <1>1, <1>2, <1>3 DEF Free, Live, Kept
<1>5. OnePredecessor(I)
  <2> SUFFICES ASSUME NEW i \in DOMAIN T.node, NEW j \in DOMAIN T.node, i # j,
                      I.node[i].next = I.node[j].next, I.node[i].next # 0
               PROVE  FALSE
    BY <1>0 DEF OnePredecessor
  <2> DEFINE o(x) == IF x = f THEN p ELSE x
  <2>1. ASSUME NEW x \in DOMAIN T.node \ {p} PROVE I.node[x].next = T.node[o(x)].next
    BY <1>3, <2>1
  <2>2. \A x \in DOMAIN T.node : T.node[x].next # f  BY <1>2
  <2>3. CASE i = p  BY <1>1, <1>3, <2>1, <2>2, <2>3
  <2>4. CASE j = p  BY <1>1, <1>3, <2>1, <2>2, <2>4
  <2>5. CASE i # p /\ j # p
    <3>1. o(i) # o(j) /\ o(i) \in DOMAIN T.node /\ o(j) \in DOMAIN T.node  BY <2>5
    <3>2. T.node[o(i)].next = T.node[o(j)].next /\ T.node[o(i)].next # 0  BY <2>1, <2>5
    <3> HIDE DEF o
    <3> QED BY <3>1, <3>2 DEF Orderly, OnePredecessor
  <2> QED BY <2>3, <2>4, <2>5
<1>6. FreeApart(I)
  <2> SUFFICES ASSUME NEW i \in Free(I)
               PROVE  /\ I.node[i].next = 0 /\ \A j \in DOMAIN T.node : I.node[j].next # i
                      /\ haslastfree(T) => i < I.lastfree
    BY <1>0 DEF FreeApart
  <2>1. i \in Free(T) /\ i # f /\ i \in DOMAIN T.node /\ i # p  BY <1>1, <1>4 DEF Free
  <2>2. T.node[i].next = 0 /\ \A j \in DOMAIN T.node : T.node[j].next # i
    BY <2>1 DEF Orderly, FreeApart
  <2>3. I.node[i].next = 0  BY <1>3, <2>1, <2>2
  <2>4. ASSUME NEW j \in DOMAIN T.node PROVE I.node[j].next # i
    BY <1>0, <1>3, <2>1, <2>2
  <2>5. haslastfree(T) => i < I.lastfree
    <3>1. i <= f /\ (haslastfree(T) => I.lastfree = f)  BY <2>1 DEF ChainedAfter, Freed
    <3> QED BY <1>0, <2>1, <3>1
  <2> QED BY <2>3, <2>4, <2>5
<1>7. AtHome(I, p)  BY <1>0, <1>1, <1>3 DEF AtHome, Kept
<1>8. LiveReached(I)
  <2> SUFFICES ASSUME NEW i \in Live(I)
               PROVE  Reached(I, I.node[i].key, i) /\ AtHome(I, mainposition(I, I.node[i].key))
    BY DEF LiveReached
  <2>1. CASE i = f
    <3>1. mainposition(I, I.node[i].key) = p  BY <1>0, <1>3, <2>1
    <3>2. ASSUME NEW S \in SUBSET DOMAIN T.node, p \in S, Follows(I, k, S) PROVE f \in S
      <4>1. I.node[p].key # k /\ I.node[p].next = f /\ f # 0  BY <1>0, <1>1, <1>3 DEF Kept
      <4> QED BY <3>2, <4>1 DEF Follows
    <3> QED BY <1>0, <1>3, <1>7, <2>1, <3>1, <3>2 DEF Reached
  <2>2. CASE i # f
    <3> DEFINE x == T.node[i].key
               m == mainposition(T, x)
    <3>1. i \in Live(T) /\ I.node[i].key = x /\ x # k /\ i \in DOMAIN T.node
      BY <1>3, <1>4, <2>2 DEF Live, Kept, Absent
    <3>2. Reached(T, x, i) /\ AtHome(T, m)  BY <3>1 DEF Orderly, LiveReached
    <3>3. AtHome(I, m)
      <4>1. m # f  BY <1>2, <3>2 DEF AtHome
      <4> QED BY <1>0, <1>3, <3>2, <4>1 DEF AtHome, Kept
    <3> HIDE DEF x
    <3>4. ASSUME NEW S \in SUBSET DOMAIN T.node, m \in S, Follows(I, x, S) PROVE i \in S
      <4>1. ASSUME NEW y \in S, T.node[y].key # x, T.node[y].next # 0 PROVE T.node[y].next \in S
        <5>1. y # f  BY <1>2, <4>1
        <5>2. I.node[y].key # x  BY <1>3, <4>1, <5>1 DEF Kept
        <5>3. CASE y = p
          <6>1. f \in S  BY <1>0, <1>3, <4>1, <5>2, <5>3, <3>4 DEF Follows
          <6>2. I.node[f].key # x /\ I.node[f].next = T.node[y].next  BY <1>3, <3>1, <5>3
          <6> QED BY <3>4, <4>1, <6>1, <6>2 DEF Follows
        <5>4. CASE y # p
          <6>1. I.node[y].next = T.node[y].next  BY <1>3, <5>1, <5>4
          <6> QED BY <3>4, <4>1, <5>2, <6>1 DEF Follows
        <5> QED BY <5>3, <5>4
      <4>2. Follows(T, x, S)  BY <4>1 DEF Follows
      <4> QED BY <3>2, <3>4, <4>2 DEF Reached
    <3>5. Reached(I, x, i)  BY <1>0, <3>4 DEF Reached
    <3> QED BY <1>0, <3>1, <3>3, <3>5
  <2> QED BY <2>1, <2>2
<1>9. Used(I) \ {f} = Used(T) \ {f} /\ (v # nil => f \in Used(I)) /\ f \notin Used(T)
  BY <1>0, <1>1, <1>2, <1>3 DEF Used, Kept, Orderly, Live
<1>10. Orderly(I)
  <2>1. Used(I) \subseteq Live(I)  BY <1>4, <1>9 DEF Orderly
  <2> QED BY <1>5, <1>6, <1>8, <2>1 DEF Orderly
<1>11. v # nil => NodeEntries(I) = NodeEntries(T) \cup {<<k, v>>}
  <2> SUFFICES ASSUME v # nil PROVE NodeEntries(I) = NodeEntries(T) \cup {<<k, v>>}  OBVIOUS
  <2> DEFINE e(U, i) == <<U.node[i].key, U.node[i].val>>
  <2>1. e(I, f) = <<k, v>>  BY <1>3
  <2>2. \A i \in Used(T) : e(I, i) = e(T, i)  BY <1>3, <1>9 DEF Kept, Used
  <2>3. Used(I) = Used(T) \cup {f}  BY <1>9
  <2>4. NodeEntries(I) = {e(I, i) : i \in Used(I)} /\ NodeEntries(T) = {e(T, i) : i \in Used(T)}
    BY DEF NodeEntries
  <2> HIDE DEF e
  <2> QED BY <2>1, <2>2, <2>3, <2>4
<1>12. {I.node[i].key : i \in Live(I)} \subseteq {T.node[i].key : i \in Live(T)} \cup {k}
  <2> SUFFICES ASSUME NEW i \in Live(I) PROVE I.node[i].key \in {T.node[j].key : j \in Live(T)} \cup {k}
    OBVIOUS
  <2>1. i \in DOMAIN T.node /\ (i = f \/ i \in Live(T))  BY <1>0, <1>4 DEF Live
  <2> QED BY <1>3, <2>1 DEF Kept
<1>13. Free(T) \subseteq Free(I) \cup {f}  BY <1>4
<1> QED BY <1>10, <1>11, <1>12, <1>13 DEF Grown, ChainedAfter, Placed

LEMMA FreeFits ==
  ASSUME NEW T \in Tables, Orderly(T), NEW k
  PROVE  /\ \A i \in Free(T) : i <= getfreepos(T)
         /\ Free(T) # {} => Fits(T, k)
<1>0. T.node \in Seq(Nodes)  BY DEF Tables
<1>1. getfreepos(T) \in {0} \cup DOMAIN T.node /\ DOMAIN T.node \subseteq Nat \ {0}  BY <1>0, FreeIn
<1>2. ASSUME NEW i \in Free(T) PROVE i <= getfreepos(T)
  <2>1. haslastfree(T) => i < T.lastfree  BY DEF Orderly, FreeApart
  <2> QED BY <1>0, <2>1, FreeIn DEF Free
<1>3. ASSUME NEW i \in Free(T) PROVE getfreepos(T) # 0 /\ ~isdummy(T)
  <2>1. i \in DOMAIN T.node /\ i <= getfreepos(T)  BY <1>2 DEF Free
  <2> QED BY <1>0, <1>1, <2>1 DEF isdummy
<1> QED BY <1>2, <1>3 DEF Fits

LEMMA InsertGrows ==
  ASSUME program \in Programs, NEW T, IsTable(T), NodesIn(T.node, AllEntries), Orderly(T),
         NEW k \in AllKeys, NEW v \in Values, Absent(T, k), Fits(T, k)
  PROVE  Grown(T, insertkey(T, k, v), k, v)
<1> DEFINE mp == mainposition(T, k)
           f  == getfreepos(T)
           U  == IF haslastfree(T) THEN [T EXCEPT !.lastfree = f] ELSE T
           I  == insertkey(T, k, v)
           put(n) == [key |-> k, dead |-> FALSE, val |-> v, next |-> n.next]
<1>0. /\ T \in Tables /\ T.node \in Seq(Nodes) /\ LinksIn(T.node) /\ k # nil /\ <<k, v>> \in AllEntries
      /\ DOMAIN T.node \subseteq Nat \ {0}
  BY NilIs DEF IsTable, Tables, AllEntries
<1>1. ~isdummy(T) /\ mp \in DOMAIN T.node  BY <1>0, MainIn DEF Fits
<1>2. f \in {0} \cup DOMAIN T.node /\ f \in Nat /\ (f # 0 => f \in Free(T)) /\ \A i \in Free(T) : i <= f
  <2>1. f # 0 => T.node[f].key = nil  BY <1>0, FreeIn
  <2>2. f \in {0} \cup DOMAIN T.node  BY <1>0, FreeIn
  <2>3. \A i \in Free(T) : i <= f  BY <1>0, FreeFits
  <2> HIDE DEF f
  <2> QED BY <1>0, <2>1, <2>2, <2>3 DEF Free
<1>3. /\ U \in Tables /\ U.node = T.node /\ U.arr = T.arr /\ U.hint = T.hint /\ LinksIn(U.node)
      /\ U.lastfree = IF haslastfree(T) THEN f ELSE T.lastfree
  <2> HIDE DEF f
  <2>1. CASE haslastfree(T)
    <3>1. U = [T EXCEPT !.lastfree = f]  BY <2>1
    <3> HIDE DEF U
    <3> QED BY <1>0, <1>2, <2>1, <3>1 DEF Tables
  <2>2. CASE ~haslastfree(T)  BY <1>0, <2>2
  <2> QED BY <2>1, <2>2
<1>4. \/ T.node[mp].val = nil /\ I = Put(T, mp, k, v)
      \/ /\ f # 0 /\ T.node[mp].val # nil /\ mainposition(T, T.node[mp].key) # mp
         /\ I = Put(MoveNode(U, mp, f), mp, k, v)
      \/ /\ f # 0 /\ T.node[mp].val # nil /\ mainposition(T, T.node[mp].key) = mp
         /\ I = Put(ChainNode(U, mp, f), f, k, v)
  BY InsertCases
<1>5. T.node[mp].val # nil => mp # f
  <2>1. T.node[mp].val # nil => T.node[mp].key # nil  BY <1>1 DEF Orderly, Used, Live
  <2> HIDE DEF mp, f
  <2>2. mp = f => T.node[mp].key = nil  BY <1>0, <1>1, <1>2 DEF Free
  <2> QED BY <2>1, <2>2
<1>6. \A i \in DOMAIN T.node : NodeIn(T.node[i], AllEntries)  BY DEF NodesIn
<1>7. \A n \in Nodes : put(n).key = k /\ ~put(n).dead /\ put(n).val = v /\ put(n).next = n.next  OBVIOUS
<1> HIDE DEF I, U, f, mp, put
<1>8. CASE T.node[mp].val = nil /\ I = Put(T, mp, k, v)
  <2>1. I \in Tables /\ Same(I, T) /\ I.node = [T.node EXCEPT ![mp] = put(T.node[mp])]
    BY <1>0, <1>1, <1>6, <1>8, PutIs DEF put
  <2>2. I.lastfree = T.lastfree  BY <1>0, <1>8 DEF Put, Tables
  <2>3. DOMAIN I.node = DOMAIN T.node /\ T.node[mp] \in Nodes  BY <1>0, <1>1, <2>1
  <2>4. /\ I.node[mp] = put(T.node[mp])
        /\ \A i \in DOMAIN T.node \ {mp} : I.node[i] = T.node[i]
    BY <1>1, <2>1
  <2>5. Taken(T, I, mp, k, v)  BY <1>0, <1>7, <2>1, <2>2, <2>3, <2>4 DEF Taken, Placed, Kept
  <2> QED BY <1>0, <1>1, <1>8, <2>5, TakenGrows DEF mp, I
<1>9. CASE /\ f # 0 /\ T.node[mp].val # nil /\ mainposition(T, T.node[mp].key) # mp
           /\ I = Put(MoveNode(U, mp, f), mp, k, v)
  <2> DEFINE M == MoveNode(U, mp, f)
  <2>1. mp \in DOMAIN U.node /\ f \in DOMAIN U.node /\ NodesIn(U.node, AllEntries)
    BY <1>1, <1>2, <1>3, <1>9
  <2>2. /\ M \in Tables /\ Same(M, U) /\ \A i \in DOMAIN U.node : i # mp => NodeIn(M.node[i], AllEntries)
        /\ Moved(U, M, mp, f)
    BY <1>3, <2>1, MoveIs
  <2>3. M.lastfree = U.lastfree  BY <1>3 DEF MoveNode, Tables
  <2> HIDE DEF M
  <2>4. DOMAIN M.node = DOMAIN U.node /\ M.node \in Seq(Nodes)  BY <1>3, <2>2 DEF Same, Tables
  <2>5. I \in Tables /\ Same(I, M) /\ I.node = [M.node EXCEPT ![mp] = put(M.node[mp])]
    BY <1>0, <1>9, <2>1, <2>2, <2>4, PutIs DEF put, M
  <2>6. I.lastfree = M.lastfree  BY <1>9, <2>2 DEF Put, Tables, M
  <2>7. DOMAIN I.node = DOMAIN T.node /\ M.node[mp] \in Nodes  BY <1>3, <2>1, <2>4, <2>5
  <2>8. /\ I.node[mp] = put(M.node[mp])
        /\ \A i \in DOMAIN T.node \ {mp} : I.node[i] = M.node[i]
    BY <1>1, <1>3, <2>4, <2>5
  <2>9. M.node[mp].next = 0 /\ M.node[f] = T.node[mp]
    BY <1>2, <1>3, <1>5, <1>9, <2>2 DEF Moved
  <2>10. ASSUME NEW i \in DOMAIN T.node \ {mp, f}
         PROVE  /\ Kept(T, M, i)
                /\ M.node[i].next = IF i = Previous(T, mp) THEN f ELSE T.node[i].next
    <3>1. Previous(U, mp) = Previous(T, mp)  BY <1>3 DEF Previous
    <3>2. M.node[i] = IF i = Previous(T, mp) THEN [T.node[i] EXCEPT !.next = f] ELSE T.node[i]
      BY <1>3, <2>2, <3>1 DEF Moved
    <3>3. T.node[i] \in Nodes  BY <1>0
    <3>4. CASE i = Previous(T, mp)
      <4> DEFINE n == [T.node[i] EXCEPT !.next = f]
      <4>1. M.node[i] = n  BY <3>2, <3>4
      <4>2. n.key = T.node[i].key /\ n.dead = T.node[i].dead /\ n.val = T.node[i].val /\ n.next = f
        BY <1>2, <3>3, Linked
      <4> HIDE DEF n
      <4> QED BY <3>4, <4>1, <4>2 DEF Kept
    <3>5. CASE i # Previous(T, mp)  BY <3>2, <3>5 DEF Kept
    <3> QED BY <3>4, <3>5
  <2>11. Same(I, T)  BY <1>3, <2>2, <2>5 DEF Same
  <2>12. Placed(T, I, mp, k, v)  BY <1>0, <1>7, <2>7, <2>8, <2>11 DEF Placed
  <2>13. Freed(T, I, f)  BY <1>2, <1>3, <1>9, <2>3, <2>6 DEF Freed
  <2>14. MovedAway(T, I, mp, f, k, v)
    BY <1>2, <1>5, <1>7, <1>9, <2>7, <2>8, <2>9, <2>10, <2>12, <2>13 DEF MovedAway, Kept
  <2> QED BY <1>0, <1>1, <1>2, <1>9, <2>14, MovedGrows DEF mp, I
<1>10. CASE /\ f # 0 /\ T.node[mp].val # nil /\ mainposition(T, T.node[mp].key) = mp
            /\ I = Put(ChainNode(U, mp, f), f, k, v)
  <2> DEFINE M == ChainNode(U, mp, f)
  <2>1. mp \in DOMAIN U.node /\ f \in DOMAIN U.node /\ NodesIn(U.node, AllEntries)
    BY <1>1, <1>2, <1>3, <1>10
  <2>2. M \in Tables /\ Same(M, U) /\ NodesIn(M.node, AllEntries) /\ Chained(U, M, mp, f)
    BY <1>3, <1>5, <1>10, <2>1, ChainIs
  <2>3. M.lastfree = U.lastfree  BY <1>3 DEF ChainNode, Tables
  <2> HIDE DEF M
  <2>4. DOMAIN M.node = DOMAIN U.node /\ M.node \in Seq(Nodes)  BY <1>3, <2>2 DEF Same, Tables
  <2>5. I \in Tables /\ Same(I, M) /\ I.node = [M.node EXCEPT ![f] = put(M.node[f])]
    <3>1. \A i \in DOMAIN M.node : NodeIn(M.node[i], AllEntries)  BY <2>2 DEF NodesIn
    <3> QED BY <1>0, <1>10, <2>1, <2>2, <2>4, <3>1, PutIs DEF put, M
  <2>6. I.lastfree = M.lastfree  BY <1>10, <2>2 DEF Put, Tables, M
  <2>7. DOMAIN I.node = DOMAIN T.node /\ M.node[f] \in Nodes  BY <1>3, <2>1, <2>4, <2>5
  <2>8. /\ I.node[f] = put(M.node[f])
        /\ \A i \in DOMAIN T.node \ {f} : I.node[i] = M.node[i]
    BY <1>3, <2>1, <2>4, <2>5
  <2>9. M.node[f].next = T.node[mp].next
    <3>1. M.node[f] = [T.node[f] EXCEPT !.next = T.node[mp].next]
      BY <1>3, <1>5, <1>10, <2>1, <2>2 DEF Chained
    <3>2. T.node[f] \in Nodes /\ T.node[mp] \in Nodes  BY <1>0, <1>1, <1>3, <2>1
    <3>3. T.node[mp].next \in Nat  BY <3>2, NodeIs
    <3>4. [T.node[f] EXCEPT !.next = T.node[mp].next].next = T.node[mp].next  BY <3>2, <3>3, Linked
    <3> QED BY <3>1, <3>4
  <2>10. ASSUME NEW i \in DOMAIN T.node \ {f}
         PROVE  Kept(T, M, i) /\ M.node[i].next = IF i = mp THEN f ELSE T.node[i].next
    <3>1. M.node[i] = IF i = mp THEN [T.node[mp] EXCEPT !.next = f] ELSE T.node[i]
      BY <1>3, <2>2 DEF Chained
    <3>2. T.node[i] \in Nodes  BY <1>0
    <3>3. CASE i = mp
      <4> DEFINE n == [T.node[i] EXCEPT !.next = f]
      <4>1. M.node[i] = n  BY <3>1, <3>3
      <4>2. n.key = T.node[i].key /\ n.dead = T.node[i].dead /\ n.val = T.node[i].val /\ n.next = f
        BY <1>2, <3>2, Linked
      <4> HIDE DEF n
      <4> QED BY <3>3, <4>1, <4>2 DEF Kept
    <3>4. CASE i # mp  BY <3>1, <3>4 DEF Kept
    <3> QED BY <3>3, <3>4
  <2>11. Same(I, T)  BY <1>3, <2>2, <2>5 DEF Same
  <2>12. Placed(T, I, f, k, v)  BY <1>0, <1>7, <2>7, <2>8, <2>11 DEF Placed
  <2>13. Freed(T, I, f)  BY <1>2, <1>3, <1>10, <2>3, <2>6 DEF Freed
  <2>14. ChainedAfter(T, I, mp, f, k, v)
    BY <1>7, <2>7, <2>8, <2>9, <2>10, <2>12, <2>13 DEF ChainedAfter, Kept
  <2> QED BY <1>0, <1>1, <1>2, <1>10, <2>1, <1>3, <2>14, ChainedGrows DEF mp, I
<1> QED BY <1>4, <1>8, <1>9, <1>10

(* ---- what a search finds ---- *)
(* Growing subsets of a finite set are the same at some place. *)
LEMMA Stands ==
  ASSUME NEW N \in Nat, NEW D, IsFiniteSet(D), Cardinality(D) <= N, NEW S \in [0..N -> SUBSET D],
         S[0] # {}, \A n \in 1..N : S[n - 1] \subseteq S[n]
  PROVE  \E n \in 1..N : S[n] = S[n - 1]
<1> SUFFICES ASSUME \A n \in 1..N : S[n] # S[n - 1] PROVE FALSE  OBVIOUS
<1> DEFINE G == {n \in 0..N : Cardinality(S[n]) > n}
<1>0. \A n \in 0..N : S[n] \subseteq D /\ IsFiniteSet(S[n]) /\ Cardinality(S[n]) \in Nat
  BY FS_Subset, FS_CardinalityType
<1>1. 0 \in G
  <2>1. 0 \in 0..N  OBVIOUS
  <2>2. Cardinality(S[0]) # 0  BY <1>0, <2>1, FS_EmptySet
  <2> QED BY <1>0, <2>1, <2>2
<1>2. ASSUME NEW n \in 0..N, n # 0, n - 1 \in G PROVE n \in G
  <2>1. n \in 1..N /\ n - 1 \in 0..N  BY <1>2
  <2>2. S[n - 1] \subseteq S[n] /\ S[n - 1] # S[n]  BY <2>1
  <2>3. Cardinality(S[n - 1]) < Cardinality(S[n])
    <3>1. IsFiniteSet(S[n]) /\ Cardinality(S[n]) \in Nat /\ Cardinality(S[n - 1]) \in Nat  BY <1>0, <2>1
    <3>2. Cardinality(S[n - 1]) <= Cardinality(S[n]) /\ Cardinality(S[n - 1]) # Cardinality(S[n])
      BY <2>2, <3>1, FS_Subset
    <3> QED BY <3>1, <3>2
  <2>4. Cardinality(S[n - 1]) > n - 1  BY <1>2
  <2> QED BY <1>0, <2>1, <2>3, <2>4
<1>3. N \in G
  <2>1. N \in 0..N /\ 0 \in Int /\ N \in Int  OBVIOUS
  <2> HIDE DEF G
  <2>2. 0..N \subseteq G  BY <1>1, <1>2, <2>1, Upwards
  <2> QED BY <2>1, <2>2
<1>4. Cardinality(S[N]) <= Cardinality(D) /\ Cardinality(D) \in Nat
  <2>1. S[N] \subseteq D  BY <1>0
  <2> QED BY <2>1, FS_Subset, FS_CardinalityType
<1> QED BY <1>0, <1>3, <1>4

LEMMA LiveFound ==
  ASSUME program \in Programs, NEW T, IsTable(T), LiveReached(T), NEW i \in Live(T), NEW d \in BOOLEAN
  PROVE  getgeneric(T, T.node[i].key, d) = i
<1> DEFINE k == T.node[i].key
           N == Len(T.node)
           M == DOMAIN T.node
           D == {0} \cup M
           m == mainposition(T, k)
<1>0. /\ i \in M /\ ~T.node[i].dead /\ T.node \in Seq(Nodes) /\ N \in Nat /\ M = 1..N /\ ~isdummy(T)
      /\ LinksIn(T.node) /\ m \in M
  BY DEF Live, IsTable, Tables, isdummy, LiveReached, AtHome
<1>1. Reached(T, k, i)  BY DEF LiveReached
<1> HIDE DEF k
<1>2. PICK find \in [0..N -> [D -> D]] : Finds(T, k, d, find)  BY <1>0, FindIs
<1> HIDE DEF m
<1>3. equalkey(k, T.node[i], d)  BY <1>0 DEF equalkey, k
<1> DEFINE step(Z) == {x \in M : IF equalkey(k, T.node[x], d) THEN x = i ELSE T.node[x].next \in Z}
           S == [n \in 0..N |-> {x \in M : find[n][x] = i}]
<1>4. /\ \A x \in M : find[0][x] = IF equalkey(k, T.node[x], d) THEN x ELSE 0
      /\ \A n \in 1..N, x \in M :
           find[n][x] = IF equalkey(k, T.node[x], d) THEN x ELSE find[n - 1][T.node[x].next]
      /\ \A n \in 0..N : find[n][0] = 0
  <2>1. \A x \in M : x # 0 /\ x \in D  BY <1>0
  <2>2. \A n \in 1..N : n - 1 \in 0..N  BY <1>0
  <2>3. ASSUME NEW n \in 0..N PROVE find[n][0] = 0
    <3>1. n = 0 \/ n \in 1..N  BY <1>0
    <3> QED BY <1>2, <3>1 DEF Hop, Finds
  <2>4. \A x \in M : find[0][x] = IF equalkey(k, T.node[x], d) THEN x ELSE 0
    BY <1>2, <2>1 DEF Finds
  <2>5. ASSUME NEW n \in 1..N, NEW x \in M
        PROVE  find[n][x] = IF equalkey(k, T.node[x], d) THEN x ELSE find[n - 1][T.node[x].next]
    <3>1. find[n] = Hop(T, k, d, find[n - 1]) /\ x # 0  BY <1>2, <2>1 DEF Finds
    <3> HIDE DEF N
    <3> QED BY <3>1 DEF Hop
  <2> QED BY <2>3, <2>4, <2>5
<1>5. S[0] = {i}
  <2>1. 0 \in 0..N  BY <1>0
  <2> QED BY <1>0, <1>3, <1>4, <2>1
<1>6. ASSUME NEW n \in 1..N PROVE S[n] = step(S[n - 1])
  <2>1. n \in 0..N /\ n - 1 \in 0..N  BY <1>0
  <2>2. ASSUME NEW x \in M, ~equalkey(k, T.node[x], d)
        PROVE  find[n - 1][T.node[x].next] = i <=> T.node[x].next \in S[n - 1]
    <3>1. T.node[x].next \in D  BY <1>0 DEF LinksIn
    <3> QED BY <1>0, <1>4, <2>1, <3>1
  <2> QED BY <1>4, <2>1, <2>2
<1>7. S \in [0..N -> SUBSET M]  OBVIOUS
<1> HIDE DEF S
<1>8. \A n \in 1..N : S[n - 1] \subseteq S[n]
  <2> DEFINE G == {n \in 1..N : S[n - 1] \subseteq S[n]}
  <2>1. CASE N = 0  BY <2>1
  <2>2. CASE N # 0
    <3>1. 1 \in G
      <4>1. 1 \in 1..N  BY <1>0, <2>2
      <4>2. S[1] = step(S[0])  BY <1>6, <4>1
      <4> QED BY <1>0, <1>3, <1>5, <4>1, <4>2
    <3>2. ASSUME NEW n \in 1..N, n # 1, n - 1 \in G PROVE n \in G
      <4>1. n - 1 \in 1..N  BY <3>2
      <4>2. S[n] = step(S[n - 1]) /\ S[n - 1] = step(S[(n - 1) - 1])  BY <1>6, <4>1
      <4> QED BY <3>2, <4>2
    <3> HIDE DEF G
    <3>3. 1 \in Int /\ N \in Int  BY <1>0
    <3>4. 1..N \subseteq G
      <4> HIDE DEF N
      <4> QED BY <3>1, <3>2, <3>3, Upwards
    <3> QED BY <3>4 DEF G
  <2> QED BY <2>1, <2>2
<1>9. PICK j \in 1..N : S[j] = S[j - 1]
  <2>1. IsFiniteSet(M) /\ Cardinality(M) <= N
    <3>1. IsFiniteSet(1..N) /\ Cardinality(1..N) = N
      <4> HIDE DEF N
      <4> QED BY <1>0, FS_Interval
    <3> QED BY <1>0, <3>1
  <2> HIDE DEF M, N
  <2> QED BY <1>0, <1>5, <1>7, <1>8, <2>1, Stands
<1>10. S[N] = S[j]
  <2> DEFINE G == {n \in j..N : S[n] = S[j]}
  <2>1. j \in G /\ j \in Int  BY <1>0
  <2>2. ASSUME NEW n \in j..N, n # j, n - 1 \in G PROVE n \in G
    <3>1. n \in 1..N  BY <1>0, <2>2
    <3>2. S[n] = step(S[n - 1]) /\ S[j] = step(S[j - 1])  BY <1>6, <3>1
    <3> QED BY <1>9, <2>2, <3>2
  <2>3. N \in j..N /\ N \in Int  BY <1>0
  <2> HIDE DEF G
  <2>4. j..N \subseteq G
    <3> HIDE DEF N
    <3> QED BY <2>1, <2>2, <2>3, Upwards
  <2> QED BY <2>3, <2>4 DEF G
<1>11. S[N] = step(S[N])
  <2>1. S[j] = step(S[j - 1])  BY <1>6
  <2> HIDE DEF step
  <2> QED BY <1>9, <1>10, <2>1
<1>12. m \in S[N]
  <2> SUFFICES ASSUME m \notin S[N] PROVE FALSE  OBVIOUS
  <2> DEFINE C == M \ S[N]
  <2>1. Follows(T, k, C)
    <3> SUFFICES ASSUME NEW x \in C, T.node[x].key # k, T.node[x].next # 0 PROVE T.node[x].next \in C
      BY DEF Follows
    <3>1. ~equalkey(k, T.node[x], d)  BY DEF equalkey
    <3>2. T.node[x].next \in M  BY <1>0 DEF LinksIn
    <3> QED BY <1>11, <3>1, <3>2
  <2>2. i \in C
    <3>1. C \in SUBSET M /\ m \in C  BY <1>0
    <3> HIDE DEF C
    <3> QED BY <1>1, <2>1, <3>1 DEF Reached, m
  <2> QED BY <1>3, <1>11, <2>2
<1>13. N \in 0..N  BY <1>0
<1>14. getgeneric(T, k, d) = find[N][m]  BY <1>2 DEF Finds, m
<1> QED BY <1>0, <1>12, <1>13, <1>14 DEF S, k

(* ---- chains through a resize ---- *)
LiveKeys(T) == {T.node[i].key : i \in Live(T)}
Apart(T) == \A x \in LiveKeys(T) : ~InArray(T, x)
Tidy(T) == Orderly(T) /\ Apart(T)

(* An insertion, also one that does not fit. *)
LEMMA InsertTidy ==
  ASSUME program \in Programs, NEW T, IsTable(T), NodesIn(T.node, AllEntries), Orderly(T),
         NEW k \in AllKeys, NEW v \in Values, Absent(T, k)
  PROVE  LET I == insertkey(T, k, v) IN
         Orderly(I) /\ Same(I, T) /\ LiveKeys(I) \subseteq LiveKeys(T) \cup {k}
<1> DEFINE I == insertkey(T, k, v)
<1>1. CASE Fits(T, k)
  <2>1. Grown(T, I, k, v)  BY <1>1, InsertGrows
  <2> HIDE DEF I
  <2> QED BY <2>1 DEF Grown, LiveKeys, I
<1>2. CASE ~Fits(T, k)
  <2>1. I = T  BY <1>2 DEF insertkey
  <2> HIDE DEF I
  <2>2. Same(I, T)  BY <2>1 DEF Same
  <2> QED BY <2>1, <2>2 DEF I
<1> QED BY <1>1, <1>2

LEMMA NewcheckedTidy ==
  ASSUME program \in Programs, NEW T, IsTable(T), NodesIn(T.node, AllEntries), Tidy(T),
         NEW k \in AllKeys, NEW v \in Values, Absent(T, k) \/ InArray(T, k)
  PROVE  LET I == newcheckedkey(T, k, v) IN
         /\ Tidy(I) /\ asize(I) = asize(T)
         /\ LiveKeys(I) \subseteq LiveKeys(T) \cup ({k} \ 1..asize(T))
<1> DEFINE I == newcheckedkey(T, k, v)
<1>0. T \in Tables /\ T.arr \in Seq(Values) /\ asize(T) = Len(T.arr) /\ asize(T) \in Nat
  BY DEF IsTable, Tables, asize
<1>1. CASE InArray(T, k)
  <2> DEFINE a == [T.arr EXCEPT ![k] = v]
  <2>1. Len(a) = Len(T.arr) /\ a \in Seq(Values)  BY <1>0, <1>1 DEF InArray
  <2>2. I = [T EXCEPT !.arr = a]  BY <1>1 DEF newcheckedkey
  <2> HIDE DEF a, I
  <2>3. I.node = T.node /\ I.lastfree = T.lastfree /\ I.arr = a  BY <1>0, <2>2 DEF Tables
  <2>4. Live(I) = Live(T) /\ Free(I) = Free(T) /\ Used(I) = Used(T) /\ asize(I) = asize(T)
    BY <2>1, <2>3, <1>0 DEF Live, Free, Used, asize
  <2>5. LiveKeys(I) = LiveKeys(T)  BY <2>3, <2>4 DEF LiveKeys
  <2>8. \A x : mainposition(I, x) = mainposition(T, x)  BY <2>3 DEF mainposition
  <2>9. /\ \A x, i : Reached(I, x, i) <=> Reached(T, x, i)
        /\ \A p : AtHome(I, p) <=> AtHome(T, p)
    BY <2>3, <2>8 DEF Reached, Follows, AtHome
  <2>10. LiveReached(I)  BY <2>3, <2>4, <2>8, <2>9 DEF Tidy, Orderly, LiveReached
  <2>11. OnePredecessor(I)  BY <2>3 DEF Tidy, Orderly, OnePredecessor
  <2>12. FreeApart(I)  BY <2>3, <2>4 DEF Tidy, Orderly, FreeApart, haslastfree
  <2>6. Orderly(I)  BY <2>4, <2>10, <2>11, <2>12 DEF Tidy, Orderly
  <2>7. Tidy(I)  BY <2>4, <2>5, <2>6 DEF Tidy, Apart, InArray
  <2> QED BY <2>4, <2>5, <2>7 DEF I
<1>2. CASE ~InArray(T, k)
  <2>1. I = insertkey(T, k, v)  BY <1>2 DEF newcheckedkey
  <2>2. Orderly(I) /\ Same(I, T) /\ LiveKeys(I) \subseteq LiveKeys(T) \cup {k}
    BY <1>2, <2>1, InsertTidy DEF Tidy
  <2> HIDE DEF I
  <2>3. asize(I) = asize(T)  BY <2>2 DEF Same, asize
  <2>4. Tidy(I)  BY <1>2, <2>2, <2>3 DEF Tidy, Apart, InArray
  <2> QED BY <1>2, <2>2, <2>3, <2>4 DEF InArray, I
<1> QED BY <1>1, <1>2

(* The new nodes are in order, and have keys of the vanishing part.         *)
LEMMA SlicesTidy ==
  ASSUME program \in Programs, NEW T, IsTable(T), NEW m \in Nat, m <= asize(T), NEW nodes, NEW U,
         Slices(T, m, nodes, U), \A i \in m..asize(T) : U[i] \in SliceTables(T, AllEntries),
         \A i \in DOMAIN nodes : nodes[i] = Node,
         \A i \in m + 1..asize(T) : T.arr[i] # nil => <<i, T.arr[i]>> \in AllEntries
  PROVE  \A i \in m..asize(T) : Orderly(U[i]) /\ LiveKeys(U[i]) \subseteq m + 1..i
<1> DEFINE n == asize(T)
           G == {i \in m..n : Orderly(U[i]) /\ LiveKeys(U[i]) \subseteq m + 1..i}
<1>0. n \in Nat /\ T \in Tables  BY DEF IsTable, Tables, asize
<1>1. m \in G
  <2> DEFINE b == U[m]
  <2>1. b = [T EXCEPT !.node = nodes, !.lastfree = Len(nodes) + 1] /\ b \in Tables /\ m \in m..n
    BY <1>0 DEF Slices, SliceTables
  <2> HIDE DEF b
  <2>2. b.node = nodes /\ b.lastfree = Len(nodes) + 1 /\ b.node \in Seq(Nodes)
    BY <1>0, <2>1 DEF Tables
  <2>3. \A i \in DOMAIN b.node : i \in 1..Len(nodes) /\ b.node[i] = Node  BY <2>2
  <2>4. \A i \in DOMAIN b.node : /\ i < b.lastfree /\ i # 0 /\ b.node[i].key = nil
                                 /\ b.node[i].val = nil /\ b.node[i].next = 0
    BY <2>2, <2>3 DEF Node
  <2>5. Live(b) = {} /\ Used(b) = {}  BY <2>4 DEF Live, Used
  <2>6. Orderly(b) /\ LiveKeys(b) = {}
    BY <2>4, <2>5 DEF Orderly, OnePredecessor, FreeApart, LiveReached, Free, LiveKeys
  <2> QED BY <2>1, <2>6 DEF b
<1>2. ASSUME NEW i \in m..n, i # m, i - 1 \in G PROVE i \in G
  <2>1. /\ U[i] = IF T.arr[i] = nil THEN U[i - 1] ELSE insertkey(U[i - 1], i, T.arr[i])
        /\ i - 1 \in m..n /\ i \in m + 1..n
    BY <1>0, <1>2 DEF Slices
  <2>2. Orderly(U[i - 1]) /\ LiveKeys(U[i - 1]) \subseteq m + 1..i - 1  BY <1>2
  <2>3. m + 1..i - 1 \subseteq m + 1..i /\ i \notin m + 1..i - 1 /\ i \in m + 1..i  BY <2>1
  <2>4. CASE T.arr[i] = nil  BY <2>1, <2>2, <2>3, <2>4
  <2>5. CASE T.arr[i] # nil
    <3>1. i \in AllKeys /\ T.arr[i] \in Values
      <4>1. <<i, T.arr[i]>> \in AllEntries  BY <2>1, <2>5
      <4> QED BY <4>1 DEF AllEntries
    <3>2. IsTable(U[i - 1]) /\ NodesIn(U[i - 1].node, AllEntries)  BY <2>1 DEF SliceTables
    <3>3. Absent(U[i - 1], i)  BY <2>2, <2>3 DEF Absent, LiveKeys
    <3>4. Orderly(U[i]) /\ LiveKeys(U[i]) \subseteq LiveKeys(U[i - 1]) \cup {i}
      BY <2>1, <2>2, <2>5, <3>1, <3>2, <3>3, InsertTidy
    <3> QED BY <2>2, <2>3, <3>4
  <2> QED BY <2>4, <2>5
<1>3. m \in Int /\ n \in Int  BY <1>0
<1> HIDE DEF G
<1>4. m..n \subseteq G
  <2> HIDE DEF n
  <2> QED BY <1>1, <1>2, <1>3, Upwards
<1> QED BY <1>4 DEF G

(* What keeps the keys and the links, and makes no key alive. *)
LEMMA StillOrderly ==
  ASSUME NEW T, NEW I, Orderly(T), DOMAIN I.node = DOMAIN T.node, Len(I.node) = Len(T.node),
         I.lastfree = T.lastfree,
         \A i \in DOMAIN T.node : I.node[i].key = T.node[i].key /\ I.node[i].next = T.node[i].next,
         Live(I) \subseteq Live(T), Used(I) \subseteq Live(I)
  PROVE  Orderly(I) /\ LiveKeys(I) \subseteq LiveKeys(T)
<1>0. /\ \A x : mainposition(I, x) = mainposition(T, x)
      /\ haslastfree(I) = haslastfree(T) /\ Free(I) = Free(T)
  BY DEF mainposition, haslastfree, Free
<1>1. OnePredecessor(I)  BY DEF Orderly, OnePredecessor
<1>2. FreeApart(I)
  <2>1. \A i \in Free(T) : i \in DOMAIN T.node  BY DEF Free
  <2> QED BY <1>0, <2>1 DEF Orderly, FreeApart
<1>3. ASSUME NEW i \in Live(I)
      PROVE  Reached(I, I.node[i].key, i) /\ AtHome(I, mainposition(I, I.node[i].key))
  <2>1. i \in Live(T) /\ I.node[i].key = T.node[i].key  BY DEF Live
  <2>2. Reached(T, T.node[i].key, i) /\ AtHome(T, mainposition(T, T.node[i].key))
    BY <2>1 DEF Orderly, LiveReached
  <2>3. \A k, S : S \in SUBSET DOMAIN T.node => (Follows(I, k, S) <=> Follows(T, k, S))  BY DEF Follows
  <2>4. Reached(I, I.node[i].key, i)  BY <1>0, <2>1, <2>2, <2>3 DEF Reached
  <2>5. AtHome(I, mainposition(I, I.node[i].key))  BY <1>0, <2>1, <2>2 DEF AtHome
  <2> QED BY <2>4, <2>5
<1>4. LiveKeys(I) \subseteq LiveKeys(T)
  <2>1. \A i \in Live(I) : i \in Live(T) /\ I.node[i].key = T.node[i].key  BY DEF Live
  <2> QED BY <2>1 DEF LiveKeys
<1> QED BY <1>1, <1>2, <1>3, <1>4 DEF Orderly, LiveReached

LEMMA OneNode ==
  ASSUME program \in Programs, NEW T, IsTable(T), Orderly(T), NEW i \in Live(T), NEW j \in Live(T),
         T.node[i].key = T.node[j].key
  PROVE  i = j
<1>1. TRUE \in BOOLEAN /\ LiveReached(T)  BY DEF Orderly
<1>2. getgeneric(T, T.node[i].key, TRUE) = i  BY <1>1, LiveFound
<1>3. getgeneric(T, T.node[j].key, TRUE) = j  BY <1>1, LiveFound
<1> QED BY <1>2, <1>3

(* The nodes of 'T' go into a table that has keys of the vanishing part.    *)
KeysBefore(T, j) == {T.node[x].key : x \in {y \in Used(T) : y <= j}}
LEMMA RebuildTidy ==
  ASSUME program \in Programs, NEW T, Holds(T, AllEntries), Tidy(T), NEW newasize \in Sizes,
         NEW newt, IsTable(newt), Orderly(newt), LiveKeys(newt) \subseteq newasize + 1..asize(T),
         NEW b, NEW V, Rebuilds(T, newt, newasize, b, V),
         \A j \in 0..Len(T.node) : V[j] \in Holding(AllEntries, newasize)
  PROVE  \A j \in 0..Len(T.node) :
           Tidy(V[j]) /\ LiveKeys(V[j]) \subseteq (newasize + 1..asize(T)) \cup (KeysBefore(T, j) \ 1..newasize)
<1> DEFINE N == Len(T.node)
           W == newasize + 1..asize(T)
           G == {j \in 0..N : Tidy(V[j]) /\ LiveKeys(V[j]) \subseteq W \cup (KeysBefore(T, j) \ 1..newasize)}
<1>0. /\ IsTable(T) /\ T \in Tables /\ T.node \in Seq(Nodes) /\ N \in Nat /\ DOMAIN T.node = 1..N
      /\ newasize \in Nat /\ asize(T) \in Nat
  BY Powers, TableAssumption DEF Holds, IsTable, Tables, Sizes, asize
<1>1. 0 \in G
  <2>1. V[0] = b /\ 0 \in 0..N /\ b \in Holding(AllEntries, newasize)  BY <1>0 DEF Rebuilds, Reinserts
  <2>2. b.node = newt.node /\ b.lastfree = newt.lastfree /\ asize(b) = newasize  
    BY <2>1 DEF Rebuilds, Holding
  <2>3. Live(b) = Live(newt) /\ Used(b) = Used(newt)  BY <2>2 DEF Live, Used
  <2>4. Orderly(b) /\ LiveKeys(b) \subseteq LiveKeys(newt)
    BY <2>2, <2>3, StillOrderly DEF Orderly
  <2>5. \A x \in W : x \notin 1..newasize  BY <1>0
  <2>6. Tidy(b)  BY <2>2, <2>4, <2>5 DEF Tidy, Apart, InArray
  <2> QED BY <2>1, <2>4, <2>6
<1>2. ASSUME NEW j \in 0..N, j # 0, j - 1 \in G PROVE j \in G
  <2> DEFINE x == T.node[j].key
  <2>1. /\ V[j] = IF T.node[j].val = nil THEN V[j - 1] ELSE newcheckedkey(V[j - 1], x, T.node[j].val)
        /\ j \in 1..N /\ j - 1 \in 0..N
    <3>1. j \in 1..N /\ j - 1 \in 0..N  BY <1>0, <1>2
    <3>2. Reinserts(b, T.node, V)  BY DEF Rebuilds
    <3> QED BY <3>1, <3>2 DEF Reinserts
  <2>2. Tidy(V[j - 1]) /\ LiveKeys(V[j - 1]) \subseteq W \cup (KeysBefore(T, j - 1) \ 1..newasize)
    BY <1>2
  <2>3. KeysBefore(T, j - 1) \subseteq KeysBefore(T, j)
    <3>1. \A y \in Used(T) : y \in 1..N  BY <1>0 DEF Used
    <3>2. \A y \in Used(T) : y <= j - 1 => y <= j  BY <2>1, <3>1
    <3> QED BY <3>2 DEF KeysBefore
  <2>4. CASE T.node[j].val = nil  BY <2>1, <2>2, <2>3, <2>4
  <2>5. CASE T.node[j].val # nil
    <3>1. j \in Used(T) /\ j \in Live(T)  BY <1>0, <2>1, <2>5 DEF Used, Tidy, Orderly
    <3>2. x \in AllKeys /\ T.node[j].val \in Values
      <4>1. <<x, T.node[j].val>> \in AllEntries  BY <1>0, <2>1, <2>5 DEF Holds, NodesIn, NodeIn
      <4> QED BY <4>1 DEF AllEntries
    <3>3. IsTable(V[j - 1]) /\ NodesIn(V[j - 1].node, AllEntries) /\ asize(V[j - 1]) = newasize
      BY <2>1 DEF Holding
    <3>4. x \in KeysBefore(T, j)
      <4>1. j <= j  BY <2>1
      <4> QED BY <3>1, <4>1 DEF KeysBefore
    <3>5. x \notin KeysBefore(T, j - 1)
      <4> SUFFICES ASSUME NEW y \in Used(T), y <= j - 1, T.node[y].key = x PROVE FALSE  BY DEF KeysBefore
      <4>1. y \in Live(T) /\ y \in 1..N  BY <1>0 DEF Tidy, Orderly, Used
      <4>2. y = j  BY <1>0, <3>1, <4>1, OneNode DEF Tidy
      <4> QED BY <2>1, <4>1, <4>2
    <3>6. Absent(V[j - 1], x) \/ InArray(V[j - 1], x)
      <4>1. ASSUME x \in W, ~InArray(V[j - 1], x) PROVE FALSE
        <5>1. x \in 1..asize(T)  BY <1>0, <4>1
        <5>2. x \in LiveKeys(T)  BY <3>1 DEF LiveKeys
        <5> QED BY <5>1, <5>2 DEF Tidy, Apart, InArray
      <4> QED BY <2>2, <3>5, <4>1 DEF Absent, LiveKeys
    <3>7. Tidy(V[j]) /\ LiveKeys(V[j]) \subseteq LiveKeys(V[j - 1]) \cup ({x} \ 1..newasize)
      BY <2>1, <2>2, <2>5, <3>2, <3>3, <3>6, NewcheckedTidy
    <3> HIDE DEF x
    <3> QED BY <2>2, <2>3, <3>4, <3>7
  <2> QED BY <2>4, <2>5
<1>3. 0 \in Int /\ N \in Int  BY <1>0
<1> HIDE DEF G
<1>4. 0..N \subseteq G
  <2> HIDE DEF N
  <2> QED BY <1>1, <1>2, <1>3, Upwards
<1> QED BY <1>4 DEF G

(* The keys of a resize that is going on. *)
ChainInv ==
  /\ Tidy(t)
  /\ ~Idle => /\ Absent(t, pending.k) /\ ~InArray(t, pending.k)
              /\ pending.newt # none =>
                   Orderly(pending.newt) /\ LiveKeys(pending.newt) \subseteq pending.asize + 1..asize(t)

LEMMA FinishTidy ==
  ASSUME program \in Programs, Holds(t, AllEntries), Tidy(t), pending.asize \in Sizes,
         pending.k \in AllKeys, pending.v \in Values, Absent(t, pending.k), ~InArray(t, pending.k),
         NEW newt, IsTable(newt), NodesIn(newt.node, AllEntries), Orderly(newt),
         LiveKeys(newt) \subseteq pending.asize + 1..asize(t), Finish(newt)
  PROVE  Tidy(t')
<1> DEFINE n == pending.asize
           k == pending.k
           T == FinishResize(t, newt, n)
           R == newcheckedkey(T, k, pending.v)
           N == Len(t.node)
<1>0. IsTable(t) /\ N \in Nat /\ DOMAIN t.node = 1..N /\ asize(t) \in Nat /\ n \in Nat
  BY Powers, TableAssumption DEF Holds, IsTable, Tables, asize, Sizes
<1>1. PICK b, V : Rebuilds(t, newt, n, b, V) /\ \A j \in 0..N : V[j] \in Holding(AllEntries, n)
  BY FinishResizeIs DEF Holds
<1>2. T = V[N] /\ N \in 0..N  BY <1>0, <1>1 DEF Rebuilds
<1> HIDE DEF T
<1>3. Tidy(T) /\ LiveKeys(T) \subseteq (n + 1..asize(t)) \cup (KeysBefore(t, N) \ 1..n)
  BY <1>1, <1>2, RebuildTidy
<1>4. IsTable(T) /\ NodesIn(T.node, AllEntries) /\ asize(T) = n  BY <1>1, <1>2 DEF Holding
<1>5. Absent(T, k) \/ InArray(T, k)
  <2>1. k \notin n + 1..asize(t)  BY <1>0 DEF InArray
  <2>2. \A i \in Used(t) : t.node[i].key # k  BY DEF Absent, Tidy, Orderly
  <2>3. k \notin KeysBefore(t, N)  BY <2>2 DEF KeysBefore
  <2> QED BY <1>3, <2>1, <2>3 DEF Absent, LiveKeys
<1>6. Tidy(R)  BY <1>3, <1>4, <1>5, NewcheckedTidy
<1>7. t' = R  BY DEF Finish, Assigned, T
<1> HIDE DEF R
<1> QED BY <1>6, <1>7

LEMMA NewNodesTidy ==
  ASSUME program \in Programs, Holds(t, AllEntries), pending.asize \in Sizes, pending.nsize \in Nat,
         pending.nsize <= twoto[MAXHBITS]
  PROVE  LET newt == reinsertOldSlice(t, pending.asize, setnodevector(pending.nsize)) IN
         Orderly(newt) /\ LiveKeys(newt) \subseteq pending.asize + 1..asize(t)
<1> DEFINE nodes == setnodevector(pending.nsize)
           newt == reinsertOldSlice(t, pending.asize, nodes)
           m == Min({pending.asize, asize(t)})
<1>0. /\ IsTable(t) /\ t.arr \in Seq(Values) /\ DOMAIN t.arr = 1..asize(t)
      /\ asize(t) \in Nat /\ pending.asize \in Nat /\ ArrayIn(t.arr, AllEntries)
  BY Powers, TableAssumption DEF Holds, IsTable, Tables, asize, Sizes
<1>1. pending.nsize \in 0..twoto[MAXHBITS]
  <2>1. MAXHBITS \in 0..MAXABITS  BY TableAssumption
  <2> QED BY <2>1, Powers
<1>2. /\ nodes \in Seq(Nodes) /\ NodesIn(nodes, {}) /\ LinksIn(nodes)
      /\ \A i \in DOMAIN nodes : nodes[i] = Node
  BY <1>1, SetNodesIs
<1>3. m = IF pending.asize <= asize(t) THEN pending.asize ELSE asize(t)  BY <1>0, MinOfTwo
<1> HIDE DEF nodes, m, newt
<1>4. \A i \in m + 1..asize(t) : t.arr[i] # nil => <<i, t.arr[i]>> \in AllEntries
  BY <1>0, <1>3 DEF ArrayIn
<1>5. \A i \in pending.asize + 1..asize(t) : t.arr[i] # nil => <<i, t.arr[i]>> \in AllEntries
  BY <1>0 DEF ArrayIn
<1>6. PICK U : /\ Slices(t, m, nodes, U) /\ \A i \in m..asize(t) : U[i] \in SliceTables(t, AllEntries)
               /\ newt = U[asize(t)]
  BY <1>0, <1>2, <1>5, OldSliceIs DEF newt, m
<1>7. m \in Nat /\ m <= asize(t) /\ asize(t) \in m..asize(t)
      /\ m + 1..asize(t) \subseteq pending.asize + 1..asize(t)
  BY <1>0, <1>3
<1>8. Orderly(newt) /\ LiveKeys(newt) \subseteq m + 1..asize(t)
  BY <1>0, <1>2, <1>4, <1>6, <1>7, SlicesTidy
<1> QED BY <1>7, <1>8 DEF newt, nodes

(* The nodes that an assignment finds no key in. *)
LEMMA NotFound ==
  ASSUME program \in Programs, NEW T, IsTable(T), Orderly(T), NEW k \in AllKeys, getgeneric(T, k, FALSE) = 0
  PROVE  Absent(T, k)
<1> SUFFICES ASSUME NEW i \in Live(T), T.node[i].key = k PROVE FALSE  BY DEF Absent
<1>1. FALSE \in BOOLEAN /\ LiveReached(T)  BY DEF Orderly
<1>2. getgeneric(T, T.node[i].key, FALSE) = i  BY <1>1, LiveFound
<1>3. i # 0  BY DEF Live, IsTable, Tables
<1> QED BY <1>2, <1>3

LEMMA SameTidy ==
  ASSUME NEW T, NEW I, Tidy(T), asize(I) = asize(T), DOMAIN I.node = DOMAIN T.node,
         Len(I.node) = Len(T.node), I.lastfree = T.lastfree,
         \A i \in DOMAIN T.node : I.node[i].key = T.node[i].key /\ I.node[i].next = T.node[i].next,
         Live(I) \subseteq Live(T), Used(I) \subseteq Live(I)
  PROVE  Tidy(I) /\ LiveKeys(I) \subseteq LiveKeys(T)
<1>1. Orderly(I) /\ LiveKeys(I) \subseteq LiveKeys(T)  BY StillOrderly DEF Tidy
<1>2. Apart(I)  BY <1>1 DEF Tidy, Apart, InArray
<1> QED BY <1>1, <1>2 DEF Tidy

LEMMA InitTidy == Init => ChainInv
<1> SUFFICES ASSUME Init PROVE ChainInv  OBVIOUS
<1>1. program \in Programs /\ t.node = setnodevector(program.nsize) /\ t.lastfree = Len(t.node) + 1 /\ Idle
  BY DEF Init, Idle
<1>2. program.nsize \in 0..twoto[MAXHBITS]  BY <1>1, TableAssumption
<1>3. t.node \in Seq(Nodes) /\ \A i \in DOMAIN t.node : t.node[i] = Node  BY <1>1, <1>2, SetNodesIs
<1>4. \A i \in DOMAIN t.node : /\ i < t.lastfree /\ i # 0 /\ t.node[i].key = nil
                               /\ t.node[i].val = nil /\ t.node[i].next = 0
  BY <1>1, <1>3 DEF Node
<1>5. Live(t) = {} /\ Used(t) = {}  BY <1>4 DEF Live, Used
<1>6. Tidy(t)
  BY <1>4, <1>5 DEF Tidy, Apart, Orderly, OnePredecessor, FreeApart, LiveReached, Free, LiveKeys
<1> QED BY <1>1, <1>6 DEF ChainInv

(* A resize that is going on. *)
LEMMA PendingIs ==
  ASSUME TypeInv, ChainInv, ~Idle
  PROVE  /\ pending.k \in AllKeys /\ pending.v \in Values /\ pending.asize \in Sizes
         /\ pending.nsize \in Nat /\ pending \in Resizes
         /\ Absent(t, pending.k) /\ ~InArray(t, pending.k)
         /\ pending.newt # none =>
              /\ IsTable(pending.newt) /\ NodesIn(pending.newt.node, AllEntries)
              /\ Orderly(pending.newt)
              /\ LiveKeys(pending.newt) \subseteq pending.asize + 1..asize(t)
<1> DEFINE newts == {none} \cup Tables
<1>1. pending \in Resizes
      /\ (pending.newt # none => IsTable(pending.newt) /\ NodesIn(pending.newt.node, AllEntries))
  BY DEF TypeInv, Resizing
<1> HIDE DEF newts
<1>2. pending \in [k : AllKeys, v : Values, newt : newts, asize : Sizes, nsize : Nat]
  BY <1>1 DEF newts, Resizes
<1>3. pending.k \in AllKeys /\ pending.v \in Values /\ pending.asize \in Sizes /\ pending.nsize \in Nat
  BY <1>2
<1> QED BY <1>1, <1>3 DEF ChainInv

(* The cases of an assignment. *)
SetTo(T, k, v) == UNCHANGED <<program, alloc, held>> /\ Assigned(T, k, v)
LEMMA SetCases ==
  ASSUME program \in Programs, Set
  PROVE  \E k \in AllKeys, v \in Values :
           LET p == getgeneric(t, k, FALSE) IN
           /\ <<k, v>> \in AllEntries /\ Idle
           /\ \/ InArray(t, k) /\ SetTo([t EXCEPT !.arr[k] = v], k, v)
              \/ ~InArray(t, k) /\ p # 0 /\ SetTo([t EXCEPT !.node[p].val = v], k, v)
              \/ ~InArray(t, k) /\ p = 0 /\ v = nil /\ SetTo(t, k, v)
              \/ ~InArray(t, k) /\ p = 0 /\ v # nil /\ Fits(t, k) /\ SetTo(insertkey(t, k, v), k, v)
              \/ /\ ~InArray(t, k) /\ p = 0 /\ v # nil /\ UNCHANGED <<t, program, alloc, held, key, left>>
                 /\ pending' = [k |-> k, v |-> v, newt |-> none, asize |-> RehashSizes(t, k).asize,
                                nsize |-> RehashSizes(t, k).nsize]
<1>1. PICK k \in AllKeys : luaH_set(k, program.stored[k]) \/ luaH_set(k, nil)  BY DEF Set
<1>2. PICK v \in Values : luaH_set(k, v)  BY <1>1, ValueIs
<1> DEFINE p == getgeneric(t, k, FALSE)
           r == [k |-> k, v |-> v, newt |-> none, asize |-> RehashSizes(t, k).asize,
                 nsize |-> RehashSizes(t, k).nsize]
<1>3. <<k, v>> \in AllEntries  BY DEF AllEntries
<1>4. /\ Idle /\ UNCHANGED <<program, alloc, held>>
      /\ CASE InArray(t, k) -> Assigned([t EXCEPT !.arr[k] = v], k, v)
           [] ~InArray(t, k) /\ p # 0 -> Assigned([t EXCEPT !.node[p].val = v], k, v)
           [] ~InArray(t, k) /\ p = 0 /\ v = nil -> Assigned(t, k, v)
           [] ~InArray(t, k) /\ p = 0 /\ v # nil /\ Fits(t, k) -> Assigned(insertkey(t, k, v), k, v)
           [] OTHER -> pending' = r /\ UNCHANGED <<t, key, left>>
  BY <1>2 DEF luaH_set
<1> HIDE DEF p, r
<1>5. \/ InArray(t, k) /\ SetTo([t EXCEPT !.arr[k] = v], k, v)
      \/ ~InArray(t, k) /\ p # 0 /\ SetTo([t EXCEPT !.node[p].val = v], k, v)
      \/ ~InArray(t, k) /\ p = 0 /\ v = nil /\ SetTo(t, k, v)
      \/ ~InArray(t, k) /\ p = 0 /\ v # nil /\ Fits(t, k) /\ SetTo(insertkey(t, k, v), k, v)
      \/ /\ ~InArray(t, k) /\ p = 0 /\ v # nil /\ UNCHANGED <<t, program, alloc, held, key, left>>
         /\ pending' = r
  BY <1>4 DEF SetTo
<1> QED BY <1>3, <1>4, <1>5 DEF p, r

LEMMA CollectedTidy ==
  ASSUME program \in Programs, Holds(t, AllEntries), Tidy(t)
  PROVE  /\ Holds(Collected, AllEntries) /\ Tidy(Collected) /\ LiveKeys(Collected) \subseteq LiveKeys(t)
         /\ asize(Collected) = asize(t) /\ Clears(Collected) /\ (~Weak("v") => Collected.arr = t.arr)
<1>0. Orderly(t)  BY DEF Tidy
<1> DEFINE R == Collected
<1>1. /\ Holds(R, AllEntries) /\ Clears(R) /\ asize(R) = asize(t)
      /\ ~Weak("v") => R.arr = t.arr
  <2>1. \A i \in DOMAIN t.arr : t.arr[i] # nil => <<i, t.arr[i]>> \in AllEntries
    BY DEF Holds, ArrayIn
  <2>2. \A i \in InUse : <<t.node[i].key, t.node[i].val>> \in AllEntries
    BY DEF Holds, NodesIn, NodeIn, InUse
  <2> QED BY <2>1, <2>2, CollectedIs
<1> HIDE DEF R
<1>2. Live(R) \subseteq Live(t)
  <2>1. Live(R) \subseteq DOMAIN t.node  BY <1>1 DEF Live, Clears
  <2> QED BY <1>1, <2>1 DEF Live, Clears
<1>3. Used(R) \subseteq Live(R)
  <2> SUFFICES ASSUME NEW i \in Used(R) PROVE i \in Live(R)  OBVIOUS
  <2>1. i \in DOMAIN t.node /\ R.node[i].val # nil  BY <1>1 DEF Used, Clears
  <2>2. t.node[i].val # nil /\ R.node[i].dead = t.node[i].dead /\ R.node[i].key = t.node[i].key
    BY <1>1, <2>1 DEF Clears
  <2>3. i \in Live(t)  BY <1>0, <2>1, <2>2 DEF Orderly, Used
  <2> QED BY <1>1, <2>1, <2>2, <2>3 DEF Live, Clears
<1>4. Tidy(R) /\ LiveKeys(R) \subseteq LiveKeys(t)  BY <1>1, <1>2, <1>3, SameTidy DEF Clears
<1> QED BY <1>1, <1>4 DEF R

LEMMA ChainStep == TypeInv /\ ChainInv /\ [Next]_vars => ChainInv'
<1> SUFFICES ASSUME TypeInv, ChainInv, [Next]_vars PROVE ChainInv'  OBVIOUS
<1>0. /\ program \in Programs /\ Holds(t, AllEntries) /\ Tidy(t) /\ IsTable(t) /\ Orderly(t)
      /\ NodesIn(t.node, AllEntries)
  BY DEF TypeInv, ChainInv, Tidy, Holds
<1>11. ASSUME ~Idle
       PROVE  /\ pending.k \in AllKeys /\ pending.v \in Values /\ pending.asize \in Sizes
              /\ pending.nsize \in Nat /\ pending \in Resizes
              /\ Absent(t, pending.k) /\ ~InArray(t, pending.k)
              /\ pending.newt # none =>
                   /\ IsTable(pending.newt) /\ NodesIn(pending.newt.node, AllEntries)
                   /\ Orderly(pending.newt)
                   /\ LiveKeys(pending.newt) \subseteq pending.asize + 1..asize(t)
  BY <1>11, PendingIs
(* What an action has to show. *)
<1>12. ASSUME program' = program, Tidy(t'),
              \/ pending' = none
              \/ /\ Absent(t', pending'.k) /\ ~InArray(t', pending'.k)
                 /\ pending'.newt # none =>
                      Orderly(pending'.newt) /\ LiveKeys(pending'.newt) \subseteq pending'.asize + 1..asize(t')
       PROVE  ChainInv'
  <2>1. /\ LiveReached(t)' <=> LiveReached(t')
        /\ LiveReached(pending.newt)' <=> LiveReached(pending'.newt)
    BY <1>12 DEF LiveReached, Reached, Follows, AtHome, Live, mainposition, Hashmod, iscollectable
  <2>4. /\ OnePredecessor(t)' <=> OnePredecessor(t')
        /\ OnePredecessor(pending.newt)' <=> OnePredecessor(pending'.newt)
    BY DEF OnePredecessor
  <2>5. /\ FreeApart(t)' <=> FreeApart(t')
        /\ FreeApart(pending.newt)' <=> FreeApart(pending'.newt)
    BY DEF FreeApart, Free, haslastfree
  <2>6. /\ Used(t)' = Used(t') /\ Live(t)' = Live(t')
        /\ Used(pending.newt)' = Used(pending'.newt) /\ Live(pending.newt)' = Live(pending'.newt)
    BY DEF Used, Live
  <2>7. Orderly(t)' <=> Orderly(t')  BY <2>1, <2>4, <2>5, <2>6 DEF Orderly
  <2>8. Orderly(pending.newt)' <=> Orderly(pending'.newt)  BY <2>1, <2>4, <2>5, <2>6 DEF Orderly
  <2>9. Apart(t)' <=> Apart(t')  BY DEF Apart, LiveKeys, Live, InArray, asize
  <2>2. (Tidy(t)' <=> Tidy(t')) /\ (Orderly(pending.newt)' <=> Orderly(pending'.newt))
    BY <2>7, <2>8, <2>9 DEF Tidy
  <2>3. /\ Absent(t, pending.k)' = Absent(t', pending'.k) /\ InArray(t, pending.k)' = InArray(t', pending'.k)
        /\ LiveKeys(pending.newt)' = LiveKeys(pending'.newt) /\ asize(t)' = asize(t')
    BY DEF Absent, Live, InArray, asize, LiveKeys
  <2> QED BY <1>12, <2>2, <2>3 DEF ChainInv, Idle
<1>13. ASSUME UNCHANGED <<t, program, pending>> PROVE ChainInv'
  <2>1. CASE Idle  BY <1>0, <1>12, <1>13, <2>1 DEF Idle
  <2>2. CASE ~Idle  BY <1>0, <1>11, <1>12, <1>13, <2>2
  <2> QED BY <2>1, <2>2
<1>1. CASE UNCHANGED vars  BY <1>1, <1>13 DEF vars
<1>2. CASE Set
  <2>1. PICK k \in AllKeys, v \in Values :
          LET p == getgeneric(t, k, FALSE) IN
          /\ <<k, v>> \in AllEntries /\ UNCHANGED program
          /\ \/ InArray(t, k) /\ Assigned([t EXCEPT !.arr[k] = v], k, v)
             \/ ~InArray(t, k) /\ p # 0 /\ Assigned([t EXCEPT !.node[p].val = v], k, v)
             \/ Assigned(t, k, v)
             \/ ~InArray(t, k) /\ p = 0 /\ Assigned(insertkey(t, k, v), k, v)
             \/ /\ ~InArray(t, k) /\ p = 0 /\ UNCHANGED <<t, key, left>>
                /\ pending' = [k |-> k, v |-> v, newt |-> none, asize |-> RehashSizes(t, k).asize,
                               nsize |-> RehashSizes(t, k).nsize]
    BY <1>0, <1>2, SetCases DEF SetTo
  <2> DEFINE p == getgeneric(t, k, FALSE)
             new == [k |-> k, v |-> v, newt |-> none, asize |-> RehashSizes(t, k).asize,
                     nsize |-> RehashSizes(t, k).nsize]
  <2>3. UNCHANGED program /\ <<k, v>> \in AllEntries  BY <2>1
  <2>4. \/ InArray(t, k) /\ Assigned([t EXCEPT !.arr[k] = v], k, v)
        \/ ~InArray(t, k) /\ p # 0 /\ Assigned([t EXCEPT !.node[p].val = v], k, v)
        \/ Assigned(t, k, v)
        \/ ~InArray(t, k) /\ p = 0 /\ Assigned(insertkey(t, k, v), k, v)
        \/ ~InArray(t, k) /\ p = 0 /\ pending' = new /\ UNCHANGED <<t, key, left>>
    BY <2>1
  <2>5. pending' = new => pending'.newt = none /\ pending'.k = k  BY <1>0, NewPending
  <2> HIDE DEF new, p
  <2>6. p = 0 => Absent(t, k)  BY <1>0, NotFound DEF p
  <2>7. CASE InArray(t, k) /\ Assigned([t EXCEPT !.arr[k] = v], k, v)
    <3>1. newcheckedkey(t, k, v) = [t EXCEPT !.arr[k] = v]  BY <2>7 DEF newcheckedkey
    <3>2. Tidy([t EXCEPT !.arr[k] = v])  BY <1>0, <2>7, <3>1, NewcheckedTidy
    <3> QED BY <1>12, <2>3, <2>7, <3>2, AssignedIs
  <2>8. CASE ~InArray(t, k) /\ p # 0 /\ Assigned([t EXCEPT !.node[p].val = v], k, v)
    <3> DEFINE R == [t EXCEPT !.node[p].val = v]
    <3>1. p \in DOMAIN t.node /\ t.node[p].key = k /\ ~t.node[p].dead
      BY <1>0, <2>8, GetIs DEF equalkey, p
    <3>2. Holds(R, AllEntries) /\ Revalued(t, R, p, v)  BY <1>0, <2>3, <3>1, SetNode
    <3> HIDE DEF R
    <3>3. k # nil  BY <1>0, NilIs
    <3>4. Live(R) = Live(t)  BY <3>2 DEF Revalued, Live
    <3>5. Used(R) \subseteq Live(R)
      <4>1. Used(R) \subseteq Used(t) \cup {p} /\ p \in Live(t)  BY <3>1, <3>2, <3>3 DEF Used, Live, Revalued
      <4> QED BY <1>0, <3>4, <4>1 DEF Orderly
    <3>6. asize(R) = asize(t)  BY <3>2 DEF Revalued, asize
    <3>7. Tidy(R)  BY <1>0, <3>2, <3>4, <3>5, <3>6, SameTidy DEF Revalued
    <3> QED BY <1>12, <2>3, <2>8, <3>7, AssignedIs DEF R
  <2>9. CASE Assigned(t, k, v)  BY <1>0, <1>12, <2>3, <2>9, AssignedIs
  <2>10. CASE ~InArray(t, k) /\ p = 0 /\ Assigned(insertkey(t, k, v), k, v)
    <3>1. newcheckedkey(t, k, v) = insertkey(t, k, v)  BY <2>10 DEF newcheckedkey
    <3>2. Tidy(insertkey(t, k, v))  BY <1>0, <2>6, <2>10, <3>1, NewcheckedTidy
    <3> QED BY <1>12, <2>3, <2>10, <3>2, AssignedIs
  <2>11. CASE ~InArray(t, k) /\ p = 0 /\ pending' = new /\ UNCHANGED <<t, key, left>>
    BY <1>0, <1>12, <2>3, <2>5, <2>6, <2>11
  <2> QED BY <2>4, <2>7, <2>8, <2>9, <2>10, <2>11
<1>3. ASSUME NEW newt, ~Idle, IsTable(newt), NodesIn(newt.node, AllEntries), Orderly(newt),
             LiveKeys(newt) \subseteq pending.asize + 1..asize(t), Finish(newt), UNCHANGED program
      PROVE  ChainInv'
  <2>1. Tidy(t')  BY <1>0, <1>3, <1>11, FinishTidy
  <2>2. pending' = none  BY <1>3 DEF Finish, Assigned
  <2> QED BY <1>3, <1>12, <2>1, <2>2
<1>4. CASE AllocNodes
  <2> DEFINE newt == reinsertOldSlice(t, pending.asize, setnodevector(pending.nsize))
  <2>1. /\ ~Idle /\ UNCHANGED <<program, alloc, held>> /\ pending.nsize <= twoto[MAXHBITS]
        /\ \/ Finish(newt)
           \/ pending' = [pending EXCEPT !.newt = newt] /\ UNCHANGED <<t, key, left>>
    BY <1>4 DEF AllocNodes
  <2>2. IsTable(newt) /\ NodesIn(newt.node, AllEntries)  BY <1>0, <1>11, <2>1, NewNodesAre
  <2>3. Orderly(newt) /\ LiveKeys(newt) \subseteq pending.asize + 1..asize(t)
    BY <1>0, <1>11, <2>1, NewNodesTidy
  <2> HIDE DEF newt
  <2>4. CASE Finish(newt)  BY <1>3, <2>1, <2>2, <2>3, <2>4
  <2>5. CASE pending' = [pending EXCEPT !.newt = newt] /\ UNCHANGED <<t, key, left>>
    <3>1. pending'.newt = newt /\ pending'.k = pending.k /\ pending'.asize = pending.asize
      BY <1>11, <2>1, <2>5 DEF Resizes
    <3> QED BY <1>0, <1>11, <1>12, <2>1, <2>3, <2>5, <3>1
  <2> QED BY <2>1, <2>4, <2>5
<1>5. CASE AllocArray
  <2>1. ~Idle /\ pending.newt # none /\ UNCHANGED <<program, alloc, held>> /\ Finish(pending.newt)
    BY <1>5 DEF AllocArray
  <2> QED BY <1>3, <1>11, <2>1
<1>6. CASE AllocFails  BY <1>0, <1>6, <1>12 DEF AllocFails
<1>7. CASE luaH_getn_hint
  <2>1. PICK rnd \in Seeds : /\ t' = [t EXCEPT !.hint = luaH_getn(t, rnd).hint]
                             /\ UNCHANGED <<program, pending>> /\ Idle
    BY <1>7 DEF luaH_getn_hint
  <2> DEFINE h == luaH_getn(t, rnd).hint
  <2> HIDE DEF h
  <2>2. t' = [t EXCEPT !.hint = h] /\ t \in Tables  BY <1>0, <2>1 DEF IsTable, h
  <2>3. t'.arr = t.arr /\ t'.node = t.node /\ t'.lastfree = t.lastfree  BY <2>2 DEF Tables
  <2> DEFINE R == t'
  <2>4. R.arr = t.arr /\ R.node = t.node /\ R.lastfree = t.lastfree  BY <2>3
  <2>5. R = t'  OBVIOUS
  <2> HIDE DEF R
  <2>6. Live(R) = Live(t) /\ Used(R) = Used(t) /\ asize(R) = asize(t)  BY <2>4 DEF Live, Used, asize
  <2>7. Tidy(R)  BY <1>0, <2>4, <2>6, SameTidy DEF Orderly
  <2> QED BY <1>12, <2>1, <2>5, <2>7 DEF Idle
<1>8. CASE StartTraversal \/ Traverse \/ Forgets  BY <1>8, <1>13 DEF StartTraversal, Traverse, Forgets
<1>16. CASE Collect
  <2>1. t' = Collected /\ UNCHANGED <<program, pending>>  BY <1>16 DEF Collect
  <2> DEFINE R == Collected
  <2>3. R = t' /\ asize(R) = asize(t) /\ Tidy(R) /\ LiveKeys(R) \subseteq LiveKeys(t)
    BY <1>0, <2>1, CollectedTidy
  <2> HIDE DEF R
  <2>7. CASE Idle  BY <1>12, <2>1, <2>3, <2>7 DEF Idle
  <2>8. CASE ~Idle
    <3>1. Absent(R, pending.k)
      <4>1. pending.k \notin LiveKeys(t)  BY <1>11, <2>8 DEF Absent, LiveKeys
      <4> QED BY <2>3, <4>1 DEF Absent, LiveKeys
    <3>2. ~InArray(R, pending.k)  BY <1>11, <2>3, <2>8 DEF InArray
    <3> QED BY <1>11, <1>12, <2>1, <2>3, <2>8, <3>1, <3>2
  <2> QED BY <2>7, <2>8
<1> QED
  BY <1>1, <1>2, <1>4, <1>5, <1>6, <1>7, <1>8, <1>16 DEF Next

(* A node has one predecessor, free nodes are below 'lastfree', and a live  *)
(* key is found before a dead one at its address, whatever collisions,      *)
(* rehashes that go on while a collection clears their entries, and         *)
(* assignments do to the nodes (insertkey, reinserthash, clearkey).         *)
THEOREM ChainsFit == Spec => []ChainsRight
<1>1. Init => TypeInv /\ ChainInv  BY InitRight, InitTidy
<1>2. TypeInv /\ ChainInv /\ [Next]_vars => TypeInv' /\ ChainInv'  BY TypeStep, ChainStep
<1>3. TypeInv /\ ChainInv => ChainsRight
  <2> SUFFICES ASSUME TypeInv, ChainInv PROVE ChainsRight  OBVIOUS
  <2>1. program \in Programs /\ IsTable(t) /\ Orderly(t)  BY DEF TypeInv, ChainInv, Tidy, Holds
  <2>2. \A i \in InUse : i \in Live(t)  BY <2>1 DEF InUse, Used, Orderly
  <2>3. TRUE \in BOOLEAN /\ LiveReached(t)  BY <2>1 DEF Orderly
  <2>4. \A i \in InUse : getgeneric(t, t.node[i].key, TRUE) = i  BY <2>1, <2>2, <2>3, LiveFound
  <2>5. haslastfree(t) => \A i \in DOMAIN t.node : t.node[i].key = nil => i < t.lastfree
    BY <2>1 DEF Orderly, FreeApart, Free
  <2>6. \A i, j \in DOMAIN t.node : i # j /\ t.node[i].next = t.node[j].next => t.node[i].next = 0
    BY <2>1 DEF Orderly, OnePredecessor
  <2> QED BY <2>4, <2>5, <2>6 DEF ChainsRight
<1> QED BY <1>1, <1>2, <1>3, PTL DEF Spec

------------------------------------------------------------------------------
(* ---- what a program sees ---- *)
Vanishing(T, n)    == {j \in DOMAIN T.arr : j > n /\ T.arr[j] # nil}
Elements(T, S)     == {<<j, T.arr[j]>> : j \in S}
ArrayEntries(T)    == Elements(T, Vanishing(T, 0))
Content(T)         == NodeEntries(T) \cup ArrayEntries(T)
Unused(T, k)       == \A w : <<k, w>> \notin Content(T)
IsTidy(T)          == Holds(T, AllEntries) /\ Tidy(T)

LEMMA Elements1 ==
  ASSUME NEW T, NEW S, NEW k, NEW v
  PROVE  <<k, v>> \in Elements(T, S) <=> k \in S /\ v = T.arr[k]
BY DEF Elements

LEMMA NodeEntries1 ==
  ASSUME NEW T, NEW k, NEW v
  PROVE  <<k, v>> \in NodeEntries(T) <=> \E i \in Used(T) : T.node[i].key = k /\ T.node[i].val = v
BY DEF NodeEntries

(* A search gives what is in the array and the nodes.                       *)
LEMMA ContentIs ==
  ASSUME program \in Programs, NEW T, IsTidy(T), NEW k \in AllKeys, NEW v, v # nil
  PROVE  luaH_get(T, k) = v <=> <<k, v>> \in Content(T)
<1>0. /\ IsTable(T) /\ T.arr \in Seq(Values) /\ asize(T) = Len(T.arr) /\ asize(T) \in Nat
      /\ Used(T) \subseteq Live(T) /\ LiveReached(T) /\ DOMAIN T.arr = 1..asize(T)
  BY DEF IsTidy, Holds, IsTable, Tables, asize, Tidy, Orderly
<1>1. CASE InArray(T, k)
  <2>1. <<k, v>> \notin NodeEntries(T)
    <3> SUFFICES ASSUME NEW i \in Used(T), T.node[i].key = k PROVE FALSE  BY NodeEntries1
    <3>1. k \in LiveKeys(T)  BY <1>0 DEF LiveKeys
    <3> QED BY <1>1, <3>1 DEF IsTidy, Tidy, Apart
  <2>2. k \in DOMAIN T.arr /\ k > 0  BY <1>0, <1>1 DEF InArray
  <2>3. <<k, v>> \in ArrayEntries(T) <=> T.arr[k] # nil /\ v = T.arr[k]
    BY <2>2, Elements1 DEF ArrayEntries, Vanishing
  <2> QED BY <1>1, <2>1, <2>3 DEF luaH_get, Content
<1>2. CASE ~InArray(T, k)
  <2> DEFINE p == getgeneric(T, k, FALSE)
  <2>1. luaH_get(T, k) = IF p = 0 THEN nil ELSE T.node[p].val  BY <1>2 DEF luaH_get
  <2>2. p = 0 \/ (p \in DOMAIN T.node /\ equalkey(k, T.node[p], FALSE))  BY <1>0, GetIs
  <2>3. \A i \in Live(T) : T.node[i].key = k => p = i /\ p # 0
    <3> TAKE i \in Live(T)
    <3>1. FALSE \in BOOLEAN  OBVIOUS
    <3>2. getgeneric(T, T.node[i].key, FALSE) = i  BY <1>0, <3>1, LiveFound
    <3>3. i # 0  BY <1>0 DEF Live, IsTable, Tables
    <3> QED BY <3>2, <3>3
  <2> HIDE DEF p
  <2>4. <<k, v>> \notin ArrayEntries(T)
    <3>1. k \notin DOMAIN T.arr  BY <1>0, <1>2 DEF InArray
    <3> QED BY <3>1, Elements1 DEF ArrayEntries, Vanishing
  <2>5. ASSUME luaH_get(T, k) = v PROVE <<k, v>> \in NodeEntries(T)
    <3>1. p \in DOMAIN T.node /\ T.node[p].key = k /\ T.node[p].val = v
      BY <2>1, <2>2, <2>5 DEF equalkey
    <3> QED BY <3>1, NodeEntries1 DEF Used
  <2>6. ASSUME <<k, v>> \in NodeEntries(T) PROVE luaH_get(T, k) = v
    <3>1. PICK i \in Used(T) : T.node[i].key = k /\ T.node[i].val = v  BY <2>6, NodeEntries1
    <3>2. p = i /\ p # 0  BY <1>0, <2>3, <3>1
    <3> QED BY <2>1, <3>1, <3>2
  <2> QED BY <2>4, <2>5, <2>6 DEF Content
<1> QED BY <1>1, <1>2

(* A key without an entry is not found. *)
LEMMA UnusedIs ==
  ASSUME program \in Programs, NEW T, IsTidy(T), NEW k \in AllKeys
  PROVE  luaH_get(T, k) = nil <=> Unused(T, k)
<1>1. ASSUME NEW w, <<k, w>> \in Content(T) PROVE w # nil
  <2>1. <<k, w>> \in NodeEntries(T) => w # nil  BY NodeEntries1 DEF Used
  <2>2. <<k, w>> \in ArrayEntries(T) => w # nil  BY Elements1 DEF ArrayEntries, Vanishing
  <2> QED BY <1>1, <2>1, <2>2 DEF Content
<1>2. \A w : w # nil => (luaH_get(T, k) = w <=> <<k, w>> \in Content(T))  BY ContentIs
<1> QED BY <1>1, <1>2 DEF Unused

(* The contents determine what a program sees.                              *)
LEMMA SameContent ==
  ASSUME program \in Programs, NEW T, IsTidy(T), NEW I, IsTidy(I), NEW x \in AllKeys,
         \A w : <<x, w>> \in Content(I) <=> <<x, w>> \in Content(T)
  PROVE  luaH_get(I, x) = luaH_get(T, x)
<1>1. CASE luaH_get(T, x) = nil
  <2>1. Unused(I, x)  BY <1>1, UnusedIs DEF Unused
  <2> QED BY <1>1, <2>1, UnusedIs
<1>2. CASE luaH_get(T, x) # nil
  <2>1. <<x, luaH_get(T, x)>> \in Content(I)  BY <1>2, ContentIs
  <2> QED BY <1>2, <2>1, ContentIs
<1> QED BY <1>1, <1>2

LEMMA AddedIs ==
  ASSUME program \in Programs, NEW T, IsTidy(T), NEW I, IsTidy(I), NEW k \in AllKeys, NEW v, v # nil,
         \A y, w : <<y, w>> \in Content(I) <=> <<y, w>> \in Content(T) \/ (y = k /\ w = v), NEW x \in AllKeys
  PROVE  luaH_get(I, x) = IF x = k THEN v ELSE luaH_get(T, x)
<1>1. CASE x = k
  <2>1. <<k, v>> \in Content(I)  OBVIOUS
  <2> QED BY <1>1, <2>1, ContentIs
<1>2. CASE x # k
  <2>1. \A w : <<x, w>> \in Content(I) <=> <<x, w>> \in Content(T)  BY <1>2
  <2> QED BY <1>2, <2>1, SameContent
<1> QED BY <1>1, <1>2

(* An assignment to a new key.                                              *)
LEMMA NewcheckedContent ==
  ASSUME program \in Programs, NEW T, IsTidy(T), NEW k \in AllKeys, NEW v \in Values, v # nil,
         Unused(T, k), Absent(T, k) \/ InArray(T, k), InArray(T, k) \/ Fits(T, k)
  PROVE  LET I == newcheckedkey(T, k, v) IN
         /\ Content(I) = Content(T) \cup {<<k, v>>}
         /\ InArray(T, k) => Free(I) = Free(T)
         /\ \E f \in {0} \cup DOMAIN T.node : Free(T) \subseteq Free(I) \cup {f}
<1> DEFINE I == newcheckedkey(T, k, v)
<1>0. /\ T \in Tables /\ T.arr \in Seq(Values) /\ asize(T) = Len(T.arr) /\ asize(T) \in Nat
      /\ IsTable(T) /\ NodesIn(T.node, AllEntries) /\ Orderly(T) /\ DOMAIN T.arr = 1..asize(T)
  BY DEF IsTidy, Tidy, Holds, IsTable, Tables, asize
<1>1. CASE InArray(T, k)
  <2> DEFINE a == [T.arr EXCEPT ![k] = v]
  <2>1. k \in DOMAIN T.arr /\ k > 0  BY <1>0, <1>1 DEF InArray
  <2>2. I = [T EXCEPT !.arr = a]  BY <1>1 DEF newcheckedkey
  <2>3. DOMAIN a = DOMAIN T.arr /\ \A j \in DOMAIN T.arr : a[j] = IF j = k THEN v ELSE T.arr[j]
    BY <1>0, <2>1
  <2> HIDE DEF a, I
  <2>4. I.node = T.node /\ I.arr = a  BY <1>0, <2>2 DEF Tables
  <2>5. NodeEntries(I) = NodeEntries(T) /\ Free(I) = Free(T)  BY <2>4 DEF NodeEntries, Used, Free
  <2>6. T.arr[k] = nil
    <3> SUFFICES ASSUME T.arr[k] # nil PROVE FALSE  OBVIOUS
    <3>1. <<k, T.arr[k]>> \in ArrayEntries(T)  BY <2>1, Elements1 DEF ArrayEntries, Vanishing
    <3> QED BY <3>1 DEF Unused, Content
  <2>7. Vanishing(I, 0) = Vanishing(T, 0) \cup {k}  BY <2>1, <2>3, <2>4 DEF Vanishing
  <2>8. I.arr[k] = v /\ \A j \in Vanishing(T, 0) : I.arr[j] = T.arr[j]
    BY <2>1, <2>3, <2>4, <2>6 DEF Vanishing
  <2>9. ArrayEntries(I) = ArrayEntries(T) \cup {<<k, v>>}  BY <2>7, <2>8 DEF ArrayEntries, Elements
  <2>10. Content(I) = Content(T) \cup {<<k, v>>}  BY <2>5, <2>9 DEF Content
  <2> QED BY <1>1, <2>5, <2>10 DEF I
<1>2. CASE ~InArray(T, k)
  <2>1. I = insertkey(T, k, v)  BY <1>2 DEF newcheckedkey
  <2>2. Grown(T, I, k, v)  BY <1>0, <1>2, <2>1, InsertGrows
  <2> HIDE DEF I
  <2>3. ArrayEntries(I) = ArrayEntries(T)
    BY <2>2 DEF Grown, Same, ArrayEntries, Elements, Vanishing
  <2> QED BY <1>2, <2>2, <2>3 DEF Grown, Content, I
<1> QED BY <1>1, <1>2

(* A search depends on the links and on the nodes that have the key.        *)
LEMMA SameSearch ==
  ASSUME program \in Programs, NEW T, IsTable(T), NEW R, IsTable(R), NEW k \in AllKeys, NEW d \in BOOLEAN,
         DOMAIN R.node = DOMAIN T.node, Len(R.node) = Len(T.node),
         \A i \in DOMAIN T.node : /\ R.node[i].next = T.node[i].next
                                  /\ equalkey(k, R.node[i], d) <=> equalkey(k, T.node[i], d)
  PROVE  getgeneric(R, k, d) = getgeneric(T, k, d)
<1> DEFINE N == Len(T.node)
           D == {0} \cup DOMAIN T.node
           p == mainposition(T, k)
<1>0. /\ N \in Nat /\ 0 \in 0..N /\ N \in 0..N /\ T.node \in Seq(Nodes) /\ LinksIn(T.node)
      /\ mainposition(R, k) = p /\ DOMAIN T.node = 1..N /\ R.node \in Seq(Nodes)
  BY DEF IsTable, Tables, mainposition
<1>1. CASE isdummy(T)
  <2>1. N = 0  BY <1>1 DEF isdummy
  <2>2. isdummy(R)  BY <1>0, <2>1 DEF isdummy
  <2> QED BY <1>1, <2>2 DEF getgeneric
<1>2. CASE ~isdummy(T)
  <2>0. ~isdummy(R)
    <3>1. N # 0  BY <1>0, <1>2 DEF isdummy
    <3> QED BY <1>0, <3>1 DEF isdummy
  <2>1. PICK f : Finds(T, k, d, f)  BY <1>2, FindIs
  <2>2. PICK g : Finds(R, k, d, g)  BY <2>0, FindIs
  <2>3. p \in D  BY <1>0, <1>2, MainIn
  <2> HIDE DEF p
  <2> DEFINE G == {n \in 0..N : \A i \in D : g[n][i] = f[n][i]}
  <2>4. 0 \in G
    <3>1. \A i \in D : f[0][i] = IF i = 0 \/ equalkey(k, T.node[i], d) THEN i ELSE 0
      BY <2>1 DEF Finds
    <3>2. \A i \in D : g[0][i] = IF i = 0 \/ equalkey(k, R.node[i], d) THEN i ELSE 0
      BY <2>2 DEF Finds
    <3> QED BY <1>0, <3>1, <3>2
  <2>5. ASSUME NEW n \in 0..N, n # 0, n - 1 \in G PROVE n \in G
    <3>1. n \in 1..N /\ f[n] = Hop(T, k, d, f[n - 1]) /\ g[n] = Hop(R, k, d, g[n - 1])
      BY <1>0, <2>1, <2>2, <2>5 DEF Finds
    <3> HIDE DEF N
    <3>2. \A i \in D : f[n][i] = IF i = 0 \/ equalkey(k, T.node[i], d) THEN i ELSE f[n - 1][T.node[i].next]
      BY <3>1 DEF Hop
    <3>3. \A i \in D : g[n][i] = IF i = 0 \/ equalkey(k, R.node[i], d) THEN i ELSE g[n - 1][R.node[i].next]
      BY <3>1 DEF Hop
    <3>4. ASSUME NEW i \in D PROVE g[n][i] = f[n][i]
      <4>1. CASE i = 0  BY <3>2, <3>3, <4>1
      <4>2. CASE i # 0
        <5>1. i \in DOMAIN T.node /\ T.node[i].next \in D  BY <1>0, <4>2 DEF LinksIn
        <5>2. g[n - 1][T.node[i].next] = f[n - 1][T.node[i].next]  BY <2>5, <5>1
        <5>3. R.node[i].next = T.node[i].next  BY <5>1
        <5>4. CASE equalkey(k, T.node[i], d)
          <6>1. equalkey(k, R.node[i], d)  BY <5>1, <5>4
          <6> QED BY <3>2, <3>3, <5>4, <6>1
        <5>5. CASE ~equalkey(k, T.node[i], d)
          <6>1. ~equalkey(k, R.node[i], d)  BY <5>1, <5>5
          <6> QED BY <3>2, <3>3, <4>2, <5>2, <5>3, <5>5, <6>1
        <5> QED BY <5>4, <5>5
      <4> QED BY <4>1, <4>2
    <3> QED BY <3>4
  <2>6. 0 \in Int /\ N \in Int  BY <1>0
  <2> HIDE DEF G
  <2>7. 0..N \subseteq G
    <3> HIDE DEF N
    <3> QED BY <2>4, <2>5, <2>6, Upwards
  <2>8. g[N][p] = f[N][p]  BY <1>0, <2>3, <2>7 DEF G
  <2>9. getgeneric(T, k, d) = f[N][p] /\ getgeneric(R, k, d) = g[N][p]
    BY <1>0, <2>1, <2>2 DEF Finds, p
  <2> QED BY <2>8, <2>9
<1> QED BY <1>1, <1>2

(* The place of a key in a traversal.                                       *)
LEMMA SamePlace ==
  ASSUME program \in Programs, NEW T, IsTable(T), NEW R, IsTable(R), NEW k \in AllKeys \cup {nil},
         asize(R) = asize(T), DOMAIN R.node = DOMAIN T.node, Len(R.node) = Len(T.node),
         \A i \in DOMAIN T.node : R.node[i].next = T.node[i].next /\ R.node[i].key = T.node[i].key
  PROVE  findindex(R, k) = findindex(T, k)
<1>1. CASE k = nil  BY <1>1 DEF findindex
<1>2. CASE k # nil
  <2>1. k \in AllKeys  BY <1>2
  <2>2. \A i \in DOMAIN T.node : equalkey(k, R.node[i], TRUE) <=> equalkey(k, T.node[i], TRUE)
    BY DEF equalkey
  <2>4. TRUE \in BOOLEAN  OBVIOUS
  <2>3. getgeneric(R, k, TRUE) = getgeneric(T, k, TRUE)  BY <2>1, <2>2, <2>4, SameSearch
  <2> QED BY <1>2, <2>3 DEF findindex, InArray
<1> QED BY <1>1, <1>2

LEMMA ArraySetIs ==
  ASSUME program \in Programs, NEW T, IsTable(T), NEW k \in AllKeys, InArray(T, k), NEW v \in Values
  PROVE  LET R == [T EXCEPT !.arr[k] = v] IN
         /\ IsTable(R) /\ asize(R) = asize(T) /\ R.node = T.node
         /\ \A x \in AllKeys : luaH_get(R, x) = IF x = k THEN v ELSE luaH_get(T, x)
<1> DEFINE a == [T.arr EXCEPT ![k] = v]
           R == [T EXCEPT !.arr = a]
<1>0. T \in Tables /\ T.arr \in Seq(Values) /\ asize(T) = Len(T.arr) /\ DOMAIN T.arr = 1..asize(T)
  BY DEF IsTable, Tables, asize
<1>1. /\ a \in Seq(Values) /\ Len(a) = Len(T.arr)
      /\ \A j \in DOMAIN T.arr : a[j] = IF j = k THEN v ELSE T.arr[j]
  BY <1>0 DEF InArray
<1> HIDE DEF a
<1>2. R.node = T.node /\ R.arr = a /\ R.hint = T.hint /\ R.lastfree = T.lastfree /\ R \in Tables
  BY <1>0, <1>1 DEF Tables
<1> HIDE DEF R
<1>3. asize(R) = asize(T) /\ IsTable(R)  BY <1>0, <1>1, <1>2 DEF asize, IsTable
<1>4. ASSUME NEW x \in AllKeys PROVE luaH_get(R, x) = IF x = k THEN v ELSE luaH_get(T, x)
  <2>0. FALSE \in BOOLEAN  OBVIOUS
  <2>1. getgeneric(R, x, FALSE) = getgeneric(T, x, FALSE)  BY <1>2, <1>3, <2>0, SameSearch
  <2>2. InArray(R, x) <=> InArray(T, x)  BY <1>3 DEF InArray
  <2>3. CASE InArray(T, x)
    <3>1. x \in DOMAIN T.arr  BY <1>0, <2>3 DEF InArray
    <3> QED BY <1>1, <1>2, <2>2, <2>3, <3>1 DEF luaH_get
  <2>4. CASE ~InArray(T, x)  BY <1>2, <2>1, <2>2, <2>4 DEF luaH_get
  <2> QED BY <2>3, <2>4
<1>5. [T EXCEPT !.arr[k] = v] = R  BY DEF R, a
<1> QED BY <1>2, <1>3, <1>4, <1>5

(* 'R' is the map of 'T' with 'v' for 'k'. *)
Changed(T, R, k, v) == \A x \in AllKeys : luaH_get(R, x) = IF x = k THEN v ELSE luaH_get(T, x)
Valued(T, p, v) == [T EXCEPT !.node[p].val = v]
LEMMA NodeSetIs ==
  ASSUME program \in Programs, NEW T, Holds(T, AllEntries), NEW k \in AllKeys, ~InArray(T, k),
         NEW v \in Values, getgeneric(T, k, FALSE) # 0
  PROVE  LET p == getgeneric(T, k, FALSE)
             R == Valued(T, p, v) IN
         /\ Holds(R, AllEntries) /\ Revalued(T, R, p, v)
         /\ Changed(T, R, k, v)
<1> DEFINE p == getgeneric(T, k, FALSE)
           R == Valued(T, p, v)
<1>0. IsTable(T)  BY DEF Holds
<1>1. p \in DOMAIN T.node /\ T.node[p].key = k  BY <1>0, GetIs DEF equalkey
<1>2. <<k, v>> \in AllEntries  BY DEF AllEntries
<1>3. Holds(R, AllEntries) /\ Revalued(T, R, p, v)  BY <1>1, <1>2, SetNode DEF Valued
<1> HIDE DEF R
<1>4. IsTable(R) /\ asize(R) = asize(T)  BY <1>3 DEF Holds, Revalued, asize
<1>5. ASSUME NEW x \in AllKeys PROVE luaH_get(R, x) = IF x = k THEN v ELSE luaH_get(T, x)
  <2>1. \A i \in DOMAIN T.node : equalkey(x, R.node[i], FALSE) <=> equalkey(x, T.node[i], FALSE)
    BY <1>3 DEF equalkey, Revalued
  <2>0. FALSE \in BOOLEAN  OBVIOUS
  <2>2. getgeneric(R, x, FALSE) = getgeneric(T, x, FALSE)
    <3>1. \A i \in DOMAIN T.node : R.node[i].next = T.node[i].next  BY <1>3 DEF Revalued
    <3>2. DOMAIN R.node = DOMAIN T.node /\ Len(R.node) = Len(T.node)  BY <1>3 DEF Revalued
    <3> QED BY <1>0, <1>4, <2>0, <2>1, <3>1, <3>2, SameSearch
  <2>3. InArray(R, x) <=> InArray(T, x)  BY <1>4 DEF InArray
  <2>4. CASE InArray(T, x)  BY <1>3, <2>3, <2>4 DEF luaH_get, Revalued
  <2>5. CASE ~InArray(T, x)
    <3> DEFINE q == getgeneric(T, x, FALSE)
    <3>1. q = 0 \/ (q \in DOMAIN T.node /\ T.node[q].key = x)  BY <1>0, GetIs DEF equalkey
    <3>2. luaH_get(R, x) = IF q = 0 THEN nil ELSE R.node[q].val  BY <2>2, <2>3, <2>5 DEF luaH_get
    <3>3. luaH_get(T, x) = IF q = 0 THEN nil ELSE T.node[q].val  BY <2>5 DEF luaH_get
    <3>4. x = k => q = p  OBVIOUS
    <3> HIDE DEF q
    <3> QED BY <1>1, <1>3, <3>1, <3>2, <3>3, <3>4 DEF Revalued
  <2> QED BY <2>4, <2>5
<1> QED BY <1>3, <1>5 DEF R, Changed

(* ---- enough room ---- *)
Upto(S, i) == {j \in S : j <= i}
LEMMA UptoIs ==
  ASSUME NEW S \in SUBSET Int, IsFiniteSet(S), NEW i \in Int
  PROVE  /\ IsFiniteSet(Upto(S, i)) /\ Cardinality(Upto(S, i)) \in Nat /\ Cardinality(S) \in Nat
         /\ Cardinality(Upto(S, i)) <= Cardinality(S)
         /\ Upto(S, i) = Upto(S, i - 1) \cup ({i} \cap S)
         /\ Cardinality(Upto(S, i)) = Cardinality(Upto(S, i - 1)) + IF i \in S THEN 1 ELSE 0
<1>1. \A j \in Int : Upto(S, j) \subseteq S /\ IsFiniteSet(Upto(S, j)) /\ Cardinality(Upto(S, j)) \in Nat
                     /\ Cardinality(Upto(S, j)) <= Cardinality(S)
  <2> TAKE j \in Int
  <2>1. Upto(S, j) \subseteq S  BY DEF Upto
  <2> QED BY <2>1, FS_Subset, FS_CardinalityType
<1>2. Upto(S, i) = Upto(S, i - 1) \cup ({i} \cap S)
  <2>1. \A j \in S : j <= i <=> j <= i - 1 \/ j = i  OBVIOUS
  <2> QED BY <2>1 DEF Upto
<1>3. i \notin Upto(S, i - 1)  BY DEF Upto
<1>4. Cardinality(Upto(S, i)) = Cardinality(Upto(S, i - 1)) + IF i \in S THEN 1 ELSE 0
  <2>1. CASE i \in S
    <3>1. Upto(S, i) = Upto(S, i - 1) \cup {i}  BY <1>2, <2>1
    <3>2. IsFiniteSet(Upto(S, i - 1))  BY <1>1
    <3> QED BY <1>3, <2>1, <3>1, <3>2, FS_AddElement
  <2>2. CASE i \notin S
    <3>1. Upto(S, i) = Upto(S, i - 1)  BY <1>2, <2>2
    <3>2. Cardinality(Upto(S, i - 1)) \in Nat  BY <1>1
    <3> QED BY <2>2, <3>1, <3>2
  <2> QED BY <2>1, <2>2
<1>5. Cardinality(S) \in Nat  BY FS_CardinalityType
<1> QED BY <1>1, <1>2, <1>4, <1>5

Outside(T, n) == {i \in Used(T) : T.node[i].key \notin 1..n}
LEMMA FiniteParts ==
  ASSUME NEW T, IsTable(T), NEW n
  PROVE  \A S \in {Free(T), Used(T), Outside(T, n), Vanishing(T, n)} :
           S \in SUBSET Int /\ IsFiniteSet(S) /\ Cardinality(S) \in Nat
<1>0. T.node \in Seq(Nodes) /\ T.arr \in Seq(Values)  BY DEF IsTable, Tables
<1>1. /\ DOMAIN T.node = 1..Len(T.node) /\ DOMAIN T.arr = 1..Len(T.arr)
      /\ Len(T.node) \in Int /\ Len(T.arr) \in Int /\ 1 \in Int
  BY <1>0
<1>2. IsFiniteSet(DOMAIN T.node) /\ IsFiniteSet(DOMAIN T.arr)  BY <1>1, FS_Interval
<1>3. ASSUME NEW S \in {Free(T), Used(T), Outside(T, n), Vanishing(T, n)}
      PROVE  S \subseteq DOMAIN T.node \/ S \subseteq DOMAIN T.arr
  BY <1>3 DEF Free, Used, Outside, Vanishing
<1>4. ASSUME NEW S, S \subseteq DOMAIN T.node \/ S \subseteq DOMAIN T.arr
      PROVE  S \in SUBSET Int /\ IsFiniteSet(S) /\ Cardinality(S) \in Nat
  <2>1. S \in SUBSET Int  BY <1>1, <1>4
  <2> QED BY <1>2, <1>4, <2>1, FS_Subset, FS_CardinalityType
<1> QED BY <1>3, <1>4

(* An insertion takes at most one free node. *)
LEMMA FreeDrops ==
  ASSUME NEW S, IsFiniteSet(S), NEW R, IsFiniteSet(R), NEW f, S \subseteq R \cup {f}
  PROVE  Cardinality(S) <= Cardinality(R) + 1
<1>1. /\ IsFiniteSet(R \cup {f}) /\ Cardinality(R) \in Nat
      /\ Cardinality(R \cup {f}) = IF f \in R THEN Cardinality(R) ELSE Cardinality(R) + 1
  BY FS_AddElement, FS_CardinalityType
<1>2. Cardinality(S) <= Cardinality(R \cup {f}) /\ Cardinality(S) \in Nat
  BY <1>1, FS_Subset, FS_CardinalityType
<1> QED BY <1>1, <1>2

(* With enough nodes, the vanishing part of the array goes into them.       *)
LEMMA SlicesContent ==
  ASSUME program \in Programs, NEW T, IsTable(T), NEW m \in Nat, m <= asize(T), NEW nodes, NEW U,
         Slices(T, m, nodes, U), \A i \in m..asize(T) : U[i] \in SliceTables(T, AllEntries),
         \A i \in DOMAIN nodes : nodes[i] = Node,
         \A i \in m + 1..asize(T) : T.arr[i] # nil => <<i, T.arr[i]>> \in AllEntries,
         Cardinality(Vanishing(T, m)) <= Len(nodes), nodes \in Seq(Nodes)
  PROVE  \A i \in m..asize(T) :
           /\ NodeEntries(U[i]) = Elements(T, Upto(Vanishing(T, m), i))
           /\ Len(nodes) <= Cardinality(Free(U[i])) + Cardinality(Upto(Vanishing(T, m), i))
<1> DEFINE n == asize(T)
           S == Vanishing(T, m)
           G == {i \in m..n : /\ NodeEntries(U[i]) = Elements(T, Upto(S, i))
                              /\ Len(nodes) <= Cardinality(Free(U[i])) + Cardinality(Upto(S, i))}
<1>0. /\ n \in Nat /\ T \in Tables /\ S \in SUBSET Int /\ IsFiniteSet(S) /\ Len(nodes) \in Nat
      /\ T.arr \in Seq(Values) /\ n = Len(T.arr)
  BY FiniteParts DEF IsTable, Tables, asize
<1>11. \A i \in m..n : Orderly(U[i]) /\ LiveKeys(U[i]) \subseteq m + 1..i  BY SlicesTidy
<1>12. ASSUME NEW i \in m..n
       PROVE  /\ U[i] \in Tables /\ IsTable(U[i]) /\ NodesIn(U[i].node, AllEntries)
              /\ IsFiniteSet(Free(U[i])) /\ Cardinality(Free(U[i])) \in Nat
  <2>1. U[i] \in Tables /\ IsTable(U[i]) /\ NodesIn(U[i].node, AllEntries)  BY DEF SliceTables
  <2> QED BY <2>1, FiniteParts
<1>1. m \in G
  <2> DEFINE b == U[m]
  <2>1. b = [T EXCEPT !.node = nodes, !.lastfree = Len(nodes) + 1] /\ b \in Tables /\ m \in m..n
    BY <1>0 DEF Slices, SliceTables
  <2> HIDE DEF b
  <2>2. b.node = nodes  BY <1>0, <2>1 DEF Tables
  <2>3. \A i \in DOMAIN b.node : b.node[i].key = nil /\ b.node[i].val = nil  BY <2>2 DEF Node
  <2>4. Used(b) = {} /\ Free(b) = 1..Len(nodes)  BY <2>2, <2>3 DEF Used, Free
  <2>5. Upto(S, m) = {}
    <3>1. \A j \in S : j \in Int /\ j > m  BY <1>0 DEF Vanishing
    <3> HIDE DEF S
    <3>2. \A j \in Int : j > m => ~(j <= m)  BY <1>0
    <3> QED BY <3>1, <3>2 DEF Upto
  <2>6. NodeEntries(b) = {} /\ Elements(T, {}) = {}  BY <2>4 DEF NodeEntries, Elements
  <2>7. Cardinality(1..Len(nodes)) = Len(nodes)
    <3> DEFINE l == Len(nodes)
    <3>1. l \in Nat /\ l \in Int /\ 1 \in Int  BY <1>0
    <3> HIDE DEF l
    <3>2. Cardinality(1..l) = IF 1 > l THEN 0 ELSE l - 1 + 1  BY <3>1, FS_Interval
    <3>3. Cardinality(1..l) = l  BY <3>1, <3>2
    <3> QED BY <3>3 DEF l
  <2>8. Cardinality({}) = 0  BY FS_EmptySet
  <2> HIDE DEF S
  <2>9. NodeEntries(b) = Elements(T, Upto(S, m))  BY <2>5, <2>6
  <2>10. Len(nodes) <= Cardinality(Free(b)) + Cardinality(Upto(S, m))  BY <1>0, <2>4, <2>5, <2>7, <2>8
  <2> QED BY <2>1, <2>9, <2>10 DEF b
<1>2. ASSUME NEW i \in m..n, i # m, i - 1 \in G PROVE i \in G
  <2>1. /\ U[i] = IF T.arr[i] = nil THEN U[i - 1] ELSE insertkey(U[i - 1], i, T.arr[i])
        /\ i - 1 \in m..n /\ i \in m + 1..n /\ i \in Int
    BY <1>0, <1>2 DEF Slices
  <2>2. /\ NodeEntries(U[i - 1]) = Elements(T, Upto(S, i - 1))
        /\ Len(nodes) <= Cardinality(Free(U[i - 1])) + Cardinality(Upto(S, i - 1))
    BY <1>2
  <2>3. /\ Cardinality(Upto(S, i)) \in Nat /\ Cardinality(S) \in Nat /\ Cardinality(Upto(S, i)) <= Cardinality(S)
        /\ Upto(S, i) = Upto(S, i - 1) \cup ({i} \cap S)
        /\ Cardinality(Upto(S, i)) = Cardinality(Upto(S, i - 1)) + IF i \in S THEN 1 ELSE 0
    BY <1>0, <2>1, UptoIs
  <2>4. i - 1 \in Int /\ Cardinality(Upto(S, i - 1)) \in Nat  BY <1>0, <2>1, UptoIs
  <2>5. i \in S <=> T.arr[i] # nil  BY <1>0, <2>1 DEF Vanishing
  <2> HIDE DEF S
  <2>6. CASE T.arr[i] = nil
    <3>1. U[i] = U[i - 1] /\ Upto(S, i) = Upto(S, i - 1)  BY <2>1, <2>3, <2>5, <2>6
    <3> QED BY <2>2, <3>1
  <2>7. CASE T.arr[i] # nil
    <3>1. i \in AllKeys /\ T.arr[i] \in Values
      <4>1. <<i, T.arr[i]>> \in AllEntries  BY <2>1, <2>7
      <4> QED BY <4>1 DEF AllEntries
    <3>2. Absent(U[i - 1], i)
      <4>1. LiveKeys(U[i - 1]) \subseteq m + 1..i - 1  BY <1>11, <2>1
      <4>2. i \notin m + 1..i - 1  BY <2>1
      <4> QED BY <4>1, <4>2 DEF Absent, LiveKeys
    <3>3. Free(U[i - 1]) # {}
      <4> SUFFICES ASSUME Free(U[i - 1]) = {} PROVE FALSE  OBVIOUS
      <4>1. Cardinality(Free(U[i - 1])) = 0  BY FS_EmptySet
      <4>2. Cardinality(S) <= Len(nodes)  BY DEF S
      <4> QED BY <1>0, <2>2, <2>3, <2>4, <2>5, <2>7, <4>1, <4>2
    <3>4. Orderly(U[i - 1])  BY <1>11, <2>1
    <3>5. Grown(U[i - 1], U[i], i, T.arr[i])
      <4>1. Fits(U[i - 1], i)  BY <1>12, <2>1, <3>3, <3>4, FreeFits
      <4> QED BY <1>12, <2>1, <2>7, <3>1, <3>2, <3>4, <4>1, InsertGrows
    <3>6. NodeEntries(U[i]) = NodeEntries(U[i - 1]) \cup {<<i, T.arr[i]>>}  BY <2>7, <3>5 DEF Grown
    <3>7. NodeEntries(U[i]) = Elements(T, Upto(S, i))  BY <2>2, <2>3, <2>5, <2>7, <3>6 DEF Elements
    <3>8. Cardinality(Free(U[i - 1])) <= Cardinality(Free(U[i])) + 1
      <4>1. PICK f \in {0} \cup DOMAIN U[i - 1].node : Free(U[i - 1]) \subseteq Free(U[i]) \cup {f}
        BY <3>5 DEF Grown
      <4> QED BY <1>12, <2>1, <4>1, FreeDrops
    <3>9. Cardinality(Free(U[i - 1])) \in Nat /\ Cardinality(Free(U[i])) \in Nat  BY <1>12, <2>1
    <3>10. Len(nodes) <= Cardinality(Free(U[i])) + Cardinality(Upto(S, i))
      BY <1>0, <2>2, <2>3, <2>4, <2>5, <2>7, <3>8, <3>9
    <3> QED BY <3>7, <3>10
  <2> QED BY <2>6, <2>7
<1>3. m \in Int /\ n \in Int  BY <1>0
<1> HIDE DEF G
<1>4. m..n \subseteq G
  <2> HIDE DEF n
  <2> QED BY <1>1, <1>2, <1>3, Upwards
<1> QED BY <1>4 DEF G

(* A key that is in use is in one node and not in the array. *)
LEMMA KeyOnce ==
  ASSUME program \in Programs, NEW T, IsTidy(T), NEW j \in Used(T)
  PROVE  /\ ~InArray(T, T.node[j].key) /\ T.node[j].key \in AllKeys /\ T.node[j].val \in Values
         /\ \A i \in Used(T) : T.node[i].key = T.node[j].key => i = j
<1>0. IsTable(T) /\ Orderly(T) /\ Used(T) \subseteq Live(T)  BY DEF IsTidy, Holds, Tidy, Orderly
<1>1. ~InArray(T, T.node[j].key)
  <2>1. T.node[j].key \in LiveKeys(T)  BY <1>0 DEF LiveKeys
  <2> QED BY <2>1 DEF IsTidy, Tidy, Apart
<1>2. <<T.node[j].key, T.node[j].val>> \in AllEntries  BY DEF IsTidy, Holds, NodesIn, NodeIn, Used
<1>3. \A i \in Used(T) : T.node[i].key = T.node[j].key => i = j  BY <1>0, OneNode
<1> QED BY <1>1, <1>2, <1>3 DEF AllEntries

(* With enough free nodes, a rehash loses nothing.                          *)
EntriesBefore(T, j) == {<<T.node[x].key, T.node[x].val>> : x \in Upto(Used(T), j)}
LEMMA RebuildContent ==
  ASSUME program \in Programs, NEW T, IsTidy(T), NEW n \in Sizes,
         NEW newt, IsTable(newt), NodesIn(newt.node, AllEntries), Orderly(newt),
         LiveKeys(newt) \subseteq n + 1..asize(T), NodeEntries(newt) = Elements(T, Vanishing(T, n)),
         Cardinality(Outside(T, n)) <= Cardinality(Free(newt)),
         NEW b, NEW V, Rebuilds(T, newt, n, b, V),
         \A j \in 0..Len(T.node) : V[j] \in Holding(AllEntries, n)
  PROVE  \A j \in 0..Len(T.node) :
           /\ IsTidy(V[j]) /\ Content(V[j]) = ArrayEntries(T) \cup EntriesBefore(T, j)
           /\ Cardinality(Free(newt)) <= Cardinality(Free(V[j])) + Cardinality(Upto(Outside(T, n), j))
<1> DEFINE N == Len(T.node)
           S == Outside(T, n)
           G == {j \in 0..N : /\ Content(V[j]) = ArrayEntries(T) \cup EntriesBefore(T, j)
                              /\ Cardinality(Free(newt)) <= Cardinality(Free(V[j])) + Cardinality(Upto(S, j))}
<1>0. /\ IsTable(T) /\ T \in Tables /\ T.node \in Seq(Nodes) /\ N \in Nat /\ DOMAIN T.node = 1..N
      /\ n \in Nat /\ asize(T) \in Nat /\ T.arr \in Seq(Values) /\ DOMAIN T.arr = 1..asize(T)
      /\ Holds(T, AllEntries) /\ Tidy(T)
  BY Powers, TableAssumption DEF IsTidy, Holds, IsTable, Tables, Sizes, asize
<1>1. /\ S \in SUBSET Int /\ IsFiniteSet(S) /\ Cardinality(S) \in Nat /\ Used(T) \in SUBSET Int
      /\ IsFiniteSet(Used(T)) /\ Cardinality(Free(newt)) \in Nat
  BY <1>0, FiniteParts
<1>2. ASSUME NEW j \in 0..N
      PROVE  /\ IsTable(V[j]) /\ asize(V[j]) = n /\ IsTidy(V[j])
             /\ LiveKeys(V[j]) \subseteq (n + 1..asize(T)) \cup (KeysBefore(T, j) \ 1..n)
             /\ V[j] \in Tables /\ IsFiniteSet(Free(V[j])) /\ Cardinality(Free(V[j])) \in Nat
  <2>1. Tidy(V[j]) /\ LiveKeys(V[j]) \subseteq (n + 1..asize(T)) \cup (KeysBefore(T, j) \ 1..n)
    BY <1>0, RebuildTidy
  <2>2. V[j] \in Tables /\ IsTable(V[j]) /\ asize(V[j]) = n /\ Holds(V[j], AllEntries)
    BY DEF Holding, Holds
  <2> QED BY <2>1, <2>2, FiniteParts DEF IsTidy
<1>3. 0 \in G
  <2>1. V[0] = b /\ 0 \in 0..N /\ b \in Tables /\ asize(b) = n
    <3>1. 0 \in 0..N  BY <1>0
    <3>2. V[0] = b  BY DEF Rebuilds, Reinserts
    <3> QED BY <1>2, <3>1, <3>2
  <2>2. b.node = newt.node /\ \A i \in 1..n : b.arr[i] = IF i <= asize(T) THEN T.arr[i] ELSE nil
    BY DEF Rebuilds
  <2>3. NodeEntries(b) = Elements(T, Vanishing(T, n)) /\ Free(b) = Free(newt)
    BY <2>2 DEF NodeEntries, Used, Free
  <2>4. DOMAIN b.arr = 1..n  BY <1>0, <2>1 DEF Tables, asize
  <2>5. Vanishing(b, 0) = Vanishing(T, 0) \ Vanishing(T, n)
    <3>1. \A i : i \in Vanishing(b, 0) <=> i \in 1..n /\ i <= asize(T) /\ T.arr[i] # nil
      BY <1>0, <2>2, <2>4 DEF Vanishing
    <3>2. \A i : i \in Vanishing(T, 0) \ Vanishing(T, n) <=> i \in 1..asize(T) /\ i <= n /\ T.arr[i] # nil
      BY <1>0 DEF Vanishing
    <3>3. \A i : i \in 1..n /\ i <= asize(T) <=> i \in 1..asize(T) /\ i <= n  BY <1>0
    <3> QED BY <3>1, <3>2, <3>3
  <2>6. \A i \in Vanishing(b, 0) : b.arr[i] = T.arr[i]  BY <1>0, <2>2, <2>4 DEF Vanishing
  <2>7. Vanishing(T, n) \subseteq Vanishing(T, 0)  BY <1>0 DEF Vanishing
  <2>8. Content(b) = ArrayEntries(T)
    <3>1. ArrayEntries(b) = Elements(T, Vanishing(T, 0) \ Vanishing(T, n))
      BY <2>5, <2>6 DEF ArrayEntries, Elements
    <3> QED BY <2>3, <2>7, <3>1 DEF Content, ArrayEntries, Elements
  <2> HIDE DEF S
  <2>9. Upto(Used(T), 0) = {}  BY <1>0 DEF Upto, Used
  <2>10. EntriesBefore(T, 0) = {}  BY <2>9 DEF EntriesBefore
  <2>11. Cardinality(Upto(S, 0)) \in Nat  BY <1>1, UptoIs
  <2> QED BY <1>1, <2>1, <2>3, <2>8, <2>10, <2>11
<1>4. ASSUME NEW j \in 0..N, j # 0, j - 1 \in G PROVE j \in G
  <2> DEFINE x == T.node[j].key
             v == T.node[j].val
             P == V[j - 1]
  <2>1. V[j] = (IF v = nil THEN P ELSE newcheckedkey(P, x, v)) /\ j \in 1..N /\ j - 1 \in 0..N /\ j \in Int
    <3>1. j \in 1..N /\ j - 1 \in 0..N /\ j \in Int  BY <1>0, <1>4
    <3>2. Reinserts(b, T.node, V)  BY DEF Rebuilds
    <3> QED BY <3>1, <3>2 DEF Reinserts
  <2>2. /\ Content(P) = ArrayEntries(T) \cup EntriesBefore(T, j - 1)
        /\ Cardinality(Free(newt)) <= Cardinality(Free(P)) + Cardinality(Upto(S, j - 1))
    BY <1>4
  <2>3. /\ IsTable(P) /\ asize(P) = n /\ IsTidy(P) /\ P \in Tables /\ Orderly(P)
        /\ LiveKeys(P) \subseteq (n + 1..asize(T)) \cup (KeysBefore(T, j - 1) \ 1..n)
        /\ IsFiniteSet(Free(P)) /\ Cardinality(Free(P)) \in Nat
    BY <1>2, <2>1 DEF IsTidy, Tidy
  <2>4. IsFiniteSet(Free(V[j])) /\ Cardinality(Free(V[j])) \in Nat  BY <1>2
  <2>5. /\ Upto(Used(T), j) = Upto(Used(T), j - 1) \cup ({j} \cap Used(T))
        /\ Cardinality(Upto(S, j)) \in Nat /\ Cardinality(Upto(S, j)) <= Cardinality(S)
        /\ Cardinality(Upto(S, j)) = Cardinality(Upto(S, j - 1)) + IF j \in S THEN 1 ELSE 0
    BY <1>1, <2>1, UptoIs
  <2>6. Cardinality(Upto(S, j - 1)) \in Nat
    <3>1. j - 1 \in Int  BY <2>1
    <3> QED BY <1>1, <3>1, UptoIs
  <2>7. j \in Used(T) <=> v # nil  BY <1>0, <2>1 DEF Used
  <2>8. j \in S <=> v # nil /\ x \notin 1..n  BY <2>7 DEF Outside
  <2>9. EntriesBefore(T, j) = EntriesBefore(T, j - 1) \cup (IF v # nil THEN {<<x, v>>} ELSE {})
    BY <2>5, <2>7 DEF EntriesBefore
  <2>10. CASE v = nil
    <3>1. V[j] = P  BY <2>1, <2>10
    <3> HIDE DEF S, P, v
    <3>2. j \notin S  BY <2>8, <2>10
    <3> QED BY <2>2, <2>5, <2>6, <2>9, <2>10, <3>1, <3>2
  <2>11. CASE v # nil
    <3>1. /\ j \in Used(T) /\ ~InArray(T, x) /\ x \in AllKeys /\ v \in Values
          /\ \A i \in Used(T) : T.node[i].key = x => i = j
      BY <2>7, <2>11, KeyOnce
    <3>2. \A i \in Upto(Used(T), j - 1) : T.node[i].key # x
      <4>1. ~(j <= j - 1)  BY <2>1
      <4> QED BY <3>1, <4>1 DEF Upto
    <3>3. Unused(P, x)
      <4> SUFFICES ASSUME NEW w, <<x, w>> \in Content(P) PROVE FALSE  BY DEF Unused
      <4>1. <<x, w>> \notin EntriesBefore(T, j - 1)  BY <3>2 DEF EntriesBefore
      <4>2. x \in Vanishing(T, 0)  BY <2>2, <4>1, Elements1 DEF ArrayEntries
      <4> QED BY <1>0, <3>1, <4>2 DEF Vanishing, InArray
    <3>4. x \notin KeysBefore(T, j - 1)  BY <3>2 DEF KeysBefore, Upto
    <3>5. Absent(P, x) \/ InArray(P, x)
      <4>1. x \notin n + 1..asize(T)
        <5>1. n + 1..asize(T) \subseteq 1..asize(T)  BY <1>0
        <5> QED BY <3>1, <5>1 DEF InArray
      <4>2. x \notin LiveKeys(P)  BY <2>3, <3>4, <4>1
      <4> QED BY <4>2 DEF Absent, LiveKeys
    <3>6. InArray(P, x) <=> j \notin S  BY <2>3, <2>8, <2>11 DEF InArray
    <3>7. InArray(P, x) \/ Fits(P, x)
      <4> SUFFICES ASSUME j \in S PROVE Fits(P, x)  BY <3>6
      <4>1. Free(P) # {}
        <5> HIDE DEF P, S, v, x
        <5> SUFFICES ASSUME Free(P) = {} PROVE FALSE  OBVIOUS
        <5>1. Cardinality(Free(P)) = 0  BY FS_EmptySet
        <5>2. Cardinality(S) <= Cardinality(Free(newt))  BY DEF S
        <5> QED BY <1>1, <2>2, <2>5, <2>6, <5>1, <5>2
      <4> QED BY <2>3, <4>1, FreeFits
    <3>8. /\ Content(V[j]) = Content(P) \cup {<<x, v>>}
          /\ InArray(P, x) => Free(V[j]) = Free(P)
          /\ \E f \in {0} \cup DOMAIN P.node : Free(P) \subseteq Free(V[j]) \cup {f}
      <4> HIDE DEF P, x, v
      <4>1. V[j] = newcheckedkey(P, x, v)  BY <2>1, <2>11
      <4> QED BY <2>3, <2>11, <3>1, <3>3, <3>5, <3>7, <4>1, NewcheckedContent
    <3>9. Cardinality(Free(P)) <= Cardinality(Free(V[j])) + 1
      <4>1. PICK f \in {0} \cup DOMAIN P.node : Free(P) \subseteq Free(V[j]) \cup {f}  BY <3>8
      <4> HIDE DEF P
      <4> QED BY <2>3, <2>4, <4>1, FreeDrops
    <3> HIDE DEF P, S, v, x
    <3>10. Content(V[j]) = ArrayEntries(T) \cup EntriesBefore(T, j)  BY <2>2, <2>9, <2>11, <3>8
    <3>11. CASE j \in S  BY <1>1, <2>2, <2>3, <2>4, <2>5, <2>6, <3>9, <3>10, <3>11
    <3>12. CASE j \notin S
      <4>1. Free(V[j]) = Free(P)  BY <3>6, <3>8, <3>12
      <4> QED BY <1>1, <2>2, <2>3, <2>5, <2>6, <3>10, <3>12, <4>1
    <3> QED BY <3>11, <3>12
  <2> QED BY <2>10, <2>11
<1>5. 0 \in Int /\ N \in Int  BY <1>0
<1> HIDE DEF G
<1>6. 0..N \subseteq G
  <2> HIDE DEF N
  <2> QED BY <1>3, <1>4, <1>5, Upwards
<1> QED BY <1>2, <1>6 DEF G

(* The nodes that a rehash and the new key need.                            *)
Required(T, n, k) == Cardinality(Outside(T, n)) + (IF k \in 1..n THEN 0 ELSE 1)
LEMMA RequiredIs ==
  ASSUME NEW T, IsTable(T), NEW n, NEW k
  PROVE  /\ Required(T, n, k) \in Nat /\ Cardinality(Outside(T, n)) \in Nat
         /\ Required(T, n, k) = Cardinality(Outside(T, n)) + (IF k \in 1..n THEN 0 ELSE 1)
<1> DEFINE c == Cardinality(Outside(T, n))
<1>1. c \in Nat  BY FiniteParts
<1>2. Required(T, n, k) = c + (IF k \in 1..n THEN 0 ELSE 1)  BY DEF Required
<1> HIDE DEF c
<1>3. Required(T, n, k) \in Nat  BY <1>1, <1>2
<1> QED BY <1>1, <1>2, <1>3 DEF c

LEMMA FinishContent ==
  ASSUME program \in Programs, IsTidy(t), pending.asize \in Sizes,
         pending.k \in AllKeys, pending.v \in Values, pending.v # nil,
         Absent(t, pending.k), ~InArray(t, pending.k),
         NEW newt, IsTable(newt), NodesIn(newt.node, AllEntries), Orderly(newt),
         LiveKeys(newt) \subseteq pending.asize + 1..asize(t),
         NodeEntries(newt) = Elements(t, Vanishing(t, pending.asize)),
         Required(t, pending.asize, pending.k) <= Cardinality(Free(newt)), Finish(newt)
  PROVE  IsTidy(t') /\ Content(t') = Content(t) \cup {<<pending.k, pending.v>>}
<1> DEFINE n == pending.asize
           k == pending.k
           v == pending.v
           T == FinishResize(t, newt, n)
           R == newcheckedkey(T, k, v)
           N == Len(t.node)
           S == Outside(t, n)
<1>0. /\ IsTable(t) /\ N \in Nat /\ DOMAIN t.node = 1..N /\ asize(t) \in Nat /\ n \in Nat
      /\ Holds(t, AllEntries) /\ Tidy(t) /\ DOMAIN t.arr = 1..asize(t)
  BY Powers, TableAssumption DEF IsTidy, Holds, IsTable, Tables, asize, Sizes
<1>1. PICK b, V : Rebuilds(t, newt, n, b, V) /\ \A j \in 0..N : V[j] \in Holding(AllEntries, n)
  BY <1>0, FinishResizeIs DEF Holds
<1>2. T = V[N] /\ N \in 0..N /\ N \in Int  BY <1>0, <1>1 DEF Rebuilds
<1> HIDE DEF T
<1>3. /\ Cardinality(Free(newt)) \in Nat /\ S \in SUBSET Int /\ IsFiniteSet(S)
      /\ Cardinality(S) \in Nat /\ Required(t, n, k) \in Nat
      /\ Required(t, n, k) = Cardinality(S) + (IF k \in 1..n THEN 0 ELSE 1)
      /\ Cardinality(Free(newt)) >= Required(t, n, k)
  BY <1>0, FiniteParts, RequiredIs
<1>4. Cardinality(S) <= Cardinality(Free(newt))
  <2> HIDE DEF S, k, n
  <2> QED BY <1>3
<1>5. /\ IsTidy(T) /\ Content(T) = ArrayEntries(t) \cup EntriesBefore(t, N)
      /\ Cardinality(Free(newt)) <= Cardinality(Free(T)) + Cardinality(Upto(S, N))
  BY <1>0, <1>1, <1>2, <1>4, RebuildContent
<1>6. Content(T) = Content(t)
  <2>1. Upto(Used(t), N) = Used(t)  BY <1>0 DEF Upto, Used
  <2>2. EntriesBefore(t, N) = NodeEntries(t)  BY <2>1 DEF EntriesBefore, NodeEntries
  <2> QED BY <1>5, <2>2 DEF Content
<1>7. /\ asize(T) = n /\ T \in Tables /\ T \in Holding(AllEntries, n) /\ IsTable(T) /\ Orderly(T) /\ Tidy(T)
      /\ NodesIn(T.node, AllEntries) /\ Cardinality(Free(T)) \in Nat
  <2>1. asize(T) = n /\ T \in Tables /\ T \in Holding(AllEntries, n) /\ IsTable(T) /\ NodesIn(T.node, AllEntries)
    BY <1>1, <1>2 DEF Holding
  <2>2. Orderly(T) /\ Tidy(T)  BY <1>5 DEF IsTidy, Tidy
  <2> QED BY <2>1, <2>2, FiniteParts
<1>8. Unused(t, k)
  <2> SUFFICES ASSUME NEW w, <<k, w>> \in Content(t) PROVE FALSE  BY DEF Unused
  <2>1. <<k, w>> \notin NodeEntries(t)  BY <1>0, NodeEntries1 DEF Absent, Tidy, Orderly
  <2>2. k \in DOMAIN t.arr  BY <2>1, Elements1 DEF Content, ArrayEntries, Vanishing
  <2> QED BY <1>0, <2>2 DEF InArray
<1>9. Unused(T, k)  BY <1>6, <1>8 DEF Unused
<1>10. Absent(T, k) \/ InArray(T, k)
  <2>1. LiveKeys(T) \subseteq (n + 1..asize(t)) \cup (KeysBefore(t, N) \ 1..n)
    BY <1>0, <1>1, <1>2, RebuildTidy
  <2>2. k \notin n + 1..asize(t)  BY <1>0 DEF InArray
  <2>3. \A i \in Used(t) : t.node[i].key # k  BY <1>0 DEF Absent, Tidy, Orderly
  <2>4. k \notin KeysBefore(t, N)  BY <2>3 DEF KeysBefore
  <2> QED BY <2>1, <2>2, <2>4 DEF Absent, LiveKeys
<1>11. InArray(T, k) \/ Fits(T, k)
  <2> SUFFICES ASSUME k \notin 1..n PROVE Fits(T, k)  BY <1>7 DEF InArray
  <2>1. Cardinality(Upto(S, N)) \in Nat /\ Cardinality(Upto(S, N)) <= Cardinality(S)
    BY <1>2, <1>3, UptoIs
  <2>2. Free(T) # {}
    <3> HIDE DEF S, k, n
    <3> SUFFICES ASSUME Free(T) = {} PROVE FALSE  OBVIOUS
    <3>1. Cardinality(Free(T)) = 0  BY FS_EmptySet
    <3> QED BY <1>3, <1>5, <2>1, <3>1
  <2> QED BY <1>7, <2>2, FreeFits
<1> HIDE DEF k, v, n
<1>12. /\ k \in AllKeys /\ v \in Values /\ v # nil  BY DEF k, v
<1>13. <<k, v>> \in AllEntries  BY <1>12 DEF AllEntries
<1>14. R \in Holding(AllEntries, n)  BY <1>7, <1>12, <1>13, NewcheckedIs
<1>15. Tidy(R)  BY <1>7, <1>10, <1>12, NewcheckedTidy
<1>16. Content(R) = Content(T) \cup {<<k, v>>}  BY <1>5, <1>9, <1>10, <1>11, <1>12, NewcheckedContent
<1>17. t' = R  BY DEF Finish, Assigned, T, k, v, n
<1> HIDE DEF R
<1>18. IsTidy(R)  BY <1>14, <1>15 DEF Holding, IsTidy, Holds
<1> QED BY <1>6, <1>16, <1>17, <1>18 DEF k, v

(* The sizes that a rehash chooses are enough (luaH_resize, rehash).        *)
LEMMA SplitSet ==
  ASSUME NEW S, IsFiniteSet(S), NEW A, NEW B, A \cup B = S, A \cap B = {}
  PROVE  /\ IsFiniteSet(A) /\ IsFiniteSet(B) /\ Cardinality(A) \in Nat /\ Cardinality(B) \in Nat
         /\ Cardinality(S) = Cardinality(A) + Cardinality(B)
<1>1. A \in SUBSET S /\ B \in SUBSET S  OBVIOUS
<1>2. IsFiniteSet(A) /\ IsFiniteSet(B)  BY <1>1, FS_Subset
<1>3. Cardinality(A \cup B) = Cardinality(A) + Cardinality(B) - Cardinality(A \cap B)  BY <1>2, FS_Union
<1>4. Cardinality(A) \in Nat /\ Cardinality(B) \in Nat  BY <1>2, FS_CardinalityType
<1>5. Cardinality({}) = 0  BY FS_EmptySet
<1>6. Cardinality(A \cap B) = 0  BY <1>5
<1>7. Cardinality(A \cup B) = Cardinality(A) + Cardinality(B)  BY <1>3, <1>4, <1>6
<1> QED BY <1>2, <1>4, <1>7

LEMMA SizesFit ==
  ASSUME program \in Programs, NEW T, IsTidy(T), NEW k \in AllKeys, ~InArray(T, k)
  PROVE  LET s == RehashSizes(T, k) IN
         Cardinality(Vanishing(T, s.asize)) + Required(T, s.asize, k) <= s.nsize
<1> DEFINE used  == Used(T)
           total == Cardinality(used) + 1
           img  == {T.node[i].key : i \in used}
           ints == (img \cup {k}) \cap arrayindex
           pres == {i \in DOMAIN T.arr : T.arr[i] # nil}
           all  == ints \cup pres
           na   == IF ints = {} THEN asize(T) ELSE computesizes(all)
           low  == {i \in all : i <= na}
           nh   == IF ints = {} THEN total ELSE total + Cardinality(all \ ints) - Cardinality(low)
           V    == Vanishing(T, na)
           O    == Outside(T, na)
           one  == IF k \in 1..na THEN 0 ELSE 1
<1>0. /\ IsTable(T) /\ T.node \in Seq(Nodes) /\ T.arr \in Seq(Values) /\ asize(T) \in Nat
      /\ DOMAIN T.arr = 1..asize(T) /\ twoto[MAXABITS] \in Nat
  BY Powers, TableAssumption DEF IsTidy, Holds, IsTable, Tables, asize
<1>1. RehashSizes(T, k).asize = na
      /\ RehashSizes(T, k).nsize \in {nh, nh + nh \div 4}
  BY DEF RehashSizes
<1>2. na \in Sizes /\ na \in Nat
  <2>1. na \in Sizes  BY <1>0, <1>1, SizesIs
  <2> HIDE DEF na
  <2> QED BY <1>0, <2>1 DEF Sizes
<1>3. /\ IsFiniteSet(used) /\ Cardinality(used) \in Nat /\ IsFiniteSet(O) /\ Cardinality(O) \in Nat
      /\ IsFiniteSet(V) /\ Cardinality(V) \in Nat
  <2> HIDE DEF na
  <2> QED BY <1>0, FiniteParts
<1>4. Required(T, na, k) = Cardinality(O) + one  BY <1>0, RequiredIs
<1>5. one \in 0..1  OBVIOUS
<1>6. IsFiniteSet(pres)
  <2>1. pres = Vanishing(T, 0)
    <3>1. \A i \in DOMAIN T.arr : i > 0  BY <1>0
    <3> QED BY <3>1 DEF Vanishing
  <2> QED BY <1>0, <2>1, FiniteParts
<1>7. nh >= Cardinality(V) + Cardinality(O) + one
  <2>1. CASE ints = {}
    <3>1. nh = Cardinality(used) + 1 /\ na = asize(T)  BY <2>1
    <3>2. V = {}
      <4>1. \A j \in DOMAIN T.arr : ~(j > asize(T))  BY <1>0
      <4> QED BY <3>1, <4>1 DEF Vanishing
    <3>3. O \in SUBSET used  BY DEF Outside
    <3> HIDE DEF O, V, used, nh, na, one
    <3>4. Cardinality(V) = 0  BY <3>2, FS_EmptySet
    <3>5. Cardinality(O) <= Cardinality(used)  BY <1>3, <3>3, FS_Subset
    <3> QED BY <1>3, <1>5, <3>1, <3>4, <3>5
  <2>2. CASE ints # {}
    <3> DEFINE A    == {i \in used : T.node[i].key \in 1..na}
               keys == {T.node[i].key : i \in A}
               il   == {i \in ints : i <= na}
               pl   == {i \in pres : i <= na}
    <3>0. nh = Cardinality(used) + 1 + Cardinality(all \ ints) - Cardinality(low)  BY <2>2
    <3>1. ints \cap pres = {}
      <4> SUFFICES ASSUME NEW x \in ints, x \in pres PROVE FALSE  OBVIOUS
      <4>1. InArray(T, x)  BY <1>0 DEF InArray
      <4>2. PICK i \in used : x = T.node[i].key  BY <4>1
      <4>3. ~InArray(T, T.node[i].key)  BY <4>2, KeyOnce
      <4> QED BY <4>1, <4>2, <4>3
    <3>2. all \ ints = pres  BY <3>1
    <3>3. used = O \cup A /\ O \cap A = {}  BY DEF Outside
    <3>4. pres = pl \cup V /\ pl \cap V = {}
      <4> HIDE DEF na
      <4>1. \A i \in DOMAIN T.arr : i <= na <=> ~(i > na)  BY <1>0, <1>2
      <4> QED BY <4>1 DEF Vanishing
    <3>5. low = il \cup pl /\ il \cap pl = {}  BY <3>1
    <3>6. il \subseteq keys \cup (IF k \in 1..na THEN {k} ELSE {})
      <4> HIDE DEF na
      <4> SUFFICES ASSUME NEW x \in il PROVE x \in keys \cup (IF k \in 1..na THEN {k} ELSE {})  OBVIOUS
      <4>1. x \in arrayindex /\ x <= na  OBVIOUS
      <4>2. x \in 1..na  BY <1>0, <1>2, <4>1 DEF arrayindex
      <4> QED BY <4>2
    <3> HIDE DEF O, V, used, na, ints, pres
    <3>7. /\ Cardinality(used) = Cardinality(O) + Cardinality(A) /\ IsFiniteSet(A)
          /\ Cardinality(A) \in Nat
      <4> HIDE DEF A
      <4>1. IsFiniteSet(used) /\ O \cup A = used /\ O \cap A = {}  BY <1>3, <3>3
      <4>2. Cardinality(used) = Cardinality(O) + Cardinality(A)  BY <4>1, SplitSet
      <4>3. IsFiniteSet(A) /\ Cardinality(A) \in Nat  BY <4>1, SplitSet
      <4> QED BY <4>2, <4>3
    <3>8. /\ Cardinality(pres) = Cardinality(pl) + Cardinality(V) /\ IsFiniteSet(pl)
          /\ Cardinality(pl) \in Nat
      <4> HIDE DEF pl
      <4>1. IsFiniteSet(pres) /\ pl \cup V = pres /\ pl \cap V = {}  BY <1>6, <3>4
      <4> QED BY <4>1, SplitSet
    <3>9. IsFiniteSet(keys) /\ Cardinality(keys) <= Cardinality(A) /\ Cardinality(keys) \in Nat
      <4> DEFINE f == [i \in A |-> T.node[i].key]
      <4>1. f \in Surjection(A, keys)  BY DEF Surjection
      <4> HIDE DEF f, keys, A
      <4> QED BY <3>7, <4>1, FS_Surjection, FS_CardinalityType
    <3>10. IsFiniteSet(il) /\ Cardinality(il) \in Nat /\ Cardinality(il) + one <= Cardinality(A) + 1
      <4> HIDE DEF keys, A, il
      <4>1. CASE k \in 1..na
        <5>1. il \subseteq keys \cup {k} /\ one = 0  BY <3>6, <4>1
        <5>2. IsFiniteSet(keys \cup {k}) /\ Cardinality(keys \cup {k}) \in Nat
              /\ Cardinality(keys \cup {k}) <= Cardinality(keys) + 1
          <6>1. /\ IsFiniteSet(keys \cup {k})
                /\ Cardinality(keys \cup {k}) = IF k \in keys THEN Cardinality(keys) ELSE Cardinality(keys) + 1
            BY <3>9, FS_AddElement
          <6> QED BY <3>9, <6>1
        <5>3. IsFiniteSet(il) /\ Cardinality(il) <= Cardinality(keys \cup {k}) /\ Cardinality(il) \in Nat
          <6>1. il \in SUBSET (keys \cup {k})  BY <5>1
          <6> QED BY <5>2, <6>1, FS_Subset, FS_CardinalityType
        <5> HIDE DEF one
        <5> QED BY <3>7, <3>9, <5>1, <5>2, <5>3
      <4>2. CASE k \notin 1..na
        <5>1. il \in SUBSET keys /\ one = 1  BY <3>6, <4>2
        <5>2. IsFiniteSet(il) /\ Cardinality(il) <= Cardinality(keys) /\ Cardinality(il) \in Nat
          BY <3>9, <5>1, FS_Subset, FS_CardinalityType
        <5> HIDE DEF one
        <5> QED BY <3>7, <3>9, <5>1, <5>2
      <4> QED BY <4>1, <4>2
    <3>11. Cardinality(low) = Cardinality(il) + Cardinality(pl)
      <4> HIDE DEF il, pl, low
      <4>1. IsFiniteSet(low)  BY <3>5, <3>8, <3>10, FS_Union
      <4> QED BY <3>5, <4>1, SplitSet
    <3>12. nh = Cardinality(used) + 1 + Cardinality(pres) - Cardinality(low)  BY <3>0, <3>2
    <3> HIDE DEF one, nh, low, il, pl, A, keys
    <3> QED BY <1>3, <1>5, <3>7, <3>8, <3>10, <3>11, <3>12
  <2> QED BY <2>1, <2>2
<1>8. nh \in Int /\ nh >= 0 => nh + nh \div 4 >= nh
  <2> HIDE DEF nh
  <2> QED OBVIOUS
<1> HIDE DEF nh, O, V, one, na
<1>9. RehashSizes(T, k).nsize \in Nat  BY <1>0, SizesIs
<1> SUFFICES Cardinality(V) + Required(T, na, k) <= RehashSizes(T, k).nsize  BY <1>1 DEF V
<1>10. CASE RehashSizes(T, k).nsize = nh  BY <1>3, <1>4, <1>5, <1>7, <1>9, <1>10
<1>11. CASE RehashSizes(T, k).nsize = nh + nh \div 4
  <2>1. nh \in Int
    <3>1. Cardinality(all \ ints) \in Nat /\ Cardinality(low) \in Nat
      <4>1. IsFiniteSet(ints)
        <5>1. IsFiniteSet(img)
          <6> DEFINE f == [i \in used |-> T.node[i].key]
          <6>1. f \in Surjection(used, img)  BY DEF Surjection
          <6> HIDE DEF f, img, used
          <6> QED BY <1>3, <6>1, FS_Surjection
        <5> HIDE DEF img
        <5>2. IsFiniteSet(img \cup {k})  BY <5>1, FS_AddElement
        <5>3. ints \in SUBSET (img \cup {k})  OBVIOUS
        <5> HIDE DEF ints
        <5> QED BY <5>2, <5>3, FS_Subset
      <4> HIDE DEF ints, pres
      <4>2. IsFiniteSet(all)  BY <1>6, <4>1, FS_Union
      <4>3. all \ ints \in SUBSET all /\ low \in SUBSET all  OBVIOUS
      <4> HIDE DEF all, low
      <4>4. IsFiniteSet(all \ ints) /\ IsFiniteSet(low)  BY <4>2, <4>3, FS_Subset
      <4> QED BY <4>4, FS_CardinalityType
    <3>2. nh \in {total, total + Cardinality(all \ ints) - Cardinality(low)}  BY DEF nh
    <3> HIDE DEF all, ints, low, used
    <3> QED BY <1>3, <3>1, <3>2
  <2> QED BY <1>3, <1>4, <1>5, <1>7, <1>8, <1>9, <1>11, <2>1
<1> QED BY <1>1, <1>10, <1>11

LEMMA VectorFits ==
  ASSUME NEW n \in 0..twoto[MAXHBITS]
  PROVE  Len(setnodevector(n)) \in Nat /\ n <= Len(setnodevector(n))
<1> DEFINE l == IF n = 0 THEN 0 ELSE twoto[Ceillog2(n)]
<1>0. MAXHBITS \in 0..MAXABITS /\ MAXABITS \in Nat  BY TableAssumption
<1>1. l \in Nat /\ n <= l
  <2>1. CASE n = 0  BY <2>1
  <2>2. CASE n # 0  BY <1>0, <2>2, CeilIs, Powers
  <2> QED BY <2>1, <2>2
<1>2. setnodevector(n) = [i \in 1..l |-> Node] \o <<>>  BY DEF setnodevector
<1> HIDE DEF l
<1>3. [i \in 1..l |-> Node] \in Seq({Node}) /\ Len([i \in 1..l |-> Node]) = l  BY <1>1
<1>4. Len([i \in 1..l |-> Node] \o <<>>) = l  BY <1>1, <1>3
<1> QED BY <1>1, <1>2, <1>4

(* A resize has room for the old entries and the new key, also after a      *)
(* collection; an array that shrinks keeps what was copied.                 *)
RoomInv ==
  ~Idle =>
    /\ pending.v # nil
    /\ pending.newt = none =>
         Cardinality(Vanishing(t, pending.asize)) + Required(t, pending.asize, pending.k) <= pending.nsize
    /\ pending.newt # none =>
         /\ NodeEntries(pending.newt) = Elements(t, Vanishing(t, pending.asize))
         /\ Required(t, pending.asize, pending.k) <= Cardinality(Free(pending.newt))

LEMMA NewNodesContent ==
  ASSUME program \in Programs, Holds(t, AllEntries), Tidy(t), pending.asize \in Sizes, pending.nsize \in Nat,
         pending.nsize <= twoto[MAXHBITS], NEW k,
         Cardinality(Vanishing(t, pending.asize)) + Required(t, pending.asize, k) <= pending.nsize
  PROVE  LET newt == reinsertOldSlice(t, pending.asize, setnodevector(pending.nsize)) IN
         /\ NodeEntries(newt) = Elements(t, Vanishing(t, pending.asize))
         /\ Required(t, pending.asize, k) <= Cardinality(Free(newt))
<1> DEFINE nodes == setnodevector(pending.nsize)
           newt == reinsertOldSlice(t, pending.asize, nodes)
           m == Min({pending.asize, asize(t)})
           n == pending.asize
           V == Vanishing(t, m)
<1>0. /\ IsTable(t) /\ t.arr \in Seq(Values) /\ DOMAIN t.arr = 1..asize(t)
      /\ asize(t) \in Nat /\ n \in Nat /\ ArrayIn(t.arr, AllEntries)
  BY Powers, TableAssumption DEF Holds, IsTable, Tables, asize, Sizes
<1>1. pending.nsize \in 0..twoto[MAXHBITS]
  <2>1. MAXHBITS \in 0..MAXABITS  BY TableAssumption
  <2> QED BY <2>1, Powers
<1>2. /\ nodes \in Seq(Nodes) /\ NodesIn(nodes, {}) /\ LinksIn(nodes)
      /\ \A i \in DOMAIN nodes : nodes[i] = Node
  BY <1>1, SetNodesIs
<1>3. Len(nodes) \in Nat /\ pending.nsize <= Len(nodes)  BY <1>1, VectorFits
<1>4. m = IF n <= asize(t) THEN n ELSE asize(t)  BY <1>0, MinOfTwo
<1> HIDE DEF nodes, m, newt
<1>5. Vanishing(t, n) = V
  <2>1. \A j \in DOMAIN t.arr : j > n <=> j > m  BY <1>0, <1>4
  <2> QED BY <2>1 DEF Vanishing
<1>6. \A i \in m + 1..asize(t) : t.arr[i] # nil => <<i, t.arr[i]>> \in AllEntries
  BY <1>0, <1>4 DEF ArrayIn
<1>7. \A i \in n + 1..asize(t) : t.arr[i] # nil => <<i, t.arr[i]>> \in AllEntries
  BY <1>0 DEF ArrayIn
<1>8. PICK U : /\ Slices(t, m, nodes, U) /\ \A i \in m..asize(t) : U[i] \in SliceTables(t, AllEntries)
               /\ newt = U[asize(t)]
  BY <1>0, <1>2, <1>7, OldSliceIs DEF newt, m
<1>9. m \in Nat /\ m <= asize(t) /\ asize(t) \in m..asize(t)  BY <1>0, <1>4
<1>10. Cardinality(V) \in Nat /\ Required(t, n, k) \in Nat  BY <1>0, FiniteParts, RequiredIs
<1>11. Cardinality(V) + Required(t, n, k) <= Len(nodes)  BY <1>3, <1>5, <1>10
<1>12. Cardinality(V) <= Len(nodes)
  <2> HIDE DEF V, n
  <2> QED BY <1>3, <1>10, <1>11
<1>13. /\ NodeEntries(newt) = Elements(t, Upto(V, asize(t)))
       /\ Len(nodes) <= Cardinality(Free(newt)) + Cardinality(Upto(V, asize(t)))
  BY <1>0, <1>2, <1>6, <1>8, <1>9, <1>12, SlicesContent
<1>14. Upto(V, asize(t)) = V  BY <1>0 DEF Upto, Vanishing
<1>15. Cardinality(Free(newt)) \in Nat
  <2>1. IsTable(newt)  BY <1>8, <1>9 DEF SliceTables
  <2> QED BY <2>1, FiniteParts
<1>16. Required(t, n, k) <= Cardinality(Free(newt))
  <2>1. Len(nodes) <= Cardinality(Free(newt)) + Cardinality(V)  BY <1>13, <1>14
  <2> HIDE DEF V, n
  <2> QED BY <1>3, <1>10, <1>11, <1>15, <2>1
<1> QED BY <1>5, <1>13, <1>14, <1>16 DEF newt, nodes

(* A collection leaves no less room. *)
LEMMA CollectedRoom ==
  ASSUME program \in Programs, Holds(t, AllEntries), Tidy(t), NEW n \in Nat, NEW k
  PROVE  LET R == Collected IN
         /\ Required(R, n, k) <= Required(t, n, k) /\ Required(R, n, k) \in Nat
         /\ Cardinality(Vanishing(R, n)) <= Cardinality(Vanishing(t, n))
         /\ Cardinality(Vanishing(R, n)) \in Nat
         /\ n >= asize(t) \/ R.arr = t.arr => Elements(R, Vanishing(R, n)) = Elements(t, Vanishing(t, n))
<1> DEFINE R == Collected
<1>1. /\ IsTable(t) /\ IsTable(R) /\ Clears(R) /\ asize(R) = asize(t)
      /\ DOMAIN t.arr = 1..asize(t) /\ DOMAIN R.arr = 1..asize(R) /\ asize(t) \in Nat
  BY CollectedTidy DEF Holds, IsTable, Tables, asize
<1> HIDE DEF R
<1>2. Vanishing(R, n) \in SUBSET Vanishing(t, n)  BY <1>1 DEF Vanishing, Clears
<1>3. Outside(R, n) \in SUBSET Outside(t, n)
  <2>1. Used(R) \subseteq Used(t)  BY <1>1 DEF Used, Clears
  <2>2. \A i \in Used(t) : R.node[i].key = t.node[i].key  BY <1>1 DEF Used, Clears
  <2> QED BY <2>1, <2>2 DEF Outside
<1>4. /\ IsFiniteSet(Vanishing(t, n)) /\ Cardinality(Vanishing(t, n)) \in Nat
      /\ IsFiniteSet(Outside(t, n)) /\ Cardinality(Outside(t, n)) \in Nat
      /\ Cardinality(Vanishing(R, n)) \in Nat /\ Cardinality(Outside(R, n)) \in Nat
  BY <1>1, FiniteParts
<1>5. Cardinality(Vanishing(R, n)) <= Cardinality(Vanishing(t, n))  BY <1>2, <1>4, FS_Subset
<1>6. Cardinality(Outside(R, n)) <= Cardinality(Outside(t, n))  BY <1>3, <1>4, FS_Subset
<1>7. /\ Required(R, n, k) = Cardinality(Outside(R, n)) + (IF k \in 1..n THEN 0 ELSE 1)
      /\ Required(t, n, k) = Cardinality(Outside(t, n)) + (IF k \in 1..n THEN 0 ELSE 1)
      /\ Required(R, n, k) \in Nat
  BY <1>1, RequiredIs
<1>8. Required(R, n, k) <= Required(t, n, k)  BY <1>4, <1>6, <1>7
<1>9. ASSUME n >= asize(t) \/ R.arr = t.arr
      PROVE  Elements(R, Vanishing(R, n)) = Elements(t, Vanishing(t, n))
  <2>1. CASE n >= asize(t)
    <3>1. \A j \in 1..asize(t) : ~(j > n)  BY <1>1, <2>1
    <3>2. Vanishing(R, n) = {} /\ Vanishing(t, n) = {}  BY <1>1, <3>1 DEF Vanishing
    <3> QED BY <3>2 DEF Elements
  <2>2. CASE R.arr = t.arr  BY <2>2 DEF Elements, Vanishing
  <2> QED BY <1>9, <2>1, <2>2
<1> QED BY <1>4, <1>5, <1>7, <1>8, <1>9 DEF R

LEMMA RoomStep ==
  ASSUME Shrinkable
  PROVE  TypeInv /\ ChainInv /\ RoomInv /\ [Next]_vars => RoomInv'
<1> SUFFICES ASSUME TypeInv, ChainInv, RoomInv, [Next]_vars PROVE RoomInv'  OBVIOUS
<1>0. program \in Programs /\ Holds(t, AllEntries) /\ Tidy(t) /\ IsTidy(t) /\ IsTable(t)
  BY DEF TypeInv, ChainInv, IsTidy, Holds
<1>11. ASSUME ~Idle
       PROVE  /\ pending.asize \in Sizes /\ pending.asize \in Nat /\ pending.nsize \in Nat
              /\ pending \in Resizes /\ pending.v # nil
              /\ pending.newt # none => IsTable(pending.newt)
  <2>1. /\ pending.asize \in Sizes /\ pending.nsize \in Nat /\ pending \in Resizes
        /\ pending.newt # none => IsTable(pending.newt)
    BY <1>11, PendingIs
  <2>2. twoto[MAXABITS] \in Nat  BY Powers, TableAssumption
  <2> QED BY <1>11, <2>1, <2>2 DEF Sizes, RoomInv
(* What an action has to show. *)
<1>12. ASSUME \/ pending' = none
              \/ /\ pending'.v # nil
                 /\ pending'.newt = none =>
                      Cardinality(Vanishing(t', pending'.asize)) + Required(t', pending'.asize, pending'.k)
                        <= pending'.nsize
                 /\ pending'.newt # none =>
                      /\ NodeEntries(pending'.newt) = Elements(t', Vanishing(t', pending'.asize))
                      /\ Required(t', pending'.asize, pending'.k) <= Cardinality(Free(pending'.newt))
       PROVE  RoomInv'
  BY <1>12 DEF RoomInv, Idle, Vanishing, Required, Outside, Used, NodeEntries, Elements, Free
<1>13. ASSUME UNCHANGED <<t, pending>> PROVE RoomInv'
  <2>1. CASE Idle  BY <1>12, <1>13, <2>1 DEF Idle
  <2>2. CASE ~Idle  BY <1>12, <1>13, <2>2 DEF RoomInv
  <2> QED BY <2>1, <2>2
<1>1. CASE UNCHANGED vars  BY <1>1, <1>13 DEF vars
<1>2. CASE Set
  <2>1. PICK k \in AllKeys, v \in Values :
          \/ pending' = none
          \/ /\ ~InArray(t, k) /\ v # nil /\ UNCHANGED t
             /\ pending' = [k |-> k, v |-> v, newt |-> none, asize |-> RehashSizes(t, k).asize,
                            nsize |-> RehashSizes(t, k).nsize]
    BY <1>0, <1>2, SetCases DEF SetTo, Assigned
  <2>2. CASE pending' = none  BY <1>12, <2>2
  <2>3. CASE pending' # none
    <3>1. /\ pending'.newt = none /\ pending'.k = k /\ pending'.v = v
          /\ pending'.asize = RehashSizes(t, k).asize /\ pending'.nsize = RehashSizes(t, k).nsize
      BY <1>0, <2>1, <2>3, NewPending
    <3>2. LET s == RehashSizes(t, k) IN
          Cardinality(Vanishing(t, s.asize)) + Required(t, s.asize, k) <= s.nsize
      BY <1>0, <2>1, <2>3, SizesFit
    <3> QED BY <1>12, <2>1, <2>3, <3>1, <3>2
  <2> QED BY <2>2, <2>3
<1>3. CASE AllocNodes
  <2> DEFINE newt == reinsertOldSlice(t, pending.asize, setnodevector(pending.nsize))
  <2>1. /\ ~Idle /\ pending.newt = none /\ pending.nsize <= twoto[MAXHBITS]
        /\ \/ Finish(newt)
           \/ pending' = [pending EXCEPT !.newt = newt] /\ UNCHANGED t
    BY <1>3 DEF AllocNodes
  <2>2. Cardinality(Vanishing(t, pending.asize)) + Required(t, pending.asize, pending.k) <= pending.nsize
    BY <2>1 DEF RoomInv
  <2>3. /\ NodeEntries(newt) = Elements(t, Vanishing(t, pending.asize))
        /\ Required(t, pending.asize, pending.k) <= Cardinality(Free(newt))
    BY <1>0, <1>11, <2>1, <2>2, NewNodesContent
  <2> HIDE DEF newt
  <2>4. CASE Finish(newt)  BY <1>12, <2>4 DEF Finish, Assigned
  <2>5. CASE pending' = [pending EXCEPT !.newt = newt] /\ UNCHANGED t
    <3>1. /\ pending'.newt = newt /\ pending'.k = pending.k /\ pending'.asize = pending.asize
          /\ pending'.v = pending.v /\ pending'.nsize = pending.nsize
      BY <1>11, <2>1, <2>5 DEF Resizes
    <3> QED BY <1>11, <1>12, <2>1, <2>2, <2>3, <2>5, <3>1
  <2> QED BY <2>1, <2>4, <2>5
<1>4. CASE AllocArray  BY <1>4, <1>12 DEF AllocArray, Finish, Assigned
<1>5. CASE AllocFails  BY <1>5, <1>12 DEF AllocFails
<1>6. CASE luaH_getn_hint  BY <1>6, <1>12 DEF luaH_getn_hint, Idle
<1>7. CASE StartTraversal \/ Traverse \/ Forgets  BY <1>7, <1>13 DEF StartTraversal, Traverse, Forgets
<1>8. CASE Collect
  <2>1. t' = Collected /\ UNCHANGED <<program, pending>> /\ (Shrinking /\ Weak("v") => ShrinkFails)
    BY <1>8 DEF Collect
  <2>2. CASE Idle  BY <1>12, <2>1, <2>2 DEF Idle
  <2>3. CASE ~Idle
    <3> DEFINE n == pending.asize
               k == pending.k
               R == Collected
    <3>1. /\ Required(R, n, k) <= Required(t, n, k) /\ Required(R, n, k) \in Nat
          /\ Cardinality(Vanishing(R, n)) <= Cardinality(Vanishing(t, n))
          /\ Cardinality(Vanishing(R, n)) \in Nat
          /\ n >= asize(t) \/ R.arr = t.arr => Elements(R, Vanishing(R, n)) = Elements(t, Vanishing(t, n))
      BY <1>0, <1>11, <2>3, CollectedRoom
    <3>2. /\ Required(t, n, k) \in Nat /\ Cardinality(Vanishing(t, n)) \in Nat
          /\ pending.newt # none => Cardinality(Free(pending.newt)) \in Nat
      BY <1>0, <1>11, <2>3, FiniteParts, RequiredIs
    <3>3. ~Weak("v") => R.arr = t.arr  BY <1>0, CollectedTidy
    <3>4. pending.newt # none => n >= asize(t) \/ ~Weak("v")
      <4>1. Shrinking => ~Weak("v")  BY <1>0, <2>1 DEF Shrinkable, Weak
      <4>2. n \in Nat /\ asize(t) \in Nat  BY <1>0, <1>11, <2>3 DEF IsTable, Tables, asize
      <4> QED BY <2>3, <4>1, <4>2 DEF Shrinking
    <3> HIDE DEF R
    <3>5. CASE pending.newt = none
      <4>1. Cardinality(Vanishing(t, n)) + Required(t, n, k) <= pending.nsize  BY <2>3, <3>5 DEF RoomInv
      <4> HIDE DEF n, k
      <4>2. Cardinality(Vanishing(R, n)) + Required(R, n, k) <= pending.nsize
        BY <1>11, <2>3, <3>1, <3>2, <4>1
      <4> QED BY <1>11, <1>12, <2>1, <2>3, <3>5, <4>2 DEF n, k, R
    <3>6. CASE pending.newt # none
      <4>1. NodeEntries(pending.newt) = Elements(t, Vanishing(t, n)) /\ Required(t, n, k) <= Cardinality(Free(pending.newt))
        BY <2>3, <3>6 DEF RoomInv
      <4>2. Elements(R, Vanishing(R, n)) = Elements(t, Vanishing(t, n))  BY <3>1, <3>3, <3>4, <3>6
      <4> HIDE DEF n, k
      <4>3. Required(R, n, k) <= Cardinality(Free(pending.newt))  BY <3>1, <3>2, <3>6, <4>1
      <4> QED BY <1>11, <1>12, <2>1, <2>3, <3>6, <4>1, <4>2, <4>3 DEF n, k, R
    <3> QED BY <3>5, <3>6
  <2> QED BY <2>2, <2>3
<1> QED BY <1>1, <1>2, <1>3, <1>4, <1>5, <1>6, <1>7, <1>8 DEF Next

------------------------------------------------------------------------------
(* ---- what the steps do to the map ---- *)
NewValues(k, v) == \A x \in AllKeys : luaH_get(t', x) = IF x = k THEN v ELSE luaH_get(t, x)
SamePlaces(R)   == \A x \in AllKeys \cup {nil} : findindex(R, x) = findindex(t, x)

(* A key that is neither in the array nor in a node that is alive has no value. *)
LEMMA UnusedHere ==
  ASSUME program \in Programs, IsTidy(t), NEW k \in AllKeys, Absent(t, k), ~InArray(t, k)
  PROVE  Unused(t, k) /\ luaH_get(t, k) = nil
<1>0. DOMAIN t.arr = 1..asize(t) /\ Used(t) \subseteq Live(t)
  BY DEF IsTidy, Holds, IsTable, Tables, asize, Tidy, Orderly
<1>1. Unused(t, k)
  <2> SUFFICES ASSUME NEW w, <<k, w>> \in Content(t) PROVE FALSE  BY DEF Unused
  <2>1. <<k, w>> \notin NodeEntries(t)  BY <1>0, NodeEntries1 DEF Absent
  <2>2. k \in DOMAIN t.arr  BY <2>1, Elements1 DEF Content, ArrayEntries, Vanishing
  <2> QED BY <1>0, <2>2 DEF InArray
<1> QED BY <1>1, UnusedIs

(* What an assignment does to the traversal. *)
Marks(k, v) == /\ pending' = none
               /\ IF luaH_get(t, k) = nil /\ v # nil THEN key' = none /\ left' = {}
                  ELSE UNCHANGED key /\ left' = (IF v = nil THEN left \ {k} ELSE left)
Effect(k, v) == Marks(k, v) /\ NewValues(k, v) /\ ((luaH_get(t, k) = nil /\ v # nil) \/ SamePlaces(t'))

LEMMA EffectIs ==
  ASSUME NEW k, NEW v, NEW R, Assigned(R, k, v),
         \A x \in AllKeys : luaH_get(R, x) = IF x = k THEN v ELSE luaH_get(t, x),
         (luaH_get(t, k) = nil /\ v # nil) \/ SamePlaces(R)
  PROVE  Effect(k, v)
<1>1. t' = R /\ Marks(k, v)  BY DEF Assigned, Marks
<1>2. NewValues(k, v)  BY <1>1 DEF NewValues
<1>3. SamePlaces(R) => SamePlaces(t')  BY <1>1 DEF SamePlaces
<1> QED BY <1>1, <1>2, <1>3 DEF Effect

LEMMA ArrayEffect ==
  ASSUME TypeInv, NEW k \in AllKeys, InArray(t, k), NEW v \in Values, Assigned([t EXCEPT !.arr[k] = v], k, v)
  PROVE  Effect(k, v)
<1> DEFINE R == [t EXCEPT !.arr[k] = v]
<1>0. program \in Programs /\ IsTable(t)  BY DEF TypeInv, Holds
<1>1. /\ IsTable(R) /\ asize(R) = asize(t) /\ R.node = t.node
      /\ \A x \in AllKeys : luaH_get(R, x) = IF x = k THEN v ELSE luaH_get(t, x)
  BY <1>0, ArraySetIs
<1>2. Assigned(R, k, v)  OBVIOUS
<1> HIDE DEF R
<1>3. ASSUME NEW x \in AllKeys \cup {nil} PROVE findindex(R, x) = findindex(t, x)
  BY <1>0, <1>1, SamePlace
<1> QED BY <1>1, <1>2, <1>3, EffectIs DEF SamePlaces

LEMMA NodeEffect ==
  ASSUME TypeInv, NEW k \in AllKeys, ~InArray(t, k), NEW v \in Values,
         getgeneric(t, k, FALSE) # 0, Assigned(Valued(t, getgeneric(t, k, FALSE), v), k, v)
  PROVE  Effect(k, v)
<1> DEFINE p == getgeneric(t, k, FALSE)
           R == Valued(t, p, v)
<1>0. program \in Programs /\ IsTable(t) /\ Holds(t, AllEntries)  BY DEF TypeInv, Holds
<1>2. /\ Holds(R, AllEntries) /\ Revalued(t, R, p, v)
      /\ \A x \in AllKeys : luaH_get(R, x) = IF x = k THEN v ELSE luaH_get(t, x)
  <2>1. Holds(R, AllEntries) /\ Revalued(t, R, p, v)  BY <1>0, NodeSetIs
  <2>2. Changed(t, R, k, v)  BY <1>0, NodeSetIs
  <2> HIDE DEF R, p
  <2> QED BY <2>1, <2>2 DEF Changed
<1> HIDE DEF R, p
<1>3. /\ IsTable(R) /\ asize(R) = asize(t) /\ DOMAIN R.node = DOMAIN t.node /\ Len(R.node) = Len(t.node)
      /\ \A i \in DOMAIN t.node : R.node[i].next = t.node[i].next /\ R.node[i].key = t.node[i].key
  BY <1>2 DEF Holds, Revalued, asize
<1>4. ASSUME NEW x \in AllKeys \cup {nil} PROVE findindex(R, x) = findindex(t, x)
  BY <1>0, <1>3, SamePlace
<1> QED BY <1>2, <1>4, EffectIs DEF SamePlaces, R, p

LEMMA InsertEffect ==
  ASSUME TypeInv, ChainInv, NEW k \in AllKeys, ~InArray(t, k), NEW v \in Values, v # nil,
         getgeneric(t, k, FALSE) = 0, Fits(t, k), Assigned(insertkey(t, k, v), k, v)
  PROVE  Effect(k, v)
<1>0. /\ program \in Programs /\ Holds(t, AllEntries) /\ Tidy(t) /\ IsTidy(t) /\ IsTable(t) /\ Orderly(t)
      /\ NodesIn(t.node, AllEntries)
  BY DEF TypeInv, ChainInv, IsTidy, Tidy, Holds
<1> DEFINE R == insertkey(t, k, v)
<1>1. newcheckedkey(t, k, v) = R  BY DEF newcheckedkey
<1>2. Absent(t, k)  BY <1>0, NotFound
<1>3. Unused(t, k) /\ luaH_get(t, k) = nil  BY <1>0, <1>2, UnusedHere
<1>4. IsTable(R) /\ Same(R, t) /\ NodesIn(R.node, AllEntries)
  <2>1. AllEntries \in SUBSET AllEntries /\ <<k, v>> \in AllEntries  BY DEF AllEntries
  <2> QED BY <1>0, <2>1, InsertIs
<1>5. Tidy(R)  BY <1>0, <1>1, <1>2, NewcheckedTidy
<1>6. Content(R) = Content(t) \cup {<<k, v>>}  BY <1>0, <1>1, <1>2, <1>3, NewcheckedContent
<1>7. Assigned(R, k, v)  OBVIOUS
<1> HIDE DEF R
<1>8. IsTidy(R)  BY <1>0, <1>4, <1>5 DEF IsTidy, Holds, Same
<1>9. ASSUME NEW x \in AllKeys PROVE luaH_get(R, x) = IF x = k THEN v ELSE luaH_get(t, x)
  <2>1. \A y, w : <<y, w>> \in Content(R) <=> <<y, w>> \in Content(t) \/ (y = k /\ w = v)
    BY <1>6
  <2> QED BY <1>0, <1>8, <2>1, AddedIs
<1> QED BY <1>3, <1>7, <1>9, EffectIs

(* An assignment that needs no rehash changes one key, one that does changes none. *)
LEMMA SetEffect ==
  ASSUME TypeInv, ChainInv, Set
  PROVE  /\ UNCHANGED <<program, held>>
         /\ UNCHANGED <<t, key, left>> \/ \E k \in AllKeys, v \in Values : Effect(k, v)
<1>0. program \in Programs /\ IsTable(t)  BY DEF TypeInv, Holds
<1>1. PICK k \in AllKeys, v \in Values :
        LET p == getgeneric(t, k, FALSE) IN
        /\ <<k, v>> \in AllEntries /\ UNCHANGED <<program, held>>
        /\ \/ InArray(t, k) /\ Assigned([t EXCEPT !.arr[k] = v], k, v)
           \/ ~InArray(t, k) /\ p # 0 /\ Assigned([t EXCEPT !.node[p].val = v], k, v)
           \/ ~InArray(t, k) /\ p = 0 /\ v = nil /\ Assigned(t, k, v)
           \/ ~InArray(t, k) /\ p = 0 /\ v # nil /\ Fits(t, k) /\ Assigned(insertkey(t, k, v), k, v)
           \/ UNCHANGED <<t, key, left>>
  BY <1>0, SetCases DEF SetTo
<1> DEFINE p == getgeneric(t, k, FALSE)
<1>2. p = getgeneric(t, k, FALSE)  OBVIOUS
<1> HIDE DEF p
<1>3. ASSUME InArray(t, k), Assigned([t EXCEPT !.arr[k] = v], k, v) PROVE Effect(k, v)  BY <1>3, ArrayEffect
<1>4. ASSUME ~InArray(t, k), p # 0, Assigned([t EXCEPT !.node[p].val = v], k, v) PROVE Effect(k, v)
  BY <1>2, <1>4, NodeEffect DEF Valued
<1>5. ASSUME ~InArray(t, k), p = 0, v = nil, Assigned(t, k, v) PROVE Effect(k, v)
  <2>1. luaH_get(t, k) = nil  BY <1>2, <1>5 DEF luaH_get
  <2>2. SamePlaces(t)  BY DEF SamePlaces
  <2> QED BY <1>5, <2>1, <2>2, EffectIs
<1>6. ASSUME ~InArray(t, k), p = 0, v # nil, Fits(t, k), Assigned(insertkey(t, k, v), k, v) PROVE Effect(k, v)
  BY <1>2, <1>6, InsertEffect
<1> QED BY <1>1, <1>2, <1>3, <1>4, <1>5, <1>6

(* A resize ends with the assignment that asked for it. *)
LEMMA FinishEffect ==
  ASSUME TypeInv, ChainInv, ~Idle, pending.v # nil,
         NEW newt, IsTable(newt), NodesIn(newt.node, AllEntries), Orderly(newt),
         LiveKeys(newt) \subseteq pending.asize + 1..asize(t),
         NodeEntries(newt) = Elements(t, Vanishing(t, pending.asize)),
         Required(t, pending.asize, pending.k) <= Cardinality(Free(newt)), Finish(newt)
  PROVE  Effect(pending.k, pending.v) /\ luaH_get(t, pending.k) = nil
<1>0. /\ program \in Programs /\ IsTidy(t) /\ pending.k \in AllKeys /\ pending.v \in Values
      /\ pending.asize \in Sizes /\ Absent(t, pending.k) /\ ~InArray(t, pending.k)
  BY PendingIs DEF TypeInv, ChainInv, IsTidy
<1>1. IsTidy(t') /\ Content(t') = Content(t) \cup {<<pending.k, pending.v>>}  BY <1>0, FinishContent
<1>2. luaH_get(t, pending.k) = nil  BY <1>0, UnusedHere
<1>3. Assigned(t', pending.k, pending.v)  BY DEF Finish, Assigned
<1> DEFINE R == t'
<1>4. IsTidy(R) /\ Content(R) = Content(t) \cup {<<pending.k, pending.v>>}  BY <1>1
<1>5. R = t'  OBVIOUS
<1> HIDE DEF R
<1>6. ASSUME NEW k, NEW v, k = pending.k, v = pending.v, NEW x \in AllKeys
      PROVE  luaH_get(R, x) = IF x = k THEN v ELSE luaH_get(t, x)
  <2>1. k \in AllKeys /\ v # nil  BY <1>0, <1>6
  <2>2. \A y, w : <<y, w>> \in Content(R) <=> <<y, w>> \in Content(t) \/ (y = k /\ w = v)
    BY <1>4, <1>6
  <2> QED BY <1>0, <1>4, <2>1, <2>2, AddedIs
<1>7. \A x \in AllKeys : luaH_get(R, x) = IF x = pending.k THEN pending.v ELSE luaH_get(t, x)
  BY <1>6
<1>8. Assigned(R, pending.k, pending.v) /\ pending.v # nil  BY <1>3, <1>5
<1> QED BY <1>2, <1>7, <1>8, EffectIs

(* What a collection takes out of the map. *)
Lost(x) == \/ Weak("v") /\ iscleared(luaH_get(t, x))
           \/ Weak("k") /\ iscleared(x)
LEMMA CollectEffect ==
  ASSUME TypeInv, ChainInv
  PROVE  /\ \A x \in AllKeys : luaH_get(Collected, x) = IF Lost(x) THEN nil ELSE luaH_get(t, x)
         /\ SamePlaces(Collected)
<1>0. program \in Programs /\ Holds(t, AllEntries) /\ Tidy(t) /\ IsTidy(t) /\ IsTable(t)
  BY DEF TypeInv, ChainInv, IsTidy, Holds
<1> DEFINE R == Collected
           Gone(x, v) == (Weak("v") /\ iscleared(v)) \/ (Weak("k") /\ iscleared(x))
<1>1. Holds(R, AllEntries) /\ Tidy(R) /\ asize(R) = asize(t) /\ Clears(R)  BY <1>0, CollectedTidy
<1> HIDE DEF R
<1>2. /\ IsTidy(R) /\ IsTable(R) /\ DOMAIN t.arr = 1..asize(t) /\ DOMAIN R.arr = 1..asize(t)
      /\ R.arr \in Seq(Values) /\ t.arr \in Seq(Values)
  BY <1>0, <1>1 DEF IsTidy, Holds, IsTable, Tables, asize
<1>3. SamePlaces(R)  BY <1>0, <1>1, <1>2, SamePlace DEF SamePlaces, Clears
<1>4. \A x, v : <<x, v>> \in NodeEntries(R) <=> <<x, v>> \in NodeEntries(t) /\ ~Gone(x, v)
  <2>1. Used(R) = {i \in Used(t) : ~ClearedNode(i)}  BY <1>1 DEF Used, Clears
  <2>2. \A i \in Used(R) : R.node[i].key = t.node[i].key /\ R.node[i].val = t.node[i].val
    BY <1>1, <2>1 DEF Used, Clears
  <2>3. \A i \in Used(t) : ClearedNode(i) <=> Gone(t.node[i].key, t.node[i].val)  BY DEF ClearedNode
  <2> HIDE DEF Gone
  <2>4. TAKE x, v
  <2>5. <<x, v>> \in NodeEntries(R) <=> \E i \in Used(R) : R.node[i].key = x /\ R.node[i].val = v
    BY NodeEntries1
  <2>6. <<x, v>> \in NodeEntries(t) <=> \E i \in Used(t) : t.node[i].key = x /\ t.node[i].val = v
    BY NodeEntries1
  <2> QED BY <2>1, <2>2, <2>3, <2>5, <2>6
<1>5. \A x, v : <<x, v>> \in ArrayEntries(R) <=> <<x, v>> \in ArrayEntries(t) /\ ~Gone(x, v)
  <2>1. \A j \in DOMAIN t.arr : ~iscleared(j)
    <3>1. \A j \in DOMAIN t.arr : j \in Int  BY <1>2
    <3>2. program.objects \cap Int = {}  BY <1>0, TableAssumption
    <3> QED BY <3>1, <3>2 DEF iscleared, iscollectable
  <2>2. \A j \in DOMAIN t.arr : R.arr[j] = IF Gone(j, t.arr[j]) THEN nil ELSE t.arr[j]
    BY <1>1, <2>1 DEF Clears
  <2> HIDE DEF Gone
  <2>3. \A j : j \in Vanishing(R, 0) <=> j \in Vanishing(t, 0) /\ ~Gone(j, t.arr[j])
    BY <1>2, <2>2 DEF Vanishing
  <2>4. \A j \in Vanishing(R, 0) : R.arr[j] = t.arr[j]  BY <1>2, <2>2, <2>3 DEF Vanishing
  <2>5. TAKE x, v
  <2>6. <<x, v>> \in ArrayEntries(R) <=> x \in Vanishing(R, 0) /\ v = R.arr[x]  BY Elements1 DEF ArrayEntries
  <2>7. <<x, v>> \in ArrayEntries(t) <=> x \in Vanishing(t, 0) /\ v = t.arr[x]  BY Elements1 DEF ArrayEntries
  <2> QED BY <2>3, <2>4, <2>6, <2>7
<1>6. \A x, v : <<x, v>> \in Content(R) <=> <<x, v>> \in Content(t) /\ ~Gone(x, v)
  BY <1>4, <1>5 DEF Content
<1> HIDE DEF Gone
<1>7. ASSUME NEW x \in AllKeys PROVE luaH_get(R, x) = IF Lost(x) THEN nil ELSE luaH_get(t, x)
  <2>1. Lost(x) <=> Gone(x, luaH_get(t, x))  BY DEF Lost, Gone
  <2>2. CASE luaH_get(t, x) = nil
    <3>1. Unused(t, x)  BY <1>0, <2>2, UnusedIs
    <3>2. Unused(R, x)  BY <1>6, <3>1 DEF Unused
    <3> QED BY <1>0, <1>2, <2>2, <3>2, UnusedIs
  <2>3. CASE luaH_get(t, x) # nil /\ Lost(x)
    <3>1. \A w : <<x, w>> \in Content(t) => w # nil
      <4>1. \A w : <<x, w>> \in NodeEntries(t) => w # nil  BY NodeEntries1 DEF Used
      <4>2. \A w : <<x, w>> \in ArrayEntries(t) => w # nil  BY Elements1 DEF ArrayEntries, Vanishing
      <4> QED BY <4>1, <4>2 DEF Content
    <3>2. \A w : <<x, w>> \in Content(t) => w = luaH_get(t, x)
      <4>1. \A w : w # nil => (luaH_get(t, x) = w <=> <<x, w>> \in Content(t))  BY <1>0, ContentIs
      <4> QED BY <3>1, <4>1
    <3>3. Unused(R, x)  BY <1>6, <2>1, <2>3, <3>2 DEF Unused
    <3> QED BY <1>0, <1>2, <2>3, <3>3, UnusedIs
  <2>4. CASE luaH_get(t, x) # nil /\ ~Lost(x)
    <3>1. <<x, luaH_get(t, x)>> \in Content(t)  BY <1>0, <2>4, ContentIs
    <3>2. <<x, luaH_get(t, x)>> \in Content(R)  BY <1>6, <2>1, <2>4, <3>1
    <3> QED BY <1>0, <1>2, <2>4, <3>2, ContentIs
  <2> QED BY <2>2, <2>3, <2>4
<1> QED BY <1>3, <1>7 DEF R

------------------------------------------------------------------------------
(* ---- the traversal ---- *)
(* The keys after the index 'i', and what the traversal keeps: it has yet   *)
(* to visit the keys that come after its own.                               *)
After(T, i) == {x \in AllKeys : luaH_get(T, x) # nil /\ findindex(T, x) > i}
TravInv ==
  /\ key # invalid /\ (key = none => left = {})
  /\ key # none => findindex(t, key) # -1 /\ left = After(t, findindex(t, key))

(* A present key is found at its index, and at an index is its key. *)
LEMMA PlaceIs ==
  ASSUME program \in Programs, NEW T, IsTidy(T), NEW x \in AllKeys, luaH_get(T, x) # nil
  PROVE  findindex(T, x) \in 1..asize(T) + Len(T.node) /\ KeyAt(T, findindex(T, x)) = x
<1>0. /\ IsTable(T) /\ asize(T) \in Nat /\ Len(T.node) \in Nat /\ DOMAIN T.node = 1..Len(T.node)
      /\ LiveReached(T) /\ Used(T) \subseteq Live(T) /\ x # nil
  BY NilIs DEF IsTidy, Holds, IsTable, Tables, asize, Tidy, Orderly
<1>1. CASE InArray(T, x)
  <2>1. findindex(T, x) = x /\ luaH_get(T, x) = T.arr[x] /\ x \in 1..asize(T)
    BY <1>0, <1>1 DEF findindex, luaH_get, InArray
  <2> QED BY <1>0, <2>1 DEF KeyAt
<1>2. CASE ~InArray(T, x)
  <2> DEFINE p == getgeneric(T, x, FALSE)
  <2>1. p = 0 \/ (p \in DOMAIN T.node /\ T.node[p].key = x)  BY <1>0, GetIs DEF equalkey
  <2>2. luaH_get(T, x) = IF p = 0 THEN nil ELSE T.node[p].val  BY <1>2 DEF luaH_get
  <2> HIDE DEF p
  <2>3. p \in DOMAIN T.node /\ T.node[p].key = x /\ T.node[p].val # nil  BY <2>1, <2>2
  <2>4. p \in Live(T)  BY <1>0, <2>3 DEF Used
  <2>5. TRUE \in BOOLEAN  OBVIOUS
  <2>6. getgeneric(T, x, TRUE) = p  BY <1>0, <2>3, <2>4, <2>5, LiveFound
  <2>7. p \in 1..Len(T.node)  BY <1>0, <2>3
  <2>10. p # 0 /\ x # nil  BY <1>0, <2>7
  <2>8. findindex(T, x) = asize(T) + p  BY <1>2, <2>6, <2>10 DEF findindex
  <2>9. asize(T) + p - asize(T) = p /\ ~(asize(T) + p <= asize(T))  BY <1>0, <2>7
  <2> QED BY <1>0, <2>3, <2>7, <2>8, <2>9 DEF KeyAt
<1> QED BY <1>1, <1>2

LEMMA KeyAtIs ==
  ASSUME program \in Programs, NEW T, IsTidy(T), NEW j \in 1..asize(T) + Len(T.node), KeyAt(T, j) # nil
  PROVE  KeyAt(T, j) \in AllKeys /\ luaH_get(T, KeyAt(T, j)) # nil /\ findindex(T, KeyAt(T, j)) = j
<1>0. /\ IsTable(T) /\ asize(T) \in Nat /\ Len(T.node) \in Nat /\ DOMAIN T.node = 1..Len(T.node)
      /\ DOMAIN T.arr = 1..asize(T)
      /\ LiveReached(T) /\ Used(T) \subseteq Live(T) /\ nil \notin AllKeys /\ Apart(T)
      /\ NodesIn(T.node, AllEntries) /\ ArrayIn(T.arr, AllEntries)
  BY NilIs DEF IsTidy, Holds, IsTable, Tables, asize, Tidy, Orderly
<1>1. CASE j <= asize(T)
  <2>1. KeyAt(T, j) = j /\ T.arr[j] # nil  BY <1>1 DEF KeyAt
  <2>2. j \in 1..asize(T)  BY <1>0, <1>1
  <2>3. <<j, T.arr[j]>> \in AllEntries  BY <1>0, <2>1, <2>2 DEF ArrayIn
  <2>4. j \in AllKeys  BY <2>3 DEF AllEntries
  <2> QED BY <1>0, <2>1, <2>2, <2>4 DEF luaH_get, findindex, InArray
<1>2. CASE ~(j <= asize(T))
  <2> DEFINE i == j - asize(T)
             x == T.node[i].key
  <2>1. KeyAt(T, j) = x /\ T.node[i].val # nil  BY <1>2 DEF KeyAt
  <2>2. i \in 1..Len(T.node) /\ asize(T) + i = j /\ i # 0  BY <1>0, <1>2
  <2> HIDE DEF i
  <2>3. i \in Used(T) /\ i \in Live(T)  BY <1>0, <2>1, <2>2 DEF Used
  <2>4. <<x, T.node[i].val>> \in AllEntries  BY <1>0, <2>1, <2>2 DEF NodesIn, NodeIn
  <2>5. x \in AllKeys /\ x # nil  BY <1>0, <2>4 DEF AllEntries
  <2>6. ~InArray(T, x)  BY <1>0, <2>3 DEF Apart, LiveKeys
  <2>7. TRUE \in BOOLEAN /\ FALSE \in BOOLEAN  OBVIOUS
  <2>8. getgeneric(T, x, TRUE) = i  BY <1>0, <2>3, <2>7, LiveFound
  <2>9. getgeneric(T, x, FALSE) = i  BY <1>0, <2>3, <2>7, LiveFound
  <2> HIDE DEF x
  <2>10. luaH_get(T, x) = T.node[i].val  BY <2>2, <2>6, <2>9 DEF luaH_get
  <2>11. findindex(T, x) = j  BY <2>2, <2>5, <2>6, <2>8 DEF findindex
  <2> QED BY <2>1, <2>5, <2>10, <2>11
<1> QED BY <1>1, <1>2

(* The next key is none if no key is left, else it takes one from them.     *)
LEMMA NextAfter ==
  ASSUME program \in Programs, NEW T, IsTidy(T), NEW k \in AllKeys \cup {nil}, findindex(T, k) # -1
  PROVE  LET A == After(T, findindex(T, k))
             r == luaH_next(T, k)
         IN \/ A = {} /\ r = none
            \/ r \in A /\ After(T, findindex(T, r)) = A \ {r} /\ findindex(T, r) # -1
<1> DEFINE i == findindex(T, k)
           I == Further(T, i)
           A == After(T, i)
           r == luaH_next(T, k)
           n == asize(T) + Len(T.node)
<1>0. IsTable(T)  BY DEF IsTidy, Holds
<1>1. i \in Nat /\ r = (IF I = {} THEN none ELSE KeyAt(T, Min(I))) /\ I \subseteq 1..n  BY <1>0, NextKey
<1>2. n \in Nat  BY <1>0 DEF IsTable, Tables, asize
<1> HIDE DEF i, r, n
<1>3. ASSUME NEW x \in A PROVE findindex(T, x) \in I /\ KeyAt(T, findindex(T, x)) = x /\ x # nil
  <2>1. x \in AllKeys /\ luaH_get(T, x) # nil /\ findindex(T, x) > i  BY DEF After
  <2>2. findindex(T, x) \in 1..n /\ KeyAt(T, findindex(T, x)) = x  BY <2>1, PlaceIs DEF n
  <2>3. x # nil  BY <2>1, NilIs
  <2>4. findindex(T, x) \in i + 1..n  BY <1>1, <1>2, <2>1, <2>2
  <2> QED BY <2>2, <2>3, <2>4 DEF Further, n
<1>4. ASSUME NEW j \in I PROVE KeyAt(T, j) \in A /\ findindex(T, KeyAt(T, j)) = j
  <2>1. j \in 1..n /\ j \in i + 1..n /\ KeyAt(T, j) # nil  BY <1>1 DEF Further, n
  <2>2. KeyAt(T, j) \in AllKeys /\ luaH_get(T, KeyAt(T, j)) # nil /\ findindex(T, KeyAt(T, j)) = j
    BY <2>1, KeyAtIs DEF n
  <2>3. j > i  BY <1>1, <1>2, <2>1
  <2> QED BY <2>2, <2>3 DEF After
<1>5. CASE I = {}
  <2>1. A = {}  BY <1>3, <1>5
  <2> QED BY <1>1, <1>5, <2>1 DEF i, r
<1>6. CASE I # {}
  <2> DEFINE m == Min(I)
  <2>1. m \in I /\ \A y \in I : m <= y
    <3>1. I \in SUBSET Nat  BY <1>1, <1>2
    <3> HIDE DEF I
    <3> QED BY <1>6, <3>1, MinIs
  <2>2. r = KeyAt(T, m)  BY <1>1, <1>6
  <2> HIDE DEF m
  <2>3. r \in A /\ findindex(T, r) = m  BY <1>4, <2>1, <2>2
  <2>4. m \in Nat /\ m > i  BY <1>1, <1>2, <2>1 DEF Further
  <2>5. ASSUME NEW x PROVE x \in After(T, m) <=> x \in A \ {r}
    <3>1. ASSUME x \in After(T, m) PROVE x \in A /\ x # r
      <4>1. x \in AllKeys /\ luaH_get(T, x) # nil /\ findindex(T, x) > m  BY <3>1 DEF After
      <4>2. findindex(T, x) \in 1..n  BY <4>1, PlaceIs DEF n
      <4>3. findindex(T, x) > i /\ findindex(T, x) # m  BY <1>1, <1>2, <2>4, <4>1, <4>2
      <4> QED BY <2>3, <4>1, <4>3 DEF After
    <3>2. ASSUME x \in A, x # r PROVE x \in After(T, m)
      <4>1. findindex(T, x) \in I /\ KeyAt(T, findindex(T, x)) = x  BY <1>3, <3>2
      <4>2. findindex(T, x) # m  BY <2>2, <3>2, <4>1
      <4>3. findindex(T, x) \in 1..n /\ m <= findindex(T, x)  BY <1>1, <2>1, <4>1
      <4>4. findindex(T, x) > m  BY <1>2, <2>4, <4>2, <4>3
      <4> QED BY <3>2, <4>4 DEF After
    <3> QED BY <3>1, <3>2
  <2>6. After(T, m) = A \ {r}  BY <2>5
  <2>7. m # -1  BY <2>4
  <2> HIDE DEF A
  <2> QED BY <2>3, <2>6, <2>7 DEF i, r, A
<1> QED BY <1>5, <1>6

(* ---- every step ---- *)
SameMap == \A x \in AllKeys : luaH_get(t', x) = luaH_get(t, x)

(* The hint of the length is not seen. *)
LEMMA HintEffect ==
  ASSUME TypeInv, luaH_getn_hint
  PROVE  SameMap /\ SamePlaces(t')
<1>1. PICK rnd \in Seeds : t' = [t EXCEPT !.hint = luaH_getn(t, rnd).hint]  BY DEF luaH_getn_hint
<1> DEFINE h == luaH_getn(t, rnd).hint
           R == [t EXCEPT !.hint = h]
<1>2. program \in Programs /\ IsTable(t) /\ t \in Tables /\ rnd \in Nat
  BY TableAssumption DEF TypeInv, Holds, IsTable
<1>3. h \in Nat /\ (asize(t) > 0 => h <= asize(t))
  BY <1>2, GetnIs DEF IsLength, IsTable, Tables
<1> HIDE DEF h
<1>4. R.arr = t.arr /\ R.hint = h /\ R.node = t.node /\ R \in Tables  BY <1>2, <1>3 DEF Tables
<1>5. R = t'  BY <1>1 DEF h
<1> HIDE DEF R
<1>6. IsTable(R) /\ asize(R) = asize(t)  BY <1>2, <1>3, <1>4 DEF IsTable, asize
<1>7. SamePlaces(R)  BY <1>2, <1>4, <1>6, SamePlace DEF SamePlaces
<1>8. ASSUME NEW x \in AllKeys PROVE luaH_get(R, x) = luaH_get(t, x)
  <2>1. FALSE \in BOOLEAN  OBVIOUS
  <2>2. getgeneric(R, x, FALSE) = getgeneric(t, x, FALSE)  BY <1>2, <1>4, <1>6, <2>1, SameSearch
  <2> QED BY <1>4, <1>6, <2>2 DEF luaH_get, InArray
<1>9. SameMap  BY <1>5, <1>8 DEF SameMap
<1> QED BY <1>5, <1>7, <1>9 DEF SamePlaces

(* A step changes nothing, assigns a key, or is one of the four others. *)
LEMMA StepEffect ==
  ASSUME TypeInv, ChainInv, RoomInv, [Next]_vars
  PROVE  /\ program' = program
         /\ \/ UNCHANGED <<held, key, left>> /\ SameMap /\ SamePlaces(t')
            \/ UNCHANGED held /\ \E k \in AllKeys, v \in Values : Effect(k, v)
            \/ StartTraversal \/ Traverse \/ Forgets \/ Collect
<1> DEFINE Goal == /\ program' = program
                   /\ \/ UNCHANGED <<held, key, left>> /\ SameMap /\ SamePlaces(t')
                      \/ UNCHANGED held /\ \E k \in AllKeys, v \in Values : Effect(k, v)
                      \/ StartTraversal \/ Traverse \/ Forgets \/ Collect
<1> SUFFICES Goal  OBVIOUS
<1>0. program \in Programs /\ Holds(t, AllEntries) /\ Tidy(t)  BY DEF TypeInv, ChainInv
<1>1. ASSUME UNCHANGED <<t, program, held, key, left>> PROVE Goal
  BY <1>1 DEF SameMap, SamePlaces
<1>2. CASE UNCHANGED vars  BY <1>1, <1>2 DEF vars
<1>3. CASE Set
  <2>1. CASE UNCHANGED <<t, key, left>>  BY <1>1, <1>3, <2>1, SetEffect
  <2>2. CASE \E k \in AllKeys, v \in Values : Effect(k, v)
    <3>1. UNCHANGED <<program, held>>  BY <1>3, SetEffect
    <3> QED BY <2>2, <3>1
  <2> QED BY <1>3, <2>1, <2>2, SetEffect
<1>4. ASSUME NEW newt, ~Idle, IsTable(newt), NodesIn(newt.node, AllEntries), Orderly(newt),
             LiveKeys(newt) \subseteq pending.asize + 1..asize(t),
             NodeEntries(newt) = Elements(t, Vanishing(t, pending.asize)),
             Required(t, pending.asize, pending.k) <= Cardinality(Free(newt)), Finish(newt),
             UNCHANGED <<program, held>>
      PROVE  Goal
  <2>1. pending.k \in AllKeys /\ pending.v \in Values  BY <1>4, PendingIs
  <2>2. pending.v # nil  BY <1>4 DEF RoomInv
  <2>3. Effect(pending.k, pending.v)  BY <1>4, <2>2, FinishEffect
  <2> QED BY <1>4, <2>1, <2>3
<1>5. CASE AllocNodes
  <2> DEFINE newt == reinsertOldSlice(t, pending.asize, setnodevector(pending.nsize))
  <2>1. /\ ~Idle /\ pending.newt = none /\ pending.nsize <= twoto[MAXHBITS]
        /\ UNCHANGED <<program, held>>
        /\ Finish(newt) \/ UNCHANGED <<t, key, left>>
    BY <1>5 DEF AllocNodes
  <2>2. pending.asize \in Sizes /\ pending.nsize \in Nat  BY <2>1, PendingIs
  <2>3. Cardinality(Vanishing(t, pending.asize)) + Required(t, pending.asize, pending.k) <= pending.nsize
    BY <2>1 DEF RoomInv
  <2>4. IsTable(newt) /\ NodesIn(newt.node, AllEntries)  BY <1>0, <2>1, <2>2, NewNodesAre
  <2>5. Orderly(newt) /\ LiveKeys(newt) \subseteq pending.asize + 1..asize(t)
    BY <1>0, <2>1, <2>2, NewNodesTidy
  <2>6. /\ NodeEntries(newt) = Elements(t, Vanishing(t, pending.asize))
        /\ Required(t, pending.asize, pending.k) <= Cardinality(Free(newt))
    BY <1>0, <2>1, <2>2, <2>3, NewNodesContent
  <2> HIDE DEF newt, Goal
  <2>7. CASE Finish(newt)  BY <1>4, <2>1, <2>4, <2>5, <2>6, <2>7
  <2>8. CASE UNCHANGED <<t, key, left>>  BY <1>1, <2>1, <2>8
  <2> QED BY <2>1, <2>7, <2>8
<1>6. CASE AllocArray
  <2>1. ~Idle /\ pending.newt # none /\ UNCHANGED <<program, held>> /\ Finish(pending.newt)
    BY <1>6 DEF AllocArray
  <2>2. /\ IsTable(pending.newt) /\ NodesIn(pending.newt.node, AllEntries) /\ Orderly(pending.newt)
        /\ LiveKeys(pending.newt) \subseteq pending.asize + 1..asize(t)
    BY <2>1, PendingIs
  <2>3. /\ NodeEntries(pending.newt) = Elements(t, Vanishing(t, pending.asize))
        /\ Required(t, pending.asize, pending.k) <= Cardinality(Free(pending.newt))
    BY <2>1 DEF RoomInv
  <2> HIDE DEF Goal
  <2> QED BY <1>4, <2>1, <2>2, <2>3
<1>7. CASE AllocFails  BY <1>1, <1>7 DEF AllocFails
<1>8. CASE luaH_getn_hint
  <2>1. UNCHANGED <<program, held, key, left>>  BY <1>8 DEF luaH_getn_hint
  <2> QED BY <1>8, <2>1, HintEffect
<1>9. CASE StartTraversal  BY <1>9 DEF StartTraversal
<1>10. CASE Traverse  BY <1>10 DEF Traverse
<1>11. CASE Forgets  BY <1>11 DEF Forgets
<1>12. CASE Collect  BY <1>12 DEF Collect
<1> HIDE DEF Goal
<1> QED BY <1>2, <1>3, <1>5, <1>6, <1>7, <1>8, <1>9, <1>10, <1>11, <1>12 DEF Next

(* The next state of a search is a search of the next table. *)
LEMMA Primed ==
  ASSUME program' = program
  PROVE  /\ AllKeys' = AllKeys
         /\ \A x : luaH_get(t, x)' = luaH_get(t', x)
         /\ \A x : findindex(t, x)' = findindex(t', x)
<1>1. AllKeys' = AllKeys  BY DEF AllKeys
<1>2. \A x : mainposition(t, x)' = mainposition(t', x)  BY DEF mainposition, Hashmod, iscollectable
<1>3. ASSUME NEW x, NEW d PROVE getgeneric(t, x, d)' = getgeneric(t', x, d)
  <2>1. mainposition(t, x)' = mainposition(t', x)  BY <1>2
  <2> QED BY <2>1, SMTT(60) DEF getgeneric, isdummy, equalkey
<1>4. \A x : InArray(t, x)' = InArray(t', x) /\ asize(t)' = asize(t')  BY DEF InArray, asize
<1>5. \A x : luaH_get(t, x)' = luaH_get(t', x)
  <2> TAKE x
  <2>1. getgeneric(t, x, FALSE)' = getgeneric(t', x, FALSE)  BY <1>3
  <2> QED BY <1>4, <2>1 DEF luaH_get
<1>6. \A x : findindex(t, x)' = findindex(t', x)
  <2> TAKE x
  <2>1. getgeneric(t, x, TRUE)' = getgeneric(t', x, TRUE)  BY <1>3
  <2> QED BY <1>4, <2>1 DEF findindex
<1> QED BY <1>1, <1>5, <1>6

LEMMA Goes ==
  ASSUME program' = program, key' # invalid, key' = none => left' = {},
         key' # none => findindex(t', key') # -1 /\ left' = After(t', findindex(t', key'))
  PROVE  TravInv'
<1>1. /\ AllKeys' = AllKeys /\ \A x : luaH_get(t, x)' = luaH_get(t', x)
      /\ \A x : findindex(t, x)' = findindex(t', x)
  BY Primed
<1>2. findindex(t, key)' = findindex(t', key')
  <2>1. \A x : x = key' => findindex(t, x)' = findindex(t', key')  BY <1>1
  <2> QED BY <1>1
<1>3. After(t, findindex(t, key))' = After(t', findindex(t', key'))  BY <1>1, <1>2 DEF After
<1> QED BY <1>2, <1>3 DEF TravInv

LEMMA InitTrav == Init => TravInv
<1> SUFFICES ASSUME Init PROVE TravInv  OBVIOUS
<1> QED BY TableAssumption DEF Init, TravInv

(* A traversal goes on with the keys it has not visited. *)
LEMMA TravStep ==
  ASSUME TypeInv, ChainInv, RoomInv, TravInv, [Next]_vars
  PROVE  TravInv'
<1>0. /\ program \in Programs /\ IsTidy(t) /\ key # invalid /\ (key = none => left = {})
      /\ key # none => key \in AllKeys \cup {nil} /\ findindex(t, key) # -1 /\ left = After(t, findindex(t, key))
  BY DEF TypeInv, ChainInv, IsTidy, TravInv, Others
<1> DEFINE i == findindex(t, key)
<1>11. program' = program  BY StepEffect
(* Places that stay. *)
<1>12. ASSUME key' = key, key # none => SamePlaces(t') /\ left' = {x \in AllKeys : luaH_get(t', x) # nil /\ findindex(t, x) > i},
              key = none => left' = {}
       PROVE  TravInv'
  <2>1. CASE key = none  BY <1>11, <1>12, <1>0, <2>1, Goes
  <2>2. CASE key # none
    <3>1. findindex(t', key') = i /\ \A x \in AllKeys : findindex(t', x) = findindex(t, x)
      BY <1>0, <1>12, <2>2 DEF SamePlaces
    <3>2. left' = After(t', findindex(t', key'))
      <4> HIDE DEF i
      <4> QED BY <1>12, <2>2, <3>1 DEF After
    <3> QED BY <1>0, <1>11, <1>12, <2>2, <3>1, <3>2, Goes
  <2> QED BY <2>1, <2>2
<1>1. CASE UNCHANGED <<held, key, left>> /\ SameMap /\ SamePlaces(t')
  <2> HIDE DEF i
  <2>1. key # none => left' = {x \in AllKeys : luaH_get(t', x) # nil /\ findindex(t, x) > i}
    BY <1>0, <1>1 DEF SameMap, After, i
  <2> QED BY <1>0, <1>1, <1>12, <2>1
<1>2. CASE \E k \in AllKeys, v \in Values : Effect(k, v)
  <2>1. PICK k \in AllKeys, v \in Values : Effect(k, v)  BY <1>2
  <2>2. CASE luaH_get(t, k) = nil /\ v # nil
    <3>1. key' = none /\ left' = {}  BY <2>1, <2>2 DEF Effect, Marks
    <3>2. none # invalid  BY TableAssumption
    <3> QED BY <1>11, <3>1, <3>2, Goes
  <2>3. CASE ~(luaH_get(t, k) = nil /\ v # nil)
    <3>1. key' = key /\ left' = (IF v = nil THEN left \ {k} ELSE left) /\ SamePlaces(t')
      BY <2>1, <2>3 DEF Effect, Marks
    <3>2. \A x \in AllKeys : luaH_get(t', x) = IF x = k THEN v ELSE luaH_get(t, x)
      BY <2>1 DEF Effect, NewValues
    <3> HIDE DEF i
    <3>3. key # none => left' = {x \in AllKeys : luaH_get(t', x) # nil /\ findindex(t, x) > i}
      <4>1. CASE v = nil  BY <1>0, <3>1, <3>2, <4>1 DEF After, i
      <4>2. CASE v # nil  BY <1>0, <2>3, <3>1, <3>2, <4>2 DEF After, i
      <4> QED BY <4>1, <4>2
    <3>4. key = none => left' = {}  BY <1>0, <3>1
    <3> QED BY <1>12, <3>1, <3>3, <3>4
  <2> QED BY <2>2, <2>3
<1>3. CASE StartTraversal
  <2>1. key' = nil /\ left' = {k \in AllKeys : luaH_get(t, k) # nil} /\ t' = t  BY <1>3 DEF StartTraversal
  <2>2. findindex(t, nil) = 0  BY DEF findindex
  <2>3. \A x \in AllKeys : luaH_get(t, x) # nil => findindex(t, x) > 0
    <3> SUFFICES ASSUME NEW x \in AllKeys, luaH_get(t, x) # nil PROVE findindex(t, x) > 0  OBVIOUS
    <3>1. findindex(t, x) \in 1..asize(t) + Len(t.node)  BY <1>0, PlaceIs
    <3>2. asize(t) + Len(t.node) \in Nat  BY <1>0 DEF IsTidy, Holds, IsTable, Tables, asize
    <3> QED BY <3>1, <3>2
  <2>4. left' = After(t, 0)  BY <2>1, <2>3 DEF After
  <2>5. findindex(t', key') = 0 /\ left' = After(t', findindex(t', key'))  BY <2>1, <2>2, <2>4
  <2>6. nil # invalid /\ nil # none  BY TableAssumption
  <2> QED BY <1>11, <2>1, <2>5, <2>6, Goes
<1>4. CASE Traverse
  <2>1. key \notin {none, invalid} /\ key' = luaH_next(t, key) /\ left' = left \ {key'} /\ t' = t
    BY <1>4 DEF Traverse
  <2>2. \/ left = {} /\ key' = none
        \/ key' \in left /\ After(t, findindex(t, key')) = left \ {key'} /\ findindex(t, key') # -1
    BY <1>0, <2>1, NextAfter
  <2>3. CASE left = {} /\ key' = none
    <3>1. left' = {} /\ none # invalid  BY <2>1, <2>3, TableAssumption
    <3> QED BY <1>11, <2>3, <3>1, Goes
  <2>4. CASE key' \in left /\ After(t, findindex(t, key')) = left \ {key'} /\ findindex(t, key') # -1
    <3>1. key' \in AllKeys  BY <1>0, <2>1, <2>4 DEF After
    <3>2. key' # invalid /\ key' # none  BY <1>0, <3>1, NilIs
    <3> QED BY <1>11, <2>1, <2>4, <3>2, Goes
  <2> QED BY <2>2, <2>3, <2>4
<1>5. CASE Forgets
  <2>1. UNCHANGED <<t, key, left>>  BY <1>5 DEF Forgets
  <2> QED BY <1>0, <1>11, <2>1, Goes
<1>6. CASE Collect
  <2>1. t' = Collected /\ left' = {k \in left : luaH_get(Collected, k) # nil} /\ key' = key  BY <1>6 DEF Collect
  <2>2. /\ \A x \in AllKeys : luaH_get(Collected, x) = IF Lost(x) THEN nil ELSE luaH_get(t, x)
        /\ SamePlaces(Collected)
    BY CollectEffect
  <2> DEFINE R == Collected
  <2> HIDE DEF R, i
  <2>3. key # none => left' = {x \in AllKeys : luaH_get(R, x) # nil /\ findindex(t, x) > i}
    BY <1>0, <2>1, <2>2 DEF After, i, R
  <2>4. R = t'  BY <2>1 DEF R
  <2>5. SamePlaces(t')  BY <2>2, <2>4 DEF SamePlaces, R
  <2> QED BY <1>0, <1>12, <2>1, <2>3, <2>4, <2>5
<1> QED BY <1>1, <1>2, <1>3, <1>4, <1>5, <1>6, StepEffect

------------------------------------------------------------------------------
(* ---- a collection takes from the map what it promises ---- *)

LEMMA ThingsAre ==
  ASSUME program \in Programs, NEW x, x \in AllKeys \cup Values \cup {nil, none, invalid}
  PROVE  x \in Objects <=> x \in program.objects
<1>1. /\ program.objects \subseteq Objects /\ DOMAIN program.stored \subseteq Int \cup program.objects
      /\ \A k \in DOMAIN program.stored : program.stored[k] \in Int \cup program.objects
      /\ Objects \cap Int = {} /\ {nil, none, invalid} \cap (Objects \cup Int) = {}
  BY TableAssumption
<1>2. x \in {nil, none, invalid} \cup Int \cup program.objects  BY <1>1 DEF AllKeys, Values
<1> QED BY <1>1, <1>2

(* What the table refers to, by entries. *)
LEMMA EntryIs ==
  ASSUME program \in Programs, IsTidy(t), NEW k, NEW w
  PROVE  k \in AllKeys /\ luaH_get(t, k) # nil /\ w = luaH_get(t, k)
         <=> \/ \E i \in InUse : t.node[i].key = k /\ t.node[i].val = w
             \/ k \in DOMAIN t.arr /\ w = t.arr[k] /\ w # nil
<1>0. /\ NodesIn(t.node, AllEntries) /\ ArrayIn(t.arr, AllEntries) /\ InUse = Used(t)
      /\ DOMAIN t.arr = 1..asize(t) /\ asize(t) \in Nat
  BY DEF IsTidy, Holds, IsTable, Tables, asize, InUse, Used
<1>1. <<k, w>> \in Content(t) <=> \/ \E i \in InUse : t.node[i].key = k /\ t.node[i].val = w
                                  \/ k \in DOMAIN t.arr /\ w = t.arr[k] /\ w # nil
  <2>1. k \in Vanishing(t, 0) <=> k \in DOMAIN t.arr /\ t.arr[k] # nil  BY <1>0 DEF Vanishing
  <2> QED BY <1>0, <2>1, NodeEntries1, Elements1 DEF Content, ArrayEntries
<1>2. <<k, w>> \in Content(t) => k \in AllKeys /\ w # nil
  <2>1. \A i \in InUse : t.node[i].key \in AllKeys /\ t.node[i].val # nil
    BY <1>0 DEF InUse, NodesIn, NodeIn, AllEntries
  <2>2. \A i \in DOMAIN t.arr : t.arr[i] # nil => i \in AllKeys  BY <1>0 DEF ArrayIn, AllEntries
  <2> QED BY <1>1, <2>1, <2>2
<1>3. k \in AllKeys /\ w # nil => (luaH_get(t, k) = w <=> <<k, w>> \in Content(t))  BY ContentIs
<1> QED BY <1>1, <1>2, <1>3

(* What is marked is closed under what the map refers to. *)
LEMMA ClosedIs ==
  ASSUME TypeInv, ChainInv, NEW S \in SUBSET Objects
  PROVE  Map!Closed(S) <=> Traversed(S \cap program.objects)
<1> DEFINE P == program.objects
           G(k) == luaH_get(t, k)
           Ks == {k \in AllKeys : G(k) # nil}
<1>0. program \in Programs /\ IsTidy(t) /\ P \subseteq Objects /\ Objects \cap Int = {} /\ nil \notin P
      /\ held \subseteq P /\ key \in AllKeys \cup {nil, none, invalid}
  BY TableAssumption DEF TypeInv, ChainInv, IsTidy, Others
<1>1. Map!Keys = Ks  BY DEF Map!Keys
<1>2. Map!Closed(S) <=> /\ (held \cup {key}) \cap Objects \subseteq S
                        /\ "k" \in program.weak \/ Ks \cap Objects \subseteq S
                        /\ "v" \in program.weak \/ \A k \in Ks : k \in S \cup (AllKeys \ Objects)
                                                                 => {G(k)} \cap Objects \subseteq S
  BY <1>1 DEF Map!Closed
<1> DEFINE U == S \cap P
<1>3. (held \cup {key}) \cap Objects \subseteq S <=> Roots \cap P \subseteq U
  <2>1. key \in Objects <=> key \in P  BY <1>0, ThingsAre
  <2> QED BY <1>0, <2>1 DEF Roots
<1>4. \A k \in AllKeys : k \in Objects <=> k \in P  BY <1>0, ThingsAre
<1>5. \A k \in Ks : G(k) \in Objects <=> G(k) \in P
  <2> SUFFICES ASSUME NEW k \in Ks PROVE G(k) \in Objects <=> G(k) \in P  OBVIOUS
  <2>1. <<k, G(k)>> \in AllEntries  BY <1>0, FoundIs DEF IsTidy
  <2>2. G(k) \in Values  BY <2>1 DEF AllEntries
  <2> HIDE DEF G
  <2> QED BY <1>0, <2>2, ThingsAre
<1>6. \A k, w : (k \in Ks /\ w = G(k)) <=> \/ \E i \in InUse : t.node[i].key = k /\ t.node[i].val = w
                                           \/ k \in DOMAIN t.arr /\ w = t.arr[k] /\ w # nil
  BY <1>0, EntryIs
<1>7. \A k \in DOMAIN t.arr : k \notin Objects /\ k \notin P
  <2>1. DOMAIN t.arr = 1..asize(t) /\ asize(t) \in Nat  BY <1>0 DEF IsTidy, Holds, IsTable, Tables, asize
  <2>2. \A k \in DOMAIN t.arr : k \in Int  BY <2>1
  <2> QED BY <1>0, <2>2
<1> HIDE DEF G
<1>8. \A i \in InUse : t.node[i].key \in Ks /\ t.node[i].val = G(t.node[i].key)  BY <1>6
<1>9. Ks \cap Objects \subseteq S <=> {t.node[i].key : i \in InUse} \cap P \subseteq U
  <2>1. ASSUME NEW k \in Ks, k \in Objects PROVE \E i \in InUse : t.node[i].key = k
    BY <1>6, <1>7, <2>1
  <2> HIDE DEF Ks
  <2>2. Ks \subseteq AllKeys  BY DEF Ks
  <2> QED BY <1>0, <1>4, <1>8, <2>1, <2>2
<1>10. (\A k \in Ks : k \in S \cup (AllKeys \ Objects) => {G(k)} \cap Objects \subseteq S)
       <=> /\ {t.arr[i] : i \in DOMAIN t.arr} \cap P \subseteq U
           /\ \A i \in InUse : (t.node[i].key \in P => t.node[i].key \in U)
                               => {t.node[i].val} \cap P \subseteq U
  <2>2. Ks \subseteq AllKeys  BY DEF Ks
  <2> HIDE DEF Ks
  <2>1. ASSUME \A k \in Ks : k \in S \cup (AllKeys \ Objects) => {G(k)} \cap Objects \subseteq S
        PROVE  /\ {t.arr[i] : i \in DOMAIN t.arr} \cap P \subseteq U
               /\ \A i \in InUse : (t.node[i].key \in P => t.node[i].key \in U)
                                   => {t.node[i].val} \cap P \subseteq U
    <3>1. ASSUME NEW i \in DOMAIN t.arr, t.arr[i] \in P PROVE t.arr[i] \in S
      <4>1. t.arr[i] # nil  BY <1>0, <3>1
      <4>2. i \in Ks /\ t.arr[i] = G(i)  BY <1>6, <4>1
      <4>3. i \in AllKeys \ Objects  BY <1>7, <2>2, <4>2
      <4>4. t.arr[i] \in Objects  BY <1>0, <3>1
      <4>5. {G(i)} \cap Objects \subseteq S  BY <2>1, <4>2, <4>3
      <4> QED BY <4>2, <4>4, <4>5
    <3>2. ASSUME NEW i \in InUse, t.node[i].key \in P => t.node[i].key \in U, t.node[i].val \in P
          PROVE  t.node[i].val \in S
      <4> DEFINE k == t.node[i].key
      <4>1. k \in Ks /\ t.node[i].val = G(k)  BY <1>8
      <4>2. k \in S \cup (AllKeys \ Objects)  BY <1>4, <2>2, <3>2, <4>1
      <4> HIDE DEF k
      <4>3. {G(k)} \cap Objects \subseteq S  BY <2>1, <4>1, <4>2
      <4>4. t.node[i].val \in Objects  BY <1>0, <3>2
      <4> QED BY <4>1, <4>3, <4>4
    <3> QED BY <3>1, <3>2
  <2>3. ASSUME {t.arr[i] : i \in DOMAIN t.arr} \cap P \subseteq U,
               \A i \in InUse : (t.node[i].key \in P => t.node[i].key \in U)
                                => {t.node[i].val} \cap P \subseteq U,
               NEW k \in Ks, k \in S \cup (AllKeys \ Objects), G(k) \in Objects
        PROVE  G(k) \in S
    <3>1. G(k) \in P /\ (k \in P => k \in S)  BY <1>4, <1>5, <2>2, <2>3
    <3>2. CASE \E i \in InUse : t.node[i].key = k /\ t.node[i].val = G(k)
      <4>1. PICK i \in InUse : t.node[i].key = k /\ t.node[i].val = G(k)  BY <3>2
      <4>2. {t.node[i].val} \cap P \subseteq U  BY <2>3, <3>1, <4>1
      <4> QED BY <3>1, <4>1, <4>2
    <3>3. CASE k \in DOMAIN t.arr /\ G(k) = t.arr[k]
      BY <2>3, <3>1, <3>3
    <3>4. \/ \E i \in InUse : t.node[i].key = k /\ t.node[i].val = G(k)
          \/ k \in DOMAIN t.arr /\ G(k) = t.arr[k]
      BY <1>6
    <3> QED BY <3>2, <3>3, <3>4
  <2> QED BY <2>1, <2>3
<1> HIDE DEF Ks
<1>11. Traversed(U) <=> /\ Roots \cap P \subseteq U
                        /\ "k" \in program.weak \/ {t.node[i].key : i \in InUse} \cap P \subseteq U
                        /\ \/ "v" \in program.weak
                           \/ /\ {t.arr[i] : i \in DOMAIN t.arr} \cap P \subseteq U
                              /\ \A i \in InUse : (t.node[i].key \in P => t.node[i].key \in U)
                                                  => {t.node[i].val} \cap P \subseteq U
  BY DEF Traversed, Weak, iscollectable
<1> QED BY <1>2, <1>3, <1>9, <1>10, <1>11

LEMMA GarbageIs ==
  ASSUME TypeInv, ChainInv, NEW x, x \in Objects <=> x \in program.objects
  PROVE  Map!Garbage(x) <=> iscleared(x)
<1>0. program.objects \subseteq Objects  BY TableAssumption DEF TypeInv
<1>1. iscleared(x) <=> x \in program.objects /\ \E S \in SUBSET program.objects : Traversed(S) /\ x \notin S
  BY DEF iscleared, iscollectable, Marked
<1>2. Map!Garbage(x) <=> x \in Objects /\ \E S \in SUBSET Objects : Map!Closed(S) /\ x \notin S
  BY DEF Map!Garbage
<1>3. ASSUME NEW S \in SUBSET Objects, Map!Closed(S), x \notin S, x \in Objects PROVE iscleared(x)
  <2>1. Traversed(S \cap program.objects)  BY <1>3, ClosedIs
  <2> QED BY <1>1, <1>3, <2>1
<1>4. ASSUME NEW S \in SUBSET program.objects, Traversed(S), x \notin S, x \in program.objects PROVE Map!Garbage(x)
  <2>1. S \in SUBSET Objects /\ S \cap program.objects = S  BY <1>0
  <2>2. Map!Closed(S)  BY <1>4, <2>1, ClosedIs
  <2> QED BY <1>2, <1>4, <2>1, <2>2
<1> QED BY <1>1, <1>2, <1>3, <1>4

------------------------------------------------------------------------------
(* ---- the table keeps a map ---- *)
LEMMA MapPrimed ==
  ASSUME program' = program
  PROVE  [k \in AllKeys |-> luaH_get(t, k)]' = [k \in AllKeys |-> luaH_get(t', k)]
<1>1. AllKeys' = AllKeys /\ \A x : luaH_get(t, x)' = luaH_get(t', x)  BY Primed
<1> QED BY <1>1

LEMMA CollectStep ==
  ASSUME TypeInv, ChainInv, TravInv, Collect
  PROVE  Map!Collect
<1> DEFINE map == [k \in AllKeys |-> luaH_get(t, k)]
           new == [k \in AllKeys |-> luaH_get(t', k)]
           R == {k \in AllKeys : luaH_get(t, k) # nil /\ Lost(k)}
<1>0. program \in Programs /\ program' = program  BY DEF TypeInv, Collect
<1>1. /\ t' = Collected /\ UNCHANGED <<held, key>>
      /\ left' = {k \in left : luaH_get(Collected, k) # nil}
  BY DEF Collect
<1>2. \A x \in AllKeys : luaH_get(t', x) = IF Lost(x) THEN nil ELSE luaH_get(t, x)
  BY <1>1, CollectEffect
<1>3. new = [k \in AllKeys |-> IF k \in R THEN nil ELSE luaH_get(t, k)]
  <2>1. \A k \in AllKeys : luaH_get(t', k) = IF k \in R THEN nil ELSE luaH_get(t, k)  BY <1>2
  <2> HIDE DEF R
  <2> QED BY <2>1
<1>4. left' = left \ R
  <2>1. \A k \in left : k \in AllKeys /\ luaH_get(t, k) # nil
    <3>1. left = {} \/ left = After(t, findindex(t, key))  BY DEF TravInv
    <3> QED BY <3>1 DEF After
  <2>2. \A k \in left : luaH_get(Collected, k) # nil <=> k \notin R  BY <1>1, <1>2, <2>1
  <2> QED BY <1>1, <2>2
<1>5. ASSUME NEW k \in AllKeys, luaH_get(t, k) # nil
      PROVE  Lost(k) <=> \/ "k" \in program.weak /\ Map!Garbage(k)
                         \/ "v" \in program.weak /\ Map!Garbage(luaH_get(t, k))
  <2>1. <<k, luaH_get(t, k)>> \in AllEntries  BY <1>0, <1>5, FoundIs DEF TypeInv
  <2>2. k \in AllKeys /\ luaH_get(t, k) \in Values  BY <2>1 DEF AllEntries
  <2>3. k \in Objects <=> k \in program.objects  BY <1>0, ThingsAre
  <2>4. \A v \in Values : v \in Objects <=> v \in program.objects  BY <1>0, ThingsAre
  <2>5. Map!Garbage(k) <=> iscleared(k)  BY <2>3, GarbageIs
  <2>6. \A v \in Values : Map!Garbage(v) <=> iscleared(v)  BY <2>4, GarbageIs
  <2> QED BY <2>2, <2>5, <2>6 DEF Lost, Weak
<1>6. Map!Keys = {k \in AllKeys : luaH_get(t, k) # nil}  BY DEF Map!Keys
<1>7. R = {k \in Map!Keys : \/ "k" \in program.weak /\ Map!Garbage(k)
                            \/ "v" \in program.weak /\ Map!Garbage(map[k])}
  <2>1. \A k \in AllKeys : map[k] = luaH_get(t, k)  OBVIOUS
  <2> HIDE DEF map
  <2> QED BY <1>5, <1>6, <2>1
<1>8. map' = new  BY <1>0, MapPrimed
<1>9. Map!Remove(R)
  <2>1. new = [k \in DOMAIN map |-> IF k \in R THEN nil ELSE map[k]]  BY <1>3
  <2> HIDE DEF R, new
  <2> QED BY <1>4, <1>8, <2>1 DEF Map!Remove
<1> HIDE DEF R
<1> QED BY <1>0, <1>1, <1>7, <1>9 DEF Map!Collect

LEMMA MapStep ==
  ASSUME TypeInv, ChainInv, RoomInv, TravInv, [Next]_vars
  PROVE  [Map!Next]_(Map!vars)
<1> DEFINE map == [k \in AllKeys |-> luaH_get(t, k)]
           new == [k \in AllKeys |-> luaH_get(t', k)]
<1>0. program' = program  BY StepEffect
<1>11. map' = new  BY <1>0, MapPrimed
<1>12. t' = t => map' = map  BY <1>11
<1>13. program \in Programs /\ IsTidy(t) /\ program.objects \subseteq Objects
  BY TableAssumption DEF TypeInv, ChainInv, IsTidy
<1>1. CASE UNCHANGED <<held, key, left>> /\ SameMap /\ SamePlaces(t')
  <2>1. map' = map  BY <1>1, <1>11 DEF SameMap
  <2> QED BY <1>0, <1>1, <2>1 DEF Map!vars
<1>2. CASE UNCHANGED held /\ \E k \in AllKeys, v \in Values : Effect(k, v)
  <2>1. PICK k \in AllKeys, v \in Values : Effect(k, v)  BY <1>2
  <2>2. new = [map EXCEPT ![k] = v]
    <3>1. \A x \in AllKeys : luaH_get(t', x) = IF x = k THEN v ELSE luaH_get(t, x)
      BY <2>1 DEF Effect, NewValues
    <3> QED BY <3>1
  <2>3. map[k] = luaH_get(t, k) /\ map'[k] = v /\ k \in DOMAIN map
    <3>1. new[k] = v  BY <2>2
    <3> QED BY <1>11, <3>1
  <2>4. IF luaH_get(t, k) = nil /\ v # nil THEN key' = none /\ left' = {}
        ELSE UNCHANGED key /\ left' = (IF v = nil THEN left \ {k} ELSE left)
    BY <2>1 DEF Effect, Marks
  <2>5. Map!Assign(k, v)  BY <1>0, <1>2, <1>11, <2>2, <2>3, <2>4 DEF Map!Assign
  <2>6. v \in {map'[k]}  BY <2>3
  <2> QED BY <2>3, <2>5, <2>6 DEF Map!Next
<1>3. CASE StartTraversal
  <2>1. UNCHANGED <<t, held>> /\ key' = nil /\ left' = {k \in AllKeys : luaH_get(t, k) # nil}
    BY <1>3 DEF StartTraversal
  <2>2. Map!Keys = {k \in AllKeys : luaH_get(t, k) # nil}  BY DEF Map!Keys
  <2>3. Map!Start  BY <1>0, <1>12, <2>1, <2>2 DEF Map!Start
  <2> QED BY <2>3 DEF Map!Next
<1>4. CASE Traverse
  <2>1. /\ key \notin {none, invalid} /\ key' = luaH_next(t, key) /\ left' = left \ {key'}
        /\ UNCHANGED <<t, held>>
    BY <1>4 DEF Traverse
  <2>2. key \in AllKeys \cup {nil}  BY <2>1 DEF TypeInv, Others
  <2>3. findindex(t, key) # -1 /\ left = After(t, findindex(t, key))  BY <2>1 DEF TravInv
  <2>4. (left = {} /\ key' = none) \/ key' \in left  BY <1>13, <2>1, <2>2, <2>3, NextAfter
  <2>5. left = {} => UNCHANGED left  BY <2>1
  <2>6. Map!Visit  BY <1>0, <1>12, <2>1, <2>4, <2>5 DEF Map!Visit
  <2> QED BY <2>6 DEF Map!Next
<1>5. CASE Forgets
  <2>1. /\ UNCHANGED <<t, key, left>>
        /\ \E o \in program.objects : held' \in {held \ {o}, held \cup {o}}
    BY <1>5 DEF Forgets, Forget, Fetch, Create
  <2>2. Map!Program  BY <1>0, <1>12, <1>13, <2>1 DEF Map!Program
  <2> QED BY <2>2 DEF Map!Next
<1>6. CASE Collect
  <2>1. Map!Collect  BY <1>6, CollectStep
  <2> QED BY <2>1 DEF Map!Next
<1> QED BY <1>1, <1>2, <1>3, <1>4, <1>5, <1>6, StepEffect

LEMMA InitMap == Init => Map!Init
<1> SUFFICES ASSUME Init PROVE Map!Init  OBVIOUS
<1>1. program \in Programs /\ held = program.objects /\ key = none /\ left = {}  BY DEF Init
<1>2. held \subseteq Objects  BY <1>1, TableAssumption
<1>3. \A k \in AllKeys : luaH_get(t, k) = nil
  <2> DEFINE E == {}
  <2>1. \A e : e \notin E  OBVIOUS
  <2> HIDE DEF E
  <2>2. Holds(t, E)  BY InitHolds
  <2>3. \A k \in AllKeys : luaH_get(t, k) # nil => <<k, luaH_get(t, k)>> \in E  BY <1>1, <2>2, FoundIs
  <2> QED BY <2>1, <2>3
<1> QED BY <1>1, <1>2, <1>3 DEF Map!Init

(* Whatever collisions, rehashes, failing allocations and collections do to *)
(* a table, the program sees the map of LuaMap: an assignment changes one   *)
(* key, and a traversal visits each entry once although entries are removed *)
(* and the addresses of dead keys are used again (ltable.c:361, 716, 846).  *)
THEOREM MapKept ==
  ASSUME Shrinkable
  PROVE  Spec => KeepsMap
<1> DEFINE Inv == TypeInv /\ ChainInv /\ RoomInv /\ TravInv
<1>1. Init => Inv
  <2>1. Init => RoomInv  BY DEF Init, RoomInv, Idle
  <2> QED BY <2>1, InitRight, InitTidy, InitTrav
<1>2. Inv /\ [Next]_vars => Inv'  BY TypeStep, ChainStep, RoomStep, TravStep
<1>3. Inv /\ [Next]_vars => [Map!Next]_(Map!vars)  BY MapStep
<1>4. Init => Map!Init  BY InitMap
<1> HIDE DEF Inv
<1> QED BY <1>1, <1>2, <1>3, <1>4, PTL DEF Spec, KeepsMap, Map!Spec

==============================================================================
