--------------------------- MODULE LuaCallsProofs ---------------------------
(* Proofs about LuaCalls: what each thread keeps in its 'lua_State' about   *)
(* the C stack - the jump buffer of its innermost luaD_rawrunprotected      *)
(* (errorJmp), the number of C calls (nC) and of non-yieldable calls (nny)  *)
(* - is right after every step, though the C stack is cut at any place by   *)
(* errors and yields, and belongs to several threads.                       *)
(*   - Sound(cs) says of each record of the C stack whose it is, what calls *)
(*     it, and that a luaD_rawrunprotected has saved what was right when it *)
(*     was called; Right(X, cs, t), that thread t has the values its        *)
(*     innermost record asks for. IInv is the inductive invariant.          *)
(*   - Works(cs, ds, X): from 'cs' the running thread X can have come to    *)
(*     the C stack 'ds'. The lemmas WorksPush to WorksRestore give this     *)
(*     relation for each way to call, end and cut; the lemmas named after   *)
(*     the operators and actions of LuaCalls put them together.             *)
EXTENDS LuaCalls, FiniteSetTheorems, SequenceTheorems, WellFoundedInduction, TLAPS

(* ---- the C stack 'cs' up to its k-th record ---- *)
IsSeq(s) == s \in Seq({s[i] : i \in 1..Len(s)})
Agree(cs, ds, k) == \A i \in 1..k : ds[i] = cs[i]

RunsTo(cs, k, t)    == {j \in 1..k : cs[j].fn = "luaD_rawrunprotected" /\ cs[j].th = t}
HandlerAt(cs, k, t) == Innermost(RunsTo(cs, k, t))
CallsTo(cs, k)      == {j \in 1..k : cs[j].inc = 1}
CallsAt(cs, k)      == Cardinality(CallsTo(cs, k))
BasesTo(cs, k)      == {j \in 1..k : cs[j].fn \in Bases /\ cs[j].th = cs[k].th}
NnysTo(cs, k)       == {j \in 1..k : j >= Innermost(BasesTo(cs, k)) /\ cs[j].nny = 1}
NnyAt(cs, k)        == (IF cs[k].th = main THEN 1 ELSE 0) + Cardinality(NnysTo(cs, k))
OfThread(cs, t)     == {j \in 1..Len(cs) : cs[j].th = t}
LastOf(cs, t)       == Innermost(OfThread(cs, t))

(* ---- largest elements ---- *)
LEMMA Largest ==
  ASSUME NEW n \in Nat, NEW S \in SUBSET (1..n), S # {}
  PROVE  \E k \in S : \A j \in S : j <= k
<1> DEFINE R == {i \in Nat : n - i \in S}
<1>1. R # {} /\ R \subseteq Nat
  <2>1. PICK k \in S : TRUE  OBVIOUS
  <2>2. k \in 1..n /\ n - k \in Nat /\ n - (n - k) = k  BY <2>1
  <2>3. n - k \in R  BY <2>1, <2>2
  <2> QED BY <2>3
<1>2. PICK i \in R : \A j \in R : ~(<<j, i>> \in OpToRel(<, Nat))
  BY <1>1, WFMin, NatLessThanWellFounded
<1>3. i \in Nat /\ n - i \in S  BY <1>2
<1>4. \A j \in S : j <= n - i
  <2> TAKE j \in S
  <2>1. j \in 1..n /\ n - j \in Nat /\ n - (n - j) = j  OBVIOUS
  <2>2. n - j \in R  BY <2>1
  <2>3. ~(n - j < i)  BY <1>2, <1>3, <2>1, <2>2 DEF OpToRel
  <2> QED BY <2>1, <2>3, <1>3
<1> QED BY <1>3, <1>4

LEMMA InnermostIs ==
  ASSUME NEW n \in Nat, NEW S \in SUBSET (1..n)
  PROVE  /\ S = {} => Innermost(S) = 0
         /\ S # {} => Innermost(S) \in S
         /\ \A j \in S : j <= Innermost(S)
         /\ Innermost(S) \in 0..n
<1>1. CASE S = {}  BY <1>1 DEF Innermost
<1>2. CASE S # {}
  <2>1. \E k \in S : \A j \in S : j <= k  BY <1>2, Largest
  <2> DEFINE m == CHOOSE k \in S : \A j \in S : j <= k
  <2>2. m \in S /\ \A j \in S : j <= m  BY <2>1
  <2>3. Innermost(S) = m  BY <1>2 DEF Innermost
  <2> HIDE DEF m
  <2> QED BY <1>2, <2>2, <2>3
<1> QED BY <1>1, <1>2

LEMMA InnermostUnique ==
  ASSUME NEW n \in Nat, NEW S \in SUBSET (1..n), NEW m \in S, \A j \in S : j <= m
  PROVE  Innermost(S) = m
<1>1. Innermost(S) \in S /\ m <= Innermost(S)  BY InnermostIs
<1>2. Innermost(S) <= m  BY <1>1
<1>3. \A j \in S : j \in Nat  OBVIOUS
<1>4. m \in Nat /\ Innermost(S) \in Nat  BY <1>1, <1>3
<1> QED BY <1>1, <1>2, <1>4

(* ---- one more record ---- *)
LEMMA SetsAgree ==
  ASSUME NEW cs, NEW ds, NEW k \in Nat, Agree(cs, ds, k), NEW j \in 0..k, NEW t
  PROVE  /\ RunsTo(ds, j, t) = RunsTo(cs, j, t) /\ CallsTo(ds, j) = CallsTo(cs, j)
         /\ j > 0 => BasesTo(ds, j) = BasesTo(cs, j)
<1>1. \A i \in 1..j : ds[i] = cs[i]  BY DEF Agree
<1>2. j > 0 => ds[j] = cs[j]  BY <1>1
<1>3. RunsTo(ds, j, t) = RunsTo(cs, j, t)  BY <1>1 DEF RunsTo
<1>4. CallsTo(ds, j) = CallsTo(cs, j)  BY <1>1 DEF CallsTo
<1>5. j > 0 => BasesTo(ds, j) = BasesTo(cs, j)  BY <1>1, <1>2 DEF BasesTo
<1> QED BY <1>3, <1>4, <1>5

LEMMA AtAgrees ==
  ASSUME NEW cs, NEW ds, NEW k \in Nat, Agree(cs, ds, k), NEW j \in 0..k, NEW t
  PROVE  /\ HandlerAt(ds, j, t) = HandlerAt(cs, j, t) /\ CallsAt(ds, j) = CallsAt(cs, j)
         /\ j > 0 => NnyAt(ds, j) = NnyAt(cs, j)
<1>1. HandlerAt(ds, j, t) = HandlerAt(cs, j, t) /\ CallsAt(ds, j) = CallsAt(cs, j)
  BY SetsAgree DEF HandlerAt, CallsAt
<1>2. ASSUME j > 0 PROVE NnyAt(ds, j) = NnyAt(cs, j)
  <2>1. BasesTo(ds, j) = BasesTo(cs, j)  BY <1>2, SetsAgree
  <2>2. \A i \in 1..j : ds[i] = cs[i]  BY DEF Agree
  <2>3. NnysTo(ds, j) = NnysTo(cs, j)  BY <2>1, <2>2 DEF NnysTo
  <2>4. ds[j] = cs[j]  BY <2>2, <1>2
  <2> QED BY <2>3, <2>4 DEF NnyAt
<1> QED BY <1>1, <1>2

LEMMA HandlerGrows ==
  ASSUME NEW cs, NEW k \in Nat \ {0}, NEW t
  PROVE  /\ HandlerAt(cs, k, t) = IF cs[k].fn = "luaD_rawrunprotected" /\ cs[k].th = t THEN k
                                  ELSE HandlerAt(cs, k - 1, t)
         /\ HandlerAt(cs, k, t) \in 0..k
         /\ HandlerAt(cs, k, t) # 0 => /\ cs[HandlerAt(cs, k, t)].fn = "luaD_rawrunprotected"
                                       /\ cs[HandlerAt(cs, k, t)].th = t
<1>1. RunsTo(cs, k, t) \in SUBSET (1..k)  BY DEF RunsTo
<1>2. ASSUME cs[k].fn = "luaD_rawrunprotected" /\ cs[k].th = t
      PROVE  HandlerAt(cs, k, t) = k
  <2>1. k \in RunsTo(cs, k, t)  BY <1>2 DEF RunsTo
  <2>2. \A j \in RunsTo(cs, k, t) : j <= k  BY <1>1
  <2>3. Innermost(RunsTo(cs, k, t)) = k  BY <1>1, <2>1, <2>2, InnermostUnique
  <2> QED BY <1>2, <2>3 DEF HandlerAt
<1>3. ASSUME ~(cs[k].fn = "luaD_rawrunprotected" /\ cs[k].th = t)
      PROVE  HandlerAt(cs, k, t) = HandlerAt(cs, k - 1, t)
  <2>1. RunsTo(cs, k, t) = RunsTo(cs, k - 1, t)
    <3>1. 1..k = (1..k-1) \cup {k}  OBVIOUS
    <3> QED BY <3>1, <1>3 DEF RunsTo
  <2> QED BY <1>3, <2>1 DEF HandlerAt
<1>4. /\ HandlerAt(cs, k, t) \in 0..k
      /\ HandlerAt(cs, k, t) # 0 => HandlerAt(cs, k, t) \in RunsTo(cs, k, t)
  BY <1>1, InnermostIs DEF HandlerAt
<1> QED BY <1>2, <1>3, <1>4 DEF RunsTo

LEMMA CallsGrow ==
  ASSUME NEW cs, NEW k \in Nat \ {0}, cs[k].inc \in {0, 1}
  PROVE  CallsAt(cs, k) = CallsAt(cs, k - 1) + cs[k].inc /\ CallsAt(cs, k - 1) \in Nat
<1>0. 1..k = (1..k-1) \cup {k} /\ k \notin 1..k-1  OBVIOUS
<1>1. IsFiniteSet(CallsTo(cs, k - 1)) /\ Cardinality(CallsTo(cs, k - 1)) \in Nat
  <2>1. IsFiniteSet(1..k-1)  BY FS_Interval
  <2>2. CallsTo(cs, k - 1) \subseteq 1..k-1  BY DEF CallsTo
  <2> QED BY <2>1, <2>2, FS_Subset, FS_CardinalityType
<1>2. CASE cs[k].inc = 1
  <2>1. CallsTo(cs, k) = CallsTo(cs, k - 1) \cup {k}  BY <1>0, <1>2 DEF CallsTo
  <2>2. k \notin CallsTo(cs, k - 1)  BY <1>0 DEF CallsTo
  <2>3. Cardinality(CallsTo(cs, k - 1) \cup {k}) = Cardinality(CallsTo(cs, k - 1)) + 1
    BY <1>1, <2>2, FS_AddElement
  <2> QED BY <1>1, <1>2, <2>1, <2>3 DEF CallsAt
<1>3. CASE cs[k].inc = 0
  <2>1. CallsTo(cs, k) = CallsTo(cs, k - 1)  BY <1>0, <1>3 DEF CallsTo
  <2> QED BY <1>1, <1>3, <2>1 DEF CallsAt
<1> QED BY <1>2, <1>3

LEMMA NnyGrows ==
  ASSUME NEW cs, NEW k \in Nat \ {0}, cs[k].nny \in {0, 1}
  PROVE  /\ cs[k].fn \in Bases => NnyAt(cs, k) = (IF cs[k].th = main THEN 1 ELSE 0) + cs[k].nny
         /\ cs[k].fn \notin Bases /\ k > 1 /\ cs[k].th = cs[k - 1].th =>
              NnyAt(cs, k) = NnyAt(cs, k - 1) + cs[k].nny
         /\ NnyAt(cs, k) \in Nat
<1>0. 1..k = (1..k-1) \cup {k} /\ k \notin 1..k-1  OBVIOUS
<1>1. \A j \in Nat : IsFiniteSet(NnysTo(cs, j)) /\ Cardinality(NnysTo(cs, j)) \in Nat
  <2> TAKE j \in Nat
  <2>1. IsFiniteSet(1..j)  BY FS_Interval
  <2>2. NnysTo(cs, j) \subseteq 1..j  BY DEF NnysTo
  <2> QED BY <2>1, <2>2, FS_Subset, FS_CardinalityType
<1>2. ASSUME cs[k].fn \in Bases
      PROVE  NnyAt(cs, k) = (IF cs[k].th = main THEN 1 ELSE 0) + cs[k].nny
  <2>1. BasesTo(cs, k) \in SUBSET (1..k) /\ k \in BasesTo(cs, k)  BY <1>2 DEF BasesTo
  <2>2. \A j \in BasesTo(cs, k) : j <= k  BY <2>1
  <2>3. Innermost(BasesTo(cs, k)) = k  BY <2>1, <2>2, InnermostUnique
  <2>4. NnysTo(cs, k) = IF cs[k].nny = 1 THEN {k} ELSE {}  BY <2>3 DEF NnysTo
  <2>5. Cardinality(NnysTo(cs, k)) = cs[k].nny  BY <2>4, FS_EmptySet, FS_Singleton
  <2> QED BY <2>5 DEF NnyAt
<1>3. ASSUME cs[k].fn \notin Bases, k > 1, cs[k].th = cs[k - 1].th
      PROVE  NnyAt(cs, k) = NnyAt(cs, k - 1) + cs[k].nny
  <2>1. BasesTo(cs, k) = BasesTo(cs, k - 1)  BY <1>0, <1>3 DEF BasesTo
  <2> DEFINE b == Innermost(BasesTo(cs, k))
  <2>2. b \in 0..k-1
    <3>1. BasesTo(cs, k - 1) \in SUBSET (1..k-1) /\ k - 1 \in Nat  BY DEF BasesTo
    <3> QED BY <2>1, <3>1, InnermostIs
  <2>3. b = Innermost(BasesTo(cs, k - 1))  BY <2>1
  <2> HIDE DEF b
  <2>a. NnysTo(cs, k) = {j \in 1..k : j >= b /\ cs[j].nny = 1}  BY DEF NnysTo, b
  <2>b. NnysTo(cs, k - 1) = {j \in 1..k-1 : j >= b /\ cs[j].nny = 1}  BY <2>3 DEF NnysTo
  <2>c. IsFiniteSet(NnysTo(cs, k - 1)) /\ Cardinality(NnysTo(cs, k - 1)) \in Nat  BY <1>1
  <2>4. CASE cs[k].nny = 1
    <3>1. NnysTo(cs, k) = NnysTo(cs, k - 1) \cup {k}  BY <1>0, <2>2, <2>4, <2>a, <2>b
    <3>2. k \notin NnysTo(cs, k - 1)  BY <1>0, <2>b
    <3>3. Cardinality(NnysTo(cs, k - 1) \cup {k}) = Cardinality(NnysTo(cs, k - 1)) + 1
      BY <2>c, <3>2, FS_AddElement
    <3> QED BY <1>3, <2>c, <2>4, <3>1, <3>3 DEF NnyAt
  <2>5. CASE cs[k].nny = 0
    <3>1. NnysTo(cs, k) = NnysTo(cs, k - 1)  BY <1>0, <2>5, <2>a, <2>b
    <3> QED BY <1>3, <2>c, <2>5, <3>1 DEF NnyAt
  <2> QED BY <2>4, <2>5
<1>4. NnyAt(cs, k) \in Nat  BY <1>1 DEF NnyAt
<1> QED BY <1>2, <1>3, <1>4
------------------------------------------------------------------------------
(* ---- the invariant of the C stack ---- *)
(* Functions that call luaD_rawrunprotected, and it; all others run in it.   *)
Special == {"host", "lua_resume", "lua_closethread", "luaD_pcall", "luaD_closeprotected",
            "luaD_rawrunprotected"}
Whole(r) == {"fn", "th", "inc", "nny", "oldci"} \subseteq DOMAIN r
Loose(r) == r.fn = "luaF_close" /\ ~r.yy

(* A yield by record k would go to lua_resume, or is refused. *)
Lands(cs, k) == cs[HandlerAt(cs, k, cs[k].th) - 1].fn # "lua_resume" => NnyAt(cs, k) >= 1

Adds(cs, k) ==
  /\ cs[k].th \in Threads /\ cs[k].fn # "host"
  /\ cs[k].inc \in {0, 1} /\ cs[k].nny \in {0, 1} /\ CallsAt(cs, k) <= ErrorCcalls
  /\ cs[k].fn \notin {"luaV_execute", "luaG_errormsg"} =>
       cs[k].nny = 0 /\ (cs[k].fn # "lua_resume" => cs[k].inc = 0)
Follows(cs, k) ==
  /\ cs[k].fn \notin Bases => cs[k].th = cs[k - 1].th
  /\ cs[k].fn \in Bases => cs[k].th # main /\ cs[k].from = cs[k - 1].th
  /\ cs[k].th # cs[k - 1].th => \A i \in 1..k - 1 : cs[i].th # cs[k].th
  /\ cs[k].fn = "lua_resume" => /\ cs[k].th # cs[k - 1].th
                                /\ cs[k - 1].fn \in {"luaB_coresume", "luaB_auxwrap"}
  /\ cs[k].fn = "lua_closethread" => cs[k - 1].fn \in {"luaB_close", "luaB_auxwrap"}
  /\ cs[k].fn = "luaD_pcall" => cs[k - 1].fn \in {"host", "luaB_pcall", "luaB_xpcall"} /\ cs[k].oldci \in Nat
  /\ cs[k].fn = "luaD_closeprotected" => /\ cs[k - 1].fn \in {"luaD_pcall", "lua_closethread"}
                                         /\ cs[k].oldci \in Nat
                                         /\ Whole(cs[k])
Saves(cs, k) ==
  cs[k].fn = "luaD_rawrunprotected" =>
    /\ cs[k - 1].fn \in {"luaD_pcall", "luaD_closeprotected", "lua_resume"}
    /\ cs[k].previous = HandlerAt(cs, k - 1, cs[k].th)
    /\ cs[k].nC = CallsAt(cs, k - 1) /\ cs[k].oldnny = NnyAt(cs, k - 1)
Handled(cs, k) ==
  cs[k].fn \notin Special => /\ HandlerAt(cs, k, cs[k].th) > 1
                             /\ Loose(cs[k]) \/ Lands(cs, k)
Joins(cs, k) == Adds(cs, k) /\ Follows(cs, k) /\ Saves(cs, k) /\ Handled(cs, k)

Sound(cs) ==
  /\ IsSeq(cs) /\ Len(cs) >= 1
  /\ cs[1].fn = "host" /\ cs[1].th = main /\ cs[1].inc = 0 /\ cs[1].nny = 0
  /\ \A k \in 2..Len(cs) : Joins(cs, k)
  /\ \A i, j, k \in 1..Len(cs) : i <= j /\ j <= k /\ cs[i].th = cs[k].th => cs[j].th = cs[k].th

(* ---- the invariant of a thread X ---- *)
Good(X) == /\ {"status", "ci", "top", "tbclist", "nC", "nny", "errorJmp", "errfunc", "stack"} \subseteq DOMAIN X
           /\ Len(X.ci) \in Nat
Fits(X, cs, k) == /\ X.errorJmp = HandlerAt(cs, k, cs[k].th)
                  /\ X.nC = CallsAt(cs, k) /\ X.nny = NnyAt(cs, k)
Right(X, cs, t) ==
  /\ Good(X)
  /\ LastOf(cs, t) = 0 => X.errorJmp = 0
  /\ LastOf(cs, t) > 0 => Fits(X, cs, LastOf(cs, t))
  /\ LastOf(cs, t) > 0 /\ t # Last(cs).th => X.status = "LUA_OK" /\ Len(X.ci) > 1
Sane(H, cs) == DOMAIN H = Threads /\ Sound(cs) /\ \A t \in Threads : Right(H[t], cs, t)
RunOK(X, top, r) ==
  /\ X.status = "LUA_OK" \/ (top.fn = "resume" /\ r = "none")
  /\ top.fn \in {"luaB_close", "luaB_coresume", "luaB_auxwrap"} /\ r = "none" => Len(X.ci) > 1
IInv == Sane(th, cstack) /\ RunOK(T, Top, ret)
------------------------------------------------------------------------------
(* ---- stacks made from stacks ---- *)
IsCut(cs, ds, n)  == IsSeq(ds) /\ Len(ds) = n /\ Agree(cs, ds, n)
IsPush(cs, ds, r) == IsSeq(ds) /\ Len(ds) = Len(cs) + 1 /\ Agree(cs, ds, Len(cs)) /\ ds[Len(cs) + 1] = r

LEMMA IsSeqIs ==
  ASSUME NEW S, NEW s \in Seq(S)
  PROVE  IsSeq(s) /\ Len(s) \in Nat
<1>1. Len(s) \in Nat /\ DOMAIN s = 1..Len(s) /\ s \in [1..Len(s) -> S]  BY LenProperties
<1> DEFINE R == {s[i] : i \in 1..Len(s)}
<1>2. s \in [1..Len(s) -> R]  BY <1>1
<1>3. s \in Seq(R)  BY <1>1, <1>2, SeqDef
<1> QED BY <1>1, <1>3 DEF IsSeq

LEMMA CutIs ==
  ASSUME NEW cs, IsSeq(cs), NEW n \in 0..Len(cs)
  PROVE  IsCut(cs, SubSeq(cs, 1, n), n)
<1> DEFINE R == {cs[i] : i \in 1..Len(cs)}
<1>0. cs \in Seq(R) /\ Len(cs) \in Nat  BY LenProperties DEF IsSeq
<1> HIDE DEF R
<1>1. /\ SubSeq(cs, 1, n) \in Seq(R) /\ Len(SubSeq(cs, 1, n)) = n
      /\ \A i \in 1..n : SubSeq(cs, 1, n)[i] = cs[1 + i - 1]
  <2>1. 1 \in 1..Len(cs) + 1 /\ n \in 1 - 1..Len(cs) /\ n - 1 + 1 = n  BY <1>0
  <2>2. n = (IF 1 <= n THEN n - 1 + 1 ELSE 0)  BY <2>1
  <2> QED BY <1>0, <2>1, <2>2, SubSeqProperties
<1>2. \A i \in 1..n : 1 + i - 1 = i  OBVIOUS
<1>3. IsSeq(SubSeq(cs, 1, n))  BY <1>1, IsSeqIs
<1> QED BY <1>1, <1>2, <1>3 DEF IsCut, Agree

LEMMA PushIs ==
  ASSUME NEW cs, IsSeq(cs), NEW r
  PROVE  IsPush(cs, Append(cs, r), r)
<1> DEFINE R == {cs[i] : i \in 1..Len(cs)} \cup {r}
<1>0. cs \in Seq(R) /\ Len(cs) \in Nat
  BY SeqMonotonic, LenProperties DEF IsSeq
<1>1. r \in R  OBVIOUS
<1> HIDE DEF R
<1>2. /\ Append(cs, r) \in Seq(R) /\ Len(Append(cs, r)) = Len(cs) + 1
      /\ \A i \in 1..Len(cs) : Append(cs, r)[i] = cs[i]
      /\ Append(cs, r)[Len(cs) + 1] = r
  BY <1>0, <1>1, AppendProperties
<1>3. IsSeq(Append(cs, r))  BY <1>2, IsSeqIs
<1> QED BY <1>2, <1>3 DEF IsPush, Agree

LEMMA PushTwo ==
  ASSUME NEW cs, IsSeq(cs), NEW a, NEW b
  PROVE  cs \o <<a, b>> = Append(Append(cs, a), b)
<1> DEFINE R == {cs[i] : i \in 1..Len(cs)} \cup {a, b}
<1>0. cs \in Seq(R) /\ Len(cs) \in Nat
  BY SeqMonotonic, LenProperties DEF IsSeq
<1>1. a \in R /\ b \in R  OBVIOUS
<1> HIDE DEF R
<1> DEFINE ds == Append(Append(cs, a), b)  es == cs \o <<a, b>>
<1>2. /\ ds \in Seq(R) /\ Len(ds) = Len(cs) + 2
      /\ \A i \in 1..Len(cs) : ds[i] = cs[i]
      /\ ds[Len(cs) + 1] = a /\ ds[Len(cs) + 2] = b
  <2>1. Append(cs, a) \in Seq(R) /\ Len(Append(cs, a)) = Len(cs) + 1  BY <1>0, <1>1, AppendProperties
  <2>2. /\ \A i \in 1..Len(cs) : Append(cs, a)[i] = cs[i]
        /\ Append(cs, a)[Len(cs) + 1] = a
    BY <1>0, <1>1, AppendProperties
  <2>3. /\ ds \in Seq(R) /\ Len(ds) = Len(cs) + 1 + 1
        /\ \A i \in 1..Len(cs) + 1 : ds[i] = Append(cs, a)[i]
        /\ ds[Len(cs) + 1 + 1] = b
    BY <2>1, <1>1, AppendProperties
  <2> QED BY <1>0, <2>2, <2>3
<1>3. <<a, b>> \in Seq(R) /\ Len(<<a, b>>) = 2  BY <1>1
<1>4. /\ es \in Seq(R) /\ Len(es) = Len(cs) + 2
      /\ \A i \in 1..Len(cs) + 2 : es[i] = IF i <= Len(cs) THEN cs[i] ELSE <<a, b>>[i - Len(cs)]
  BY <1>0, <1>3, ConcatProperties
<1>5. es[Len(cs) + 1] = a /\ es[Len(cs) + 2] = b
  <2>1. Len(cs) + 1 - Len(cs) = 1 /\ Len(cs) + 2 - Len(cs) = 2  BY <1>0
  <2> QED BY <1>0, <1>4, <2>1
<1>6. \A i \in 1..Len(ds) : ds[i] = es[i]
  <2> TAKE i \in 1..Len(ds)
  <2>1. i \in 1..Len(cs) \/ i = Len(cs) + 1 \/ i = Len(cs) + 2  BY <1>0, <1>2
  <2> QED BY <1>0, <1>2, <1>4, <1>5, <2>1
<1> HIDE DEF ds, es
<1>7. ds = es  BY <1>2, <1>4, <1>6, SeqEqual
<1> QED BY <1>7 DEF ds, es

LEMMA JoinsAgree ==
  ASSUME NEW cs, NEW ds, NEW n \in Nat, Agree(cs, ds, n), NEW k \in 2..n, Joins(cs, k)
  PROVE  Joins(ds, k)
<1>1. k \in 0..n /\ k - 1 \in 0..n /\ k > 0 /\ k - 1 > 0 /\ k \in Nat \ {0} /\ k - 1 \in 1..n /\ k \in 1..n
  OBVIOUS
<1>2. ds[k] = cs[k] /\ ds[k - 1] = cs[k - 1]  BY <1>1 DEF Agree
<1> DEFINE t == cs[k].th  h == HandlerAt(cs, k, t)
<1>3. /\ HandlerAt(ds, k, t) = h /\ CallsAt(ds, k) = CallsAt(cs, k) /\ NnyAt(ds, k) = NnyAt(cs, k)
  BY <1>1, AtAgrees
<1> DEFINE m == k - 1
<1>4. m \in 0..n /\ m > 0  BY <1>1
<1> HIDE DEF m
<1>5. /\ HandlerAt(ds, m, t) = HandlerAt(cs, m, t)
      /\ CallsAt(ds, m) = CallsAt(cs, m) /\ NnyAt(ds, m) = NnyAt(cs, m)
  BY <1>4, AtAgrees
<1>6. Adds(ds, k)  BY <1>2, <1>3 DEF Joins, Adds
<1>7. Follows(ds, k)
  <2>1. \A i \in 1..k - 1 : ds[i] = cs[i]  BY <1>1 DEF Agree
  <2> QED BY <1>2, <2>1 DEF Joins, Follows
<1>8. Saves(ds, k)  BY <1>2, <1>5 DEF Joins, Saves, m
<1>9. Handled(ds, k)
  <2>1. h \in 0..k  BY <1>1, HandlerGrows
  <2>2. h > 1 => ds[h - 1] = cs[h - 1]
    <3> HIDE DEF h
    <3>1. h > 1 => h - 1 \in 1..n  BY <2>1, <1>1
    <3> QED BY <3>1 DEF Agree
  <2>3. Handled(cs, k)  BY DEF Joins
  <2>4. CASE cs[k].fn \in Special  BY <1>2, <2>4 DEF Handled
  <2>5. CASE cs[k].fn \notin Special
    <3>1. h > 1 /\ (Loose(cs[k]) \/ Lands(cs, k))  BY <2>3, <2>5 DEF Handled
    <3>2. Lands(cs, k) => Lands(ds, k)  BY <1>2, <1>3, <2>2, <3>1 DEF Lands
    <3> QED BY <1>2, <1>3, <3>1, <3>2 DEF Handled
  <2> QED BY <2>4, <2>5
<1> QED BY <1>6, <1>7, <1>8, <1>9 DEF Joins
------------------------------------------------------------------------------
LEMMA SoundCut ==
  ASSUME NEW cs, Sound(cs), NEW n \in 1..Len(cs), NEW ds, IsCut(cs, ds, n)
  PROVE  Sound(ds)
<1>0. Len(cs) \in Nat  BY IsSeqIs DEF Sound, IsSeq
<1>1. \A i \in 1..n : ds[i] = cs[i] /\ i \in 1..Len(cs)  BY <1>0 DEF IsCut, Agree
<1>2. \A k \in 2..n : Joins(ds, k)
  <2> TAKE k \in 2..n
  <2>1. Joins(cs, k)  BY <1>0 DEF Sound
  <2>2. n \in Nat /\ Agree(cs, ds, n)  BY <1>0 DEF IsCut
  <2> QED BY <2>1, <2>2, JoinsAgree
<1>3. 1 \in 1..n  BY <1>0
<1>4. \A i, j, k \in 1..n : i <= j /\ j <= k /\ ds[i].th = ds[k].th => ds[j].th = ds[k].th
  BY <1>1 DEF Sound
<1>5. ds[1] = cs[1] /\ n >= 1  BY <1>1, <1>3
<1> QED BY <1>2, <1>4, <1>5 DEF Sound, IsCut

LEMMA SoundPush ==
  ASSUME NEW cs, Sound(cs), NEW ds, NEW r, IsPush(cs, ds, r), Joins(ds, Len(cs) + 1)
  PROVE  Sound(ds)
<1> DEFINE n == Len(cs)
<1>0. n \in Nat /\ n >= 1  BY IsSeqIs DEF Sound, IsSeq
<1>1. Len(ds) = n + 1 /\ Agree(cs, ds, n) /\ ds[n + 1] = r /\ IsSeq(ds)  BY DEF IsPush
<1>2. \A i \in 1..n : ds[i] = cs[i]  BY <1>1 DEF Agree
<1>3. \A k \in 2..n : Joins(cs, k)  BY DEF Sound
<1>4. \A i, j, k \in 1..n : i <= j /\ j <= k /\ cs[i].th = cs[k].th => cs[j].th = cs[k].th
  BY DEF Sound
<1>5. Joins(ds, n + 1)  OBVIOUS
<1>6. cs[1].fn = "host" /\ cs[1].th = main /\ cs[1].inc = 0 /\ cs[1].nny = 0  BY DEF Sound
<1> HIDE DEF n
<1>7. \A k \in 2..n + 1 : Joins(ds, k)
  <2> TAKE k \in 2..n + 1
  <2>1. k \in 2..n \/ k = n + 1  BY <1>0
  <2>2. CASE k \in 2..n
    <3>1. Joins(cs, k)  BY <2>2, <1>3
    <3> QED BY <1>0, <1>1, <2>2, <3>1, JoinsAgree
  <2> QED BY <1>5, <2>1, <2>2
<1>8. \A i, j, k \in 1..n + 1 : i <= j /\ j <= k /\ ds[i].th = ds[k].th => ds[j].th = ds[k].th
  <2> SUFFICES ASSUME NEW i \in 1..n + 1, NEW j \in 1..n + 1, NEW k \in 1..n + 1,
                      i <= j, j <= k, ds[i].th = ds[k].th
               PROVE  ds[j].th = ds[k].th
    OBVIOUS
  <2>1. CASE k \in 1..n
    <3>1. i \in 1..n /\ j \in 1..n  BY <2>1, <1>0
    <3> QED BY <2>1, <3>1, <1>2, <1>4
  <2>2. CASE k = n + 1 /\ j # k
    <3>1. i \in 1..n /\ j \in 1..n /\ n \in 1..n /\ j <= n  BY <2>2, <1>0
    <3>2. (n + 1) - 1 = n /\ n + 1 # n  BY <1>0
    <3>9. Follows(ds, n + 1)  BY <1>5 DEF Joins
    <3>a. ds[n + 1].th # ds[(n + 1) - 1].th => \A q \in 1..(n + 1) - 1 : ds[q].th # ds[n + 1].th
      BY <3>9 DEF Follows
    <3>3. ds[n + 1].th # ds[n].th => \A q \in 1..n : ds[q].th # ds[n + 1].th
      BY <3>2, <3>a
    <3>4. ds[n + 1].th = ds[n].th  BY <3>1, <3>3, <2>2
    <3>5. cs[i].th = cs[n].th  BY <3>1, <3>4, <2>2, <1>2
    <3>6. cs[j].th = cs[n].th  BY <3>1, <3>5, <1>4
    <3> QED BY <3>1, <3>4, <3>6, <2>2, <1>2
  <2>3. k \in 1..n \/ k = n + 1  BY <1>0
  <2> QED BY <2>1, <2>2, <2>3
<1>9. ds[1] = cs[1] /\ n + 1 >= 1  BY <1>0, <1>2
<1> QED BY <1>1, <1>6, <1>7, <1>8, <1>9 DEF Sound

(* ---- the running thread and the others ---- *)
LEMMA LastOfIs ==
  ASSUME NEW cs, IsSeq(cs), NEW t
  PROVE  /\ LastOf(cs, t) \in 0..Len(cs) /\ Len(cs) \in Nat
         /\ LastOf(cs, t) > 0 => cs[LastOf(cs, t)].th = t
         /\ \A j \in 1..Len(cs) : cs[j].th = t => j <= LastOf(cs, t)
<1>0. Len(cs) \in Nat  BY IsSeqIs DEF IsSeq
<1>1. OfThread(cs, t) \in SUBSET (1..Len(cs))  BY DEF OfThread
<1>2. /\ OfThread(cs, t) = {} => LastOf(cs, t) = 0
      /\ OfThread(cs, t) # {} => LastOf(cs, t) \in OfThread(cs, t)
      /\ \A j \in OfThread(cs, t) : j <= LastOf(cs, t)
      /\ LastOf(cs, t) \in 0..Len(cs)
  BY <1>0, <1>1, InnermostIs DEF LastOf
<1>3. LastOf(cs, t) > 0 => cs[LastOf(cs, t)].th = t  BY <1>2 DEF OfThread
<1>4. \A j \in 1..Len(cs) : cs[j].th = t => j <= LastOf(cs, t)  BY <1>2 DEF OfThread
<1> QED BY <1>0, <1>2, <1>3, <1>4

LEMMA LastOfUnique ==
  ASSUME NEW cs, IsSeq(cs), NEW k \in 1..Len(cs), \A j \in k + 1..Len(cs) : cs[j].th # cs[k].th
  PROVE  LastOf(cs, cs[k].th) = k
<1>0. Len(cs) \in Nat  BY IsSeqIs DEF IsSeq
<1>1. OfThread(cs, cs[k].th) \in SUBSET (1..Len(cs)) /\ k \in OfThread(cs, cs[k].th)  BY DEF OfThread
<1>2. \A j \in OfThread(cs, cs[k].th) : j <= k  BY <1>0 DEF OfThread
<1> QED BY <1>0, <1>1, <1>2, InnermostUnique DEF LastOf

(* Stacks 'cs' and 'ds' differ in the records of the running thread only;   *)
(* these begin at m.                                                        *)
MineFrom(cs, ds, l, m) ==
  /\ m \in 1..Len(cs) /\ m <= Len(ds) /\ Agree(cs, ds, m - 1)
  /\ \A j \in m..Len(cs) : cs[j].th = l
  /\ \A j \in m..Len(ds) : ds[j].th = l
  /\ \A j \in 1..m - 1 : cs[j].th # l
Mine(cs, ds) == \E m \in 1..Len(cs) : MineFrom(cs, ds, Last(cs).th, m)

LEMMA MineSelf ==
  ASSUME NEW cs, Sound(cs)
  PROVE  Mine(cs, cs)
<1> DEFINE n == Len(cs)  l == Last(cs).th  O == {j \in 1..n : cs[j].th # l}  m == Innermost(O) + 1
<1>0. n \in Nat /\ n >= 1 /\ cs[n].th = l  BY IsSeqIs DEF Sound, IsSeq, Last
<1>1. /\ O = {} => Innermost(O) = 0
      /\ O # {} => Innermost(O) \in O
      /\ \A j \in O : j <= Innermost(O)
      /\ Innermost(O) \in 0..n
  BY <1>0, InnermostIs
<1>2. \A i, j, k \in 1..n : i <= j /\ j <= k /\ cs[i].th = cs[k].th => cs[j].th = cs[k].th
  BY DEF Sound
<1>3. n \notin O  BY <1>0
<1>4. m \in 1..n /\ m <= n  BY <1>0, <1>1, <1>3
<1>5. \A j \in m..n : cs[j].th = l  BY <1>0, <1>1, <1>4
<1>6. \A j \in 1..m - 1 : cs[j].th # l
  <2> SUFFICES ASSUME NEW j \in 1..m - 1, cs[j].th = l PROVE FALSE  OBVIOUS
  <2>1. Innermost(O) \in O /\ m - 1 = Innermost(O)  BY <1>1
  <2>2. j \in 1..n /\ j <= m - 1 /\ m - 1 \in 1..n /\ m - 1 <= n /\ n \in 1..n  BY <1>0, <1>1, <2>1
  <2>3. cs[m - 1].th = cs[n].th  BY <1>0, <1>2, <2>2
  <2> QED BY <1>0, <2>1, <2>3
<1> HIDE DEF m
<1>7. Agree(cs, cs, m - 1)  BY DEF Agree
<1> QED BY <1>4, <1>5, <1>6, <1>7 DEF Mine, MineFrom

LEMMA MinePush ==
  ASSUME NEW cs, Sound(cs), NEW ds, IsSeq(ds), Mine(cs, ds), NEW r, NEW es, IsPush(ds, es, r), r.th = Last(cs).th
  PROVE  Mine(cs, es) /\ Last(es) = r
<1> DEFINE l == Last(cs).th
<1>1. PICK m \in 1..Len(cs) : MineFrom(cs, ds, l, m)  BY DEF Mine
<1>2. Len(ds) \in Nat /\ Len(cs) \in Nat  BY IsSeqIs DEF IsSeq, Sound
<1>3. Len(es) = Len(ds) + 1 /\ \A i \in 1..Len(ds) : es[i] = ds[i]  BY DEF IsPush, Agree
<1>4. es[Len(ds) + 1] = r  BY DEF IsPush
<1>5. Agree(cs, es, m - 1)  BY <1>1, <1>2, <1>3 DEF MineFrom, Agree
<1>6. \A j \in m..Len(es) : es[j].th = l
  <2> TAKE j \in m..Len(es)
  <2>1. j \in m..Len(ds) \/ j = Len(ds) + 1  BY <1>2, <1>3
  <2>2. j \in m..Len(ds) => j \in 1..Len(ds)  BY <1>2
  <2> QED BY <1>1, <1>3, <1>4, <2>1, <2>2 DEF MineFrom
<1>7. m <= Len(es)  BY <1>1, <1>2, <1>3 DEF MineFrom
<1>8. MineFrom(cs, es, l, m)  BY <1>1, <1>5, <1>6, <1>7 DEF MineFrom
<1>9. Last(es) = r  BY <1>3, <1>4 DEF Last
<1> QED BY <1>8, <1>9 DEF Mine

LEMMA MineCut ==
  ASSUME NEW cs, Sound(cs), NEW ds, IsSeq(ds), Mine(cs, ds), NEW k \in 1..Len(ds), ds[k].th = Last(cs).th,
         NEW es, IsCut(ds, es, k)
  PROVE  Mine(cs, es) /\ Last(es) = ds[k]
<1> DEFINE l == Last(cs).th
<1>1. PICK m \in 1..Len(cs) : MineFrom(cs, ds, l, m)  BY DEF Mine
<1>2. Len(ds) \in Nat /\ Len(cs) \in Nat  BY IsSeqIs DEF IsSeq, Sound
<1>3. Len(es) = k /\ \A i \in 1..k : es[i] = ds[i]  BY DEF IsCut, Agree
<1>4. m <= k
  <2> SUFFICES ASSUME k < m PROVE FALSE  BY <1>2
  <2>1. k \in 1..m - 1  BY <1>2
  <2>2. cs[k].th # l /\ ds[k] = cs[k]  BY <1>1, <2>1 DEF MineFrom, Agree
  <2> QED BY <2>2
<1>5. Agree(cs, es, m - 1)  BY <1>1, <1>2, <1>3, <1>4 DEF MineFrom, Agree
<1>6. \A j \in m..Len(es) : es[j].th = l  BY <1>1, <1>2, <1>3 DEF MineFrom
<1>8. MineFrom(cs, es, l, m)  BY <1>1, <1>3, <1>4, <1>5, <1>6 DEF MineFrom
<1>9. Last(es) = ds[k]  BY <1>2, <1>3 DEF Last
<1> QED BY <1>8, <1>9 DEF Mine

LEMMA OthersSame ==
  ASSUME NEW cs, IsSeq(cs), NEW ds, IsSeq(ds), NEW l, NEW m, MineFrom(cs, ds, l, m), NEW t, t # l
  PROVE  LastOf(ds, t) = LastOf(cs, t) /\ Agree(cs, ds, LastOf(cs, t))
<1>0. Len(cs) \in Nat /\ Len(ds) \in Nat /\ m \in Nat /\ m <= Len(cs) /\ m <= Len(ds)
  BY IsSeqIs DEF IsSeq, MineFrom
<1>1. OfThread(cs, t) = {j \in 1..m - 1 : cs[j].th = t}
  BY <1>0 DEF OfThread, MineFrom
<1>2. OfThread(ds, t) = {j \in 1..m - 1 : ds[j].th = t}
  BY <1>0 DEF OfThread, MineFrom
<1>3. \A j \in 1..m - 1 : ds[j] = cs[j]  BY DEF MineFrom, Agree
<1>4. OfThread(ds, t) = OfThread(cs, t)  BY <1>1, <1>2, <1>3
<1>5. LastOf(cs, t) \in 0..m - 1
  <2>1. m - 1 \in Nat  BY <1>0 DEF MineFrom
  <2> QED BY <1>1, <2>1, InnermostIs DEF LastOf
<1> QED BY <1>0, <1>3, <1>4, <1>5 DEF LastOf, Agree

LEMMA RightSame ==
  ASSUME NEW cs, IsSeq(cs), NEW ds, IsSeq(ds), NEW t, NEW X, Right(X, cs, t), t # Last(cs).th,
         LastOf(ds, t) = LastOf(cs, t), Agree(cs, ds, LastOf(cs, t))
  PROVE  Right(X, ds, t)
<1> DEFINE k == LastOf(cs, t)
<1>1. k \in Nat  BY LastOfIs
<1>2. ASSUME k > 0 PROVE Fits(X, ds, k)
  <2>1. Fits(X, cs, k)  BY <1>2 DEF Right
  <2>2. k \in 0..k /\ k \in 1..k  BY <1>1, <1>2
  <2>3. ds[k] = cs[k]  BY <2>2 DEF Agree
  <2> HIDE DEF k
  <2>4. Agree(cs, ds, k)  BY DEF k
  <2>5. /\ HandlerAt(ds, k, cs[k].th) = HandlerAt(cs, k, cs[k].th)
        /\ CallsAt(ds, k) = CallsAt(cs, k) /\ NnyAt(ds, k) = NnyAt(cs, k)
    BY <1>1, <1>2, <2>2, <2>4, AtAgrees
  <2> QED BY <2>1, <2>3, <2>5 DEF Fits
<1> QED BY <1>2 DEF Right

LEMMA Stays ==
  ASSUME NEW H, NEW cs, Sane(H, cs), NEW ds, Sound(ds), Mine(cs, ds), NEW X, Good(X), Fits(X, ds, Len(ds))
  PROVE  Sane([H EXCEPT ![Last(cs).th] = X], ds) /\ Last(ds).th = Last(cs).th
<1> DEFINE l == Last(cs).th
<1>0. /\ Sound(cs) /\ IsSeq(cs) /\ IsSeq(ds) /\ DOMAIN H = Threads
      /\ Len(cs) \in Nat /\ Len(ds) \in Nat /\ Len(cs) >= 1 /\ Len(ds) >= 1
  BY IsSeqIs DEF Sane, Sound, IsSeq
<1>1. PICK m \in 1..Len(cs) : MineFrom(cs, ds, l, m)  BY DEF Mine
<1>2. ds[Len(ds)].th = l  BY <1>0, <1>1 DEF MineFrom
<1>3. ASSUME NEW t \in Threads, t # l PROVE Right(H[t], ds, t)
  <2>1. Right(H[t], cs, t)  BY DEF Sane
  <2>2. LastOf(ds, t) = LastOf(cs, t) /\ Agree(cs, ds, LastOf(cs, t))  BY <1>0, <1>1, <1>3, OthersSame
  <2> QED BY <1>0, <1>3, <2>1, <2>2, RightSame
<1>4. LastOf(ds, l) = Len(ds)
  <2>1. Len(ds) \in 1..Len(ds) /\ \A j \in Len(ds) + 1..Len(ds) : FALSE  BY <1>0
  <2> QED BY <1>0, <1>2, <2>1, LastOfUnique
<1>5. Right(X, ds, l)  BY <1>0, <1>2, <1>4 DEF Right, Last
<1> HIDE DEF l
<1>6. \A t \in Threads : [H EXCEPT ![l] = X][t] = IF t = l THEN X ELSE H[t]  BY <1>0
<1>7. \A t \in Threads : Right([H EXCEPT ![l] = X][t], ds, t)  BY <1>3, <1>5, <1>6
<1>8. DOMAIN [H EXCEPT ![l] = X] = Threads  BY <1>0
<1> QED BY <1>0, <1>2, <1>7, <1>8 DEF Sane, l, Last
------------------------------------------------------------------------------
(* ---- changes of a thread that leave its handler and its counts ---- *)
Alike(X, Y) ==
  Good(Y) /\ Y.errorJmp = X.errorJmp /\ Y.nC = X.nC /\ Y.nny = X.nny /\ Y.status = X.status

LEMMA StoreAlike ==
  ASSUME NEW X, Good(X), NEW i, NEW vals
  PROVE  Alike(X, Store(X, i, vals)) /\ Store(X, i, vals).ci = X.ci
BY DEF Alike, Good, Store

LEMMA SetAlike ==
  ASSUME NEW X, Good(X), NEW v
  PROVE  /\ Alike(X, [X EXCEPT !.top = v]) /\ [X EXCEPT !.top = v].ci = X.ci
         /\ Alike(X, [X EXCEPT !.stack = v]) /\ [X EXCEPT !.stack = v].ci = X.ci
         /\ Alike(X, [X EXCEPT !.tbclist = v]) /\ [X EXCEPT !.tbclist = v].ci = X.ci
         /\ Alike(X, [X EXCEPT !.errfunc = v]) /\ [X EXCEPT !.errfunc = v].ci = X.ci
BY DEF Alike, Good

LEMMA SetCiAlike ==
  ASSUME NEW X, Good(X), NEW c
  PROVE  Alike(X, SetCi(X, c)) /\ Len(SetCi(X, c).ci) >= 1
<1>1. Len(Append(Front(X.ci), c)) \in Nat \ {0}  BY DEF Good, Front
<1> QED BY <1>1 DEF Alike, Good, SetCi

LEMMA NewFrameAlike ==
  ASSUME NEW X, Good(X), NEW fn, NEW func, NEW nres, NEW fresh
  PROVE  /\ Alike(X, NewFrame(X, fn, func, nres, fresh))
         /\ Len(NewFrame(X, fn, func, nres, fresh).ci) = Len(X.ci) + 1
<1> DEFINE c == CallInfo(fn, func, nres, fresh)
<1> HIDE DEF c
<1>1. Len(Append(X.ci, c)) = Len(X.ci) + 1  BY DEF Good
<1>2. NewFrame(X, fn, func, nres, fresh) = [X EXCEPT !.ci = Append(X.ci, c)]  BY DEF NewFrame, c
<1> QED BY <1>1, <1>2 DEF Alike, Good

LEMMA PoscallAlike ==
  ASSUME NEW X, Good(X), NEW n
  PROVE  Alike(X, Poscall(X, n))
<1> DEFINE Y == genmoveresults(X, Last(X.ci).func, n, Last(X.ci).nresults)
<1>1. Alike(X, Y) /\ Y.ci = X.ci  BY StoreAlike DEF genmoveresults
<1>2. Poscall(X, n) = [Y EXCEPT !.ci = Front(Y.ci)]  BY DEF Poscall
<1> HIDE DEF Y
<1>3. Len(Front(Y.ci)) \in Nat  BY <1>1 DEF Alike, Good, Front
<1> QED BY <1>1, <1>2, <1>3 DEF Alike, Good
------------------------------------------------------------------------------
(* ---- the working stack 'ds' of the running thread 'X' ---- *)
Works(cs, ds, X) == /\ Sound(ds) /\ Mine(cs, ds) /\ Last(ds).th = Last(cs).th
                    /\ Good(X) /\ Fits(X, ds, Len(ds))
Landing(ds) == ds[HandlerAt(ds, Len(ds), Last(ds).th) - 1]
Zero(r)     == r.inc = 0 /\ r.nny = 0
Counted(r)  == /\ r.inc \in {0, 1} /\ r.nny \in {0, 1}
               /\ r.fn \notin {"luaV_execute", "luaG_errormsg"} => Zero(r)

LEMMA SoundTop ==
  ASSUME NEW cs, Sound(cs)
  PROVE  /\ IsSeq(cs) /\ Len(cs) \in Nat /\ Len(cs) >= 1 /\ Last(cs) = cs[Len(cs)]
         /\ Last(cs).fn # "host" => Len(cs) >= 2 /\ Joins(cs, Len(cs))
         /\ Last(cs).th \in Threads
         /\ CallsAt(cs, Len(cs)) \in Nat /\ CallsAt(cs, Len(cs)) <= ErrorCcalls /\ NnyAt(cs, Len(cs)) \in Nat
         /\ Last(cs).inc \in {0, 1} /\ Last(cs).nny \in {0, 1}
<1> DEFINE n == Len(cs)
<1>1. IsSeq(cs) /\ n \in Nat /\ n >= 1 /\ Last(cs) = cs[n]  BY IsSeqIs DEF Sound, IsSeq, Last
<1> HIDE DEF n
<1>2. CASE n = 1
  <2>1. cs[1].fn = "host" /\ cs[1].th = main /\ cs[1].inc = 0 /\ cs[1].nny = 0  BY DEF Sound
  <2>2. CallsTo(cs, 0) = {}  BY DEF CallsTo
  <2>3. CallsAt(cs, 0) = 0  BY <2>2, FS_EmptySet DEF CallsAt
  <2>4. CallsAt(cs, 1) = CallsAt(cs, 0) + cs[1].inc  BY <2>1, CallsGrow
  <2>5. CallsAt(cs, 1) = 0  BY <2>1, <2>3, <2>4
  <2>6. NnyAt(cs, 1) \in Nat  BY <2>1, NnyGrows
  <2> QED BY <1>1, <1>2, <2>1, <2>5, <2>6, CallsAssumption DEF Threads, n
<1>3. CASE n > 1
  <2>1. n \in 2..Len(cs) /\ n \in Nat \ {0}  BY <1>1, <1>3 DEF n
  <2>2. Joins(cs, n)  BY <2>1 DEF Sound
  <2>3. /\ cs[n].th \in Threads /\ cs[n].inc \in {0, 1} /\ cs[n].nny \in {0, 1}
        /\ CallsAt(cs, n) <= ErrorCcalls
    BY <2>2 DEF Joins, Adds
  <2>4. CallsAt(cs, n) = CallsAt(cs, n - 1) + cs[n].inc /\ CallsAt(cs, n - 1) \in Nat
    BY <2>1, <2>3, CallsGrow
  <2>5. NnyAt(cs, n) \in Nat  BY <2>1, <2>3, NnyGrows
  <2>6. CallsAt(cs, n) \in Nat  BY <2>3, <2>4
  <2> QED BY <1>1, <1>3, <2>2, <2>3, <2>5, <2>6 DEF n
<1> QED BY <1>1, <1>2, <1>3

LEMMA PushAt ==
  ASSUME NEW cs, Sound(cs), NEW r, r.inc \in {0, 1}, r.nny \in {0, 1}, NEW ds, IsPush(cs, ds, r), NEW t
  PROVE  /\ Last(ds) = r /\ Len(ds) = Len(cs) + 1 /\ ds[Len(cs) + 1] = r /\ ds[Len(cs)] = Last(cs)
         /\ (Len(cs) + 1) - 1 = Len(cs) /\ Len(cs) + 1 \in Nat \ {0} /\ Len(cs) + 1 >= 2
         /\ CallsAt(ds, Len(cs) + 1) = CallsAt(cs, Len(cs)) + r.inc
         /\ CallsAt(ds, Len(cs)) = CallsAt(cs, Len(cs)) /\ NnyAt(ds, Len(cs)) = NnyAt(cs, Len(cs))
         /\ HandlerAt(ds, Len(cs) + 1, t) =
              IF r.fn = "luaD_rawrunprotected" /\ r.th = t THEN Len(cs) + 1 ELSE HandlerAt(cs, Len(cs), t)
         /\ HandlerAt(ds, Len(cs), t) = HandlerAt(cs, Len(cs), t)
         /\ r.fn \in Bases => NnyAt(ds, Len(cs) + 1) = (IF r.th = main THEN 1 ELSE 0) + r.nny
         /\ r.fn \notin Bases /\ r.th = Last(cs).th => NnyAt(ds, Len(cs) + 1) = NnyAt(cs, Len(cs)) + r.nny
<1> DEFINE n == Len(cs)  k == n + 1
<1>1. n \in Nat /\ n >= 1 /\ Last(cs) = cs[n]  BY SoundTop
<1>2. Len(ds) = k /\ Agree(cs, ds, n) /\ ds[k] = r  BY DEF IsPush
<1> HIDE DEF n
<1>3. ds[n] = cs[n]  BY <1>1, <1>2 DEF Agree
<1>4. k \in Nat \ {0} /\ k - 1 = n /\ k > 1  BY <1>1
<1> HIDE DEF k
<1>5. n \in 0..n /\ n > 0  BY <1>1
<1>6. HandlerAt(ds, n, t) = HandlerAt(cs, n, t) /\ CallsAt(ds, n) = CallsAt(cs, n) /\ NnyAt(ds, n) = NnyAt(cs, n)
  BY <1>1, <1>2, <1>5, AtAgrees
<1>7. CallsAt(ds, k) = CallsAt(ds, n) + r.inc  BY <1>2, <1>4, CallsGrow
<1>8. HandlerAt(ds, k, t) = IF r.fn = "luaD_rawrunprotected" /\ r.th = t THEN k ELSE HandlerAt(ds, n, t)
  BY <1>2, <1>4, HandlerGrows
<1>9. /\ r.fn \in Bases => NnyAt(ds, k) = (IF r.th = main THEN 1 ELSE 0) + r.nny
      /\ r.fn \notin Bases /\ r.th = ds[n].th => NnyAt(ds, k) = NnyAt(ds, n) + r.nny
  BY <1>2, <1>4, NnyGrows
<1>10. Last(ds) = r  BY <1>2 DEF Last
<1>11. k = Len(cs) + 1 /\ n = Len(cs)  BY DEF k, n
<1> QED BY <1>1, <1>2, <1>3, <1>4, <1>6, <1>7, <1>8, <1>9, <1>10, <1>11

(* The same for a record that begins a count of non-yieldable calls. *)
BasePushed(cs, ds, r) ==
  /\ Last(ds) = r /\ Len(ds) = Len(cs) + 1 /\ ds[Len(cs) + 1] = r /\ ds[Len(cs)] = Last(cs)
  /\ (Len(cs) + 1) - 1 = Len(cs) /\ Len(cs) + 1 \in Nat \ {0} /\ Len(cs) + 1 >= 2
  /\ CallsAt(ds, Len(cs) + 1) = CallsAt(cs, Len(cs)) + r.inc
  /\ HandlerAt(ds, Len(cs) + 1, r.th) = HandlerAt(cs, Len(cs), r.th)
  /\ NnyAt(ds, Len(cs) + 1) = (IF r.th = main THEN 1 ELSE 0) + r.nny
LEMMA PushBase ==
  ASSUME NEW cs, Sound(cs), NEW r, r.inc \in {0, 1}, r.nny \in {0, 1}, r.fn \in Bases,
         NEW ds, IsPush(cs, ds, r)
  PROVE  BasePushed(cs, ds, r)
<1> DEFINE n == Len(cs)  k == n + 1  t == r.th
<1>1. n \in Nat /\ n >= 1 /\ Last(cs) = cs[n]  BY SoundTop
<1>2. Len(ds) = k /\ Agree(cs, ds, n) /\ ds[k] = r  BY DEF IsPush
<1> HIDE DEF n
<1>3. ds[n] = cs[n]  BY <1>1, <1>2 DEF Agree
<1>4. k \in Nat \ {0} /\ k - 1 = n /\ k >= 2  BY <1>1
<1> HIDE DEF k, t
<1>5. n \in 0..n  BY <1>1
<1>6. HandlerAt(ds, n, t) = HandlerAt(cs, n, t) /\ CallsAt(ds, n) = CallsAt(cs, n)
  BY <1>1, <1>2, <1>5, AtAgrees
<1>7. CallsAt(ds, k) = CallsAt(ds, n) + r.inc  BY <1>2, <1>4, CallsGrow
<1>8. HandlerAt(ds, k, t) = HandlerAt(ds, n, t)
  <2>1. ds[k].fn # "luaD_rawrunprotected"  BY <1>2 DEF Bases
  <2> QED BY <1>4, <2>1, HandlerGrows
<1>9. NnyAt(ds, k) = (IF r.th = main THEN 1 ELSE 0) + r.nny  BY <1>2, <1>4, NnyGrows
<1>10. Last(ds) = r  BY <1>2 DEF Last
<1>11. k = Len(cs) + 1 /\ n = Len(cs) /\ t = r.th  BY DEF k, n, t
<1> QED BY <1>1, <1>2, <1>3, <1>4, <1>6, <1>7, <1>8, <1>9, <1>10, <1>11 DEF BasePushed

LEMMA HandlerBounds ==
  ASSUME NEW cs, Sound(cs), NEW t
  PROVE  LET h == HandlerAt(cs, Len(cs), t) IN
         /\ h \in 0..Len(cs) /\ h # 1
         /\ h # 0 => h > 1 /\ cs[h].fn = "luaD_rawrunprotected" /\ cs[h].th = t /\ Joins(cs, h)
<1> DEFINE h == HandlerAt(cs, Len(cs), t)
<1>1. Len(cs) \in Nat \ {0}  BY SoundTop
<1>2. h \in 0..Len(cs) /\ (h # 0 => cs[h].fn = "luaD_rawrunprotected" /\ cs[h].th = t)
  BY <1>1, HandlerGrows
<1>3. cs[1].fn = "host"  BY DEF Sound
<1> HIDE DEF h
<1>4. h # 1  BY <1>2, <1>3
<1>5. h # 0 => h \in 2..Len(cs)  BY <1>1, <1>2, <1>4
<1>6. h # 0 => Joins(cs, h)  BY <1>5 DEF Sound
<1> QED BY <1>1, <1>2, <1>4, <1>5, <1>6 DEF h

(* A function that is not one of Special is called. *)
LEMMA WorksPush ==
  ASSUME NEW cs, Sound(cs), NEW ds, NEW X, Works(cs, ds, X), NEW r, NEW Y, Good(Y),
         r.fn \notin Special, r.th = Last(cs).th, Counted(r),
         X.errorJmp # 0, Loose(r) \/ r.nny = 1 \/ Lands(ds, Len(ds)),
         Y.errorJmp = X.errorJmp, Y.nC = X.nC + r.inc, Y.nny = X.nny + r.nny, Y.nC <= ErrorCcalls
  PROVE  /\ Works(cs, Append(ds, r), Y) /\ Last(Append(ds, r)) = r
         /\ ~Loose(r) => Lands(Append(ds, r), Len(Append(ds, r)))
<1> DEFINE es == Append(ds, r)  n == Len(ds)  k == n + 1  h == HandlerAt(ds, n, Last(ds).th)
<1>0. Sound(ds) /\ Mine(cs, ds) /\ Last(ds).th = Last(cs).th /\ Good(X) /\ Fits(X, ds, n)  BY DEF Works
<1>1. IsSeq(ds) /\ n \in Nat /\ n >= 1 /\ Last(ds) = ds[n] /\ r.th \in Threads  BY <1>0, SoundTop
<1>2. IsPush(ds, es, r)  BY <1>1, PushIs
<1> HIDE DEF es
<1>3. /\ Last(es) = r /\ Len(es) = k /\ es[k] = r /\ es[n] = Last(ds) /\ k - 1 = n /\ k >= 2 /\ k \in Nat
      /\ CallsAt(es, k) = CallsAt(ds, n) + r.inc
      /\ HandlerAt(es, k, r.th) = h
      /\ NnyAt(es, k) = NnyAt(ds, n) + r.nny
  <2>1. r.inc \in {0, 1} /\ r.nny \in {0, 1}  BY DEF Counted
  <2>2. r.fn \notin Bases /\ r.fn # "luaD_rawrunprotected"  BY DEF Special, Bases
  <2> QED BY <1>0, <1>1, <1>2, <2>1, <2>2, PushAt
<1>4. h \in 0..n /\ (h # 0 => h > 1)  BY <1>0, HandlerBounds
<1>5. X.errorJmp = h /\ X.nC = CallsAt(ds, n) /\ X.nny = NnyAt(ds, n)  BY <1>0, <1>1 DEF Fits
<1> HIDE DEF h, n
<1>6. es[h - 1] = ds[h - 1]
  <2>1. h - 1 \in 1..Len(ds)  BY <1>1, <1>4, <1>5 DEF n
  <2> QED BY <1>2, <2>1 DEF IsPush, Agree
<1>n. NnyAt(ds, n) \in Nat  BY <1>0, SoundTop DEF n
<1> HIDE DEF k
<1>7. Lands(es, k) \/ Loose(r)
  <2>1. CASE Loose(r)  BY <2>1
  <2>2. CASE r.nny = 1
    <3>1. NnyAt(es, k) >= 1  BY <1>3, <1>n, <2>2
    <3> QED BY <3>1 DEF Lands
  <2>3. CASE Lands(ds, Len(ds)) /\ ~Loose(r)
    <3>1. ds[h - 1].fn # "lua_resume" => NnyAt(ds, n) >= 1  BY <1>1, <2>3 DEF Lands, h, n
    <3>2. r.nny \in {0, 1}  BY DEF Counted
    <3>3. es[h - 1].fn # "lua_resume" => NnyAt(es, k) >= 1  BY <1>3, <1>6, <1>n, <3>1, <3>2
    <3> QED BY <1>3, <3>3 DEF Lands
  <2> QED BY <2>1, <2>2, <2>3
<1>8. Joins(es, k)
  <2>1. Adds(es, k)
    <3>1. CallsAt(es, k) <= ErrorCcalls  BY <1>3, <1>5
    <3>2. r.fn # "host"  BY DEF Special
    <3> QED BY <1>1, <1>3, <3>1, <3>2 DEF Adds, Counted, Zero
  <2>2. Follows(es, k)  BY <1>0, <1>3 DEF Follows, Special, Bases
  <2>3. Saves(es, k)  BY <1>3 DEF Saves, Special
  <2>4. Handled(es, k)  BY <1>3, <1>4, <1>5, <1>7 DEF Handled
  <2> QED BY <2>1, <2>2, <2>3, <2>4 DEF Joins
<1>9. Sound(es)  BY <1>0, <1>2, <1>8, SoundPush DEF k, n
<1>10. Mine(cs, es)  BY <1>0, <1>1, <1>2, MinePush
<1>11. Fits(Y, es, k)  BY <1>3, <1>5 DEF Fits
<1>12. Works(cs, es, Y)  BY <1>3, <1>9, <1>10, <1>11 DEF Works
<1> QED BY <1>3, <1>7, <1>12 DEF es

(* A call that catches errors begins. *)
LEMMA WorksProtect ==
  ASSUME NEW cs, Sound(cs), NEW ds, NEW X, Works(cs, ds, X), NEW r, NEW Y, Alike(X, Y),
         r.th = Last(cs).th, Zero(r), r.oldci \in Nat, Whole(r),
         \/ r.fn = "luaD_pcall" /\ Last(ds).fn \in {"host", "luaB_pcall", "luaB_xpcall"}
         \/ r.fn = "luaD_closeprotected" /\ Last(ds).fn \in {"luaD_pcall", "lua_closethread"}
  PROVE  Works(cs, Append(ds, r), Y) /\ Last(Append(ds, r)) = r
<1> DEFINE es == Append(ds, r)  n == Len(ds)  k == n + 1
<1>0. Sound(ds) /\ Mine(cs, ds) /\ Last(ds).th = Last(cs).th /\ Good(X) /\ Fits(X, ds, n)  BY DEF Works
<1>1. /\ IsSeq(ds) /\ n \in Nat /\ n >= 1 /\ Last(ds) = ds[n] /\ r.th \in Threads
      /\ CallsAt(ds, n) \in Nat /\ CallsAt(ds, n) <= ErrorCcalls /\ NnyAt(ds, n) \in Nat
  BY <1>0, SoundTop
<1>2. IsPush(ds, es, r)  BY <1>1, PushIs
<1> HIDE DEF es
<1>3. /\ Last(es) = r /\ Len(es) = k /\ es[k] = r /\ es[n] = Last(ds) /\ k - 1 = n /\ k \in Nat
      /\ CallsAt(es, k) = CallsAt(ds, n) + r.inc
      /\ HandlerAt(es, k, r.th) = HandlerAt(ds, n, r.th)
      /\ NnyAt(es, k) = NnyAt(ds, n) + r.nny
  <2>1. r.inc \in {0, 1} /\ r.nny \in {0, 1}  BY DEF Zero
  <2>2. r.fn \notin Bases /\ r.fn # "luaD_rawrunprotected"  BY DEF Bases
  <2> QED BY <1>0, <1>1, <1>2, <2>1, <2>2, PushAt
<1> HIDE DEF n
<1> HIDE DEF k
<1>4. Joins(es, k)
  <2>1. Adds(es, k)  BY <1>1, <1>3 DEF Adds, Zero
  <2>2. Follows(es, k)  BY <1>0, <1>3 DEF Follows, Bases
  <2>3. Saves(es, k) /\ Handled(es, k)  BY <1>3 DEF Saves, Handled, Special
  <2> QED BY <2>1, <2>2, <2>3 DEF Joins
<1>5. Sound(es)  BY <1>0, <1>2, <1>4, SoundPush DEF k, n
<1>6. Mine(cs, es)  BY <1>0, <1>1, <1>2, MinePush
<1>7. Fits(Y, es, k) /\ Good(Y)
  <2>1. X.errorJmp = HandlerAt(ds, n, r.th) /\ X.nC = CallsAt(ds, n) /\ X.nny = NnyAt(ds, n)
    BY <1>0, <1>1 DEF Fits
  <2> QED BY <1>1, <1>3, <2>1 DEF Fits, Alike, Zero
<1>8. Works(cs, es, Y)  BY <1>3, <1>5, <1>6, <1>7 DEF Works
<1> QED BY <1>3, <1>8 DEF es

LEMMA WorksRaw ==
  ASSUME NEW cs, Sound(cs), NEW ds, NEW X, Works(cs, ds, X),
         Last(ds).fn \in {"luaD_pcall", "luaD_closeprotected", "lua_resume"}
  PROVE  LET es == rawrun(ds, Last(cs).th, X) IN
         /\ Works(cs, es, Armed(ds, X)) /\ Last(es).fn = "luaD_rawrunprotected"
         /\ Last(es).th = Last(cs).th
         /\ Len(es) = Len(ds) + 1 /\ Armed(ds, X).errorJmp # 0
         /\ Armed(ds, X).nC = X.nC /\ Armed(ds, X).nny = X.nny /\ Armed(ds, X).ci = X.ci
         /\ Armed(ds, X).status = X.status
         /\ Last(ds).fn = "lua_resume" => Lands(es, Len(es))
<1> DEFINE l == Last(cs).th  es == rawrun(ds, l, X)  n == Len(ds)  k == n + 1
           r == [fn |-> "luaD_rawrunprotected", th |-> l, inc |-> 0, nny |-> 0,
                 nC |-> X.nC, oldnny |-> X.nny, previous |-> X.errorJmp]
           Y == Armed(ds, X)
<1>0. Sound(ds) /\ Mine(cs, ds) /\ Last(ds).th = l /\ Good(X) /\ Fits(X, ds, n)  BY DEF Works
<1>1. /\ IsSeq(ds) /\ n \in Nat /\ n >= 1 /\ Last(ds) = ds[n] /\ l \in Threads
      /\ CallsAt(ds, n) \in Nat /\ CallsAt(ds, n) <= ErrorCcalls /\ NnyAt(ds, n) \in Nat
  BY <1>0, SoundTop
<1>2. IsPush(ds, es, r)  BY <1>1, PushIs DEF rawrun
<1> HIDE DEF es
<1>r. /\ r.fn = "luaD_rawrunprotected" /\ r.th = l /\ r.inc = 0 /\ r.nny = 0
      /\ r.nC = X.nC /\ r.oldnny = X.nny /\ r.previous = X.errorJmp
  OBVIOUS
<1>y. /\ Good(Y) /\ Y.errorJmp = k /\ Y.nC = X.nC /\ Y.nny = X.nny /\ Y.ci = X.ci /\ Y.status = X.status
  BY <1>0 DEF Armed, Good
<1> HIDE DEF r, Y
<1>3. /\ Last(es) = r /\ Len(es) = k /\ es[k] = r /\ es[n] = Last(ds) /\ k - 1 = n /\ k \in Nat /\ k >= 2
      /\ CallsAt(es, k) = CallsAt(ds, n) + r.inc
      /\ HandlerAt(es, k, l) = k /\ HandlerAt(es, n, l) = HandlerAt(ds, n, l)
      /\ CallsAt(es, n) = CallsAt(ds, n) /\ NnyAt(es, n) = NnyAt(ds, n)
      /\ NnyAt(es, k) = NnyAt(ds, n) + r.nny
  <2>1. r.inc \in {0, 1} /\ r.nny \in {0, 1} /\ r.th = l  BY <1>r
  <2>2. r.fn \notin Bases /\ r.fn = "luaD_rawrunprotected"  BY <1>r DEF Bases
  <2>3. r.th = Last(ds).th  BY <1>0, <2>1
  <2> HIDE DEF l
  <2> QED BY <1>0, <1>1, <1>2, <2>1, <2>2, <2>3, PushAt
<1>f. X.errorJmp = HandlerAt(ds, n, l) /\ X.nC = CallsAt(ds, n) /\ X.nny = NnyAt(ds, n)
  BY <1>0, <1>1 DEF Fits
<1> HIDE DEF n
<1>d. k = Len(ds) + 1  BY DEF n
<1> HIDE DEF k
<1>4. Joins(es, k)
  <2>1. Adds(es, k)  BY <1>1, <1>3, <1>r DEF Adds
  <2>2. Follows(es, k)  BY <1>0, <1>3, <1>r DEF Follows, Bases
  <2>3. Saves(es, k)  BY <1>3, <1>r, <1>f DEF Saves
  <2>4. Handled(es, k)  BY <1>3, <1>r DEF Handled, Special
  <2> QED BY <2>1, <2>2, <2>3, <2>4 DEF Joins
<1>5. Sound(es)  BY <1>0, <1>2, <1>4, <1>d, SoundPush
<1>6. Mine(cs, es)  BY <1>0, <1>1, <1>2, <1>r, MinePush
<1>7. Fits(Y, es, k)  BY <1>1, <1>3, <1>f, <1>y, <1>r DEF Fits
<1>8. Works(cs, es, Y)  BY <1>3, <1>5, <1>6, <1>7, <1>y, <1>r DEF Works
<1>9. Last(ds).fn = "lua_resume" => Lands(es, k)  BY <1>3, <1>r DEF Lands
<1>10. k # 0  BY <1>3
<1> QED BY <1>3, <1>8, <1>9, <1>10, <1>d, <1>y, <1>r DEF es, Y

LEMMA WorksTop ==
  ASSUME NEW cs, Sound(cs), NEW ds, NEW X, Works(cs, ds, X), Last(ds).fn \notin Special
  PROVE  X.errorJmp # 0 /\ (Loose(Last(ds)) \/ Lands(ds, Len(ds)))
<1>1. Sound(ds) /\ Fits(X, ds, Len(ds))  BY DEF Works
<1>2. Joins(ds, Len(ds)) /\ Last(ds) = ds[Len(ds)]  BY <1>1, SoundTop DEF Special
<1>3. HandlerAt(ds, Len(ds), ds[Len(ds)].th) > 1 /\ (Loose(Last(ds)) \/ Lands(ds, Len(ds)))
  BY <1>2 DEF Joins, Handled
<1> QED BY <1>1, <1>3 DEF Fits

(* ---- calls end ---- *)
LEMMA FitsBelow ==
  ASSUME NEW ds, Sound(ds), NEW k \in 2..Len(ds), NEW X, Fits(X, ds, k),
         ds[k].fn \notin Bases, ds[k].fn # "luaD_rawrunprotected",
         NEW Y, Y.errorJmp = X.errorJmp, Y.nC = X.nC - ds[k].inc, Y.nny = X.nny - ds[k].nny
  PROVE  Fits(Y, ds, k - 1) /\ ds[k - 1].th = ds[k].th
<1>1. Joins(ds, k) /\ k \in Nat \ {0} /\ k > 1  BY SoundTop DEF Sound
<1>2. ds[k].inc \in {0, 1} /\ ds[k].nny \in {0, 1} /\ ds[k].th = ds[k - 1].th
  BY <1>1 DEF Joins, Adds, Follows
<1>3. CallsAt(ds, k) = CallsAt(ds, k - 1) + ds[k].inc /\ CallsAt(ds, k - 1) \in Nat  BY <1>1, <1>2, CallsGrow
<1>4. HandlerAt(ds, k, ds[k].th) = HandlerAt(ds, k - 1, ds[k].th)  BY <1>1, HandlerGrows
<1>5. NnyAt(ds, k) = NnyAt(ds, k - 1) + ds[k].nny  BY <1>1, <1>2, NnyGrows
<1> DEFINE m == k - 1
<1>7. m \in 1..Len(ds) /\ m \in Nat \ {0}  BY <1>1, SoundTop
<1>6. NnyAt(ds, m) \in Nat
  <2>1. ds[m].nny \in {0, 1}
    <3>1. CASE m = 1  BY <3>1 DEF Sound
    <3>2. CASE m # 1
      <4>1. m \in 2..Len(ds)  BY <1>7, <3>2
      <4>2. Joins(ds, m)  BY <4>1 DEF Sound
      <4> QED BY <4>2 DEF Joins, Adds
    <3> QED BY <3>1, <3>2
  <2> HIDE DEF m
  <2> QED BY <2>1, <1>7, NnyGrows
<1> QED BY <1>2, <1>3, <1>4, <1>5, <1>6 DEF Fits

LEMMA WorksCut ==
  ASSUME NEW cs, Sound(cs), NEW ds, NEW X, Works(cs, ds, X),
         NEW k \in 1..Len(ds), ds[k].th = Last(cs).th, NEW Y, Good(Y), Fits(Y, ds, k)
  PROVE  Works(cs, SubSeq(ds, 1, k), Y) /\ Last(SubSeq(ds, 1, k)) = ds[k]
         /\ Len(SubSeq(ds, 1, k)) = k
<1> DEFINE es == SubSeq(ds, 1, k)
<1>0. Sound(ds) /\ Mine(cs, ds)  BY DEF Works
<1>1. IsSeq(ds) /\ Len(ds) \in Nat /\ k \in 0..Len(ds) /\ k \in Nat /\ k \in 0..k /\ k > 0 /\ k \in 1..k
  BY <1>0, SoundTop
<1>2. IsCut(ds, es, k)  BY <1>1, CutIs
<1> HIDE DEF es
<1>3. Sound(es) /\ Len(es) = k /\ Agree(ds, es, k)  BY <1>0, <1>2, SoundCut DEF IsCut
<1>4. Mine(cs, es) /\ Last(es) = ds[k]  BY <1>0, <1>1, <1>2, MineCut
<1>5. es[k] = ds[k]  BY <1>1, <1>3 DEF Agree
<1>6. /\ HandlerAt(es, k, ds[k].th) = HandlerAt(ds, k, ds[k].th)
      /\ CallsAt(es, k) = CallsAt(ds, k) /\ NnyAt(es, k) = NnyAt(ds, k)
  BY <1>1, <1>3, AtAgrees
<1>7. Fits(Y, es, k)  BY <1>5, <1>6 DEF Fits
<1> QED BY <1>3, <1>4, <1>7 DEF Works, es

LEMMA WorksPop ==
  ASSUME NEW cs, Sound(cs), NEW ds, NEW X, Works(cs, ds, X),
         Last(ds).fn \notin Bases, Last(ds).fn # "luaD_rawrunprotected",
         NEW Y, Good(Y), Y.errorJmp = X.errorJmp,
         Y.nC = X.nC - Last(ds).inc, Y.nny = X.nny - Last(ds).nny
  PROVE  /\ Works(cs, Front(ds), Y) /\ Last(Front(ds)) = ds[Len(ds) - 1]
         /\ Len(Front(ds)) = Len(ds) - 1 /\ Len(ds) >= 2
<1> DEFINE k == Len(ds)  m == k - 1
<1>0. Sound(ds) /\ Mine(cs, ds) /\ Last(ds).th = Last(cs).th /\ Fits(X, ds, k)  BY DEF Works
<1>1. k \in Nat /\ k >= 2 /\ Last(ds) = ds[k] /\ k \in 2..Len(ds)  BY <1>0, SoundTop DEF Bases
<1>2. Fits(Y, ds, k - 1) /\ ds[k - 1].th = ds[k].th  BY <1>0, <1>1, FitsBelow
<1>3. m \in 1..Len(ds) /\ Fits(Y, ds, m) /\ ds[m].th = Last(cs).th  BY <1>0, <1>1, <1>2
<1>4. Front(ds) = SubSeq(ds, 1, m)  BY DEF Front
<1> HIDE DEF m
<1>5. Works(cs, SubSeq(ds, 1, m), Y) /\ Last(SubSeq(ds, 1, m)) = ds[m] /\ Len(SubSeq(ds, 1, m)) = m
  BY <1>3, WorksCut
<1> QED BY <1>1, <1>4, <1>5 DEF m

(* What luaD_rawrunprotected saved is restored. *)
LEMMA WorksRestore ==
  ASSUME NEW cs, Sound(cs), NEW ds, NEW X, Works(cs, ds, X),
         NEW h \in 2..Len(ds), ds[h].fn = "luaD_rawrunprotected", ds[h].th = Last(cs).th,
         NEW Z, Good(Z), NEW Y, Y = Restored(Z, ds[h])
  PROVE  /\ Works(cs, SubSeq(ds, 1, h - 1), Y) /\ Last(SubSeq(ds, 1, h - 1)) = ds[h - 1]
         /\ Len(SubSeq(ds, 1, h - 1)) = h - 1 /\ Y.status = Z.status /\ Y.ci = Z.ci
         /\ ds[h - 1].fn \in {"luaD_pcall", "luaD_closeprotected", "lua_resume"}
<1> DEFINE m == h - 1
<1>1. Sound(ds)  BY DEF Works
<1>2. Joins(ds, h) /\ m \in 1..Len(ds)  BY <1>1, SoundTop DEF Sound
<1>3. /\ ds[h - 1].fn \in {"luaD_pcall", "luaD_closeprotected", "lua_resume"}
      /\ ds[h].previous = HandlerAt(ds, h - 1, ds[h].th)
      /\ ds[h].nC = CallsAt(ds, h - 1) /\ ds[h].oldnny = NnyAt(ds, h - 1)
      /\ ds[h].th = ds[h - 1].th
  BY <1>2 DEF Joins, Saves, Follows, Bases
<1>4. /\ Good(Y) /\ Y.errorJmp = ds[h].previous /\ Y.nC = ds[h].nC /\ Y.nny = ds[h].oldnny
      /\ Y.status = Z.status /\ Y.ci = Z.ci
  BY DEF Restored, Good
<1>5. Fits(Y, ds, m) /\ ds[m].th = Last(cs).th  BY <1>3, <1>4 DEF Fits
<1>6. m = h - 1  OBVIOUS
<1> HIDE DEF m
<1>7. Works(cs, SubSeq(ds, 1, m), Y) /\ Last(SubSeq(ds, 1, m)) = ds[m] /\ Len(SubSeq(ds, 1, m)) = m
  BY <1>2, <1>4, <1>5, WorksCut
<1> QED BY <1>3, <1>4, <1>6, <1>7
------------------------------------------------------------------------------
(* ---- one thread runs on ---- *)
LEMMA Runs ==
  ASSUME IInv
  PROVE  /\ Sane(th, cstack) /\ Sound(cstack) /\ L = Last(cstack).th /\ L \in Threads
         /\ Works(cstack, cstack, T) /\ Good(T) /\ RunOK(T, Top, ret) /\ Top = Last(cstack)
         /\ IsSeq(cstack) /\ Len(cstack) \in Nat /\ Len(cstack) >= 1 /\ DOMAIN th = Threads
         /\ T.nC \in Nat /\ T.nC <= ErrorCcalls /\ T.nny \in Nat
<1>1. Sane(th, cstack) /\ Sound(cstack) /\ RunOK(T, Top, ret)  BY DEF IInv, Sane
<1>2. L = Last(cstack).th /\ Top = Last(cstack)  BY DEF L, Top
<1>3. /\ IsSeq(cstack) /\ Len(cstack) \in Nat /\ Len(cstack) >= 1 /\ Last(cstack) = cstack[Len(cstack)]
      /\ L \in Threads
      /\ CallsAt(cstack, Len(cstack)) \in Nat /\ CallsAt(cstack, Len(cstack)) <= ErrorCcalls
      /\ NnyAt(cstack, Len(cstack)) \in Nat
  BY <1>1, <1>2, SoundTop
<1>4. Right(T, cstack, L)  BY <1>1, <1>3 DEF Sane, T
<1>5. LastOf(cstack, L) = Len(cstack)
  <2>1. Len(cstack) \in 1..Len(cstack) /\ \A j \in Len(cstack) + 1..Len(cstack) : FALSE  BY <1>3
  <2> QED BY <1>2, <1>3, <2>1, LastOfUnique
<1>6. Good(T) /\ Fits(T, cstack, Len(cstack))  BY <1>3, <1>4, <1>5 DEF Right
<1>7. Mine(cstack, cstack)  BY <1>1, MineSelf
<1>8. Works(cstack, cstack, T)  BY <1>1, <1>6, <1>7 DEF Works
<1>9. T.nC \in Nat /\ T.nC <= ErrorCcalls /\ T.nny \in Nat  BY <1>3, <1>6 DEF Fits
<1> QED BY <1>1, <1>2, <1>3, <1>6, <1>8, <1>9 DEF Sane

LEMMA SaneNext ==
  ASSUME Sane(th', cstack'), NEW l, Last(cstack').th = l, NEW X, th'[l] = X, RunOK(X, Last(cstack'), ret')
  PROVE  IInv'
BY DEF IInv, T, Top, L

LEMMA Gone ==
  ASSUME IInv, NEW X, NEW cs, NEW r, Goes(X, cs, r), Works(cstack, cs, X), RunOK(X, Last(cs), r)
  PROVE  IInv'
<1>1. Sane(th, cstack) /\ Sound(cstack) /\ L = Last(cstack).th /\ L \in Threads /\ DOMAIN th = Threads  BY Runs
<1>2. Sound(cs) /\ Mine(cstack, cs) /\ Good(X) /\ Fits(X, cs, Len(cs))  BY DEF Works
<1>3. Sane([th EXCEPT ![L] = X], cs) /\ Last(cs).th = L  BY <1>1, <1>2, Stays
<1>4. th' = [th EXCEPT ![L] = X] /\ cstack' = cs /\ ret' = r  BY DEF Goes
<1> DEFINE l == L
<1>5. [th EXCEPT ![l] = X][l] = X /\ l = L  BY <1>1
<1> HIDE DEF l
<1>6. th'[l] = X  BY <1>4, <1>5
<1>7. Sane(th', cstack') /\ Last(cstack').th = l /\ RunOK(X, Last(cstack'), ret')  BY <1>3, <1>4, <1>5
<1> QED BY <1>6, <1>7, SaneNext

(* Plain functions may be called, and may yield. *)
Ready(ds, X) == X.errorJmp # 0 /\ Lands(ds, Len(ds))

LEMMA WorksAlike ==
  ASSUME NEW cs, NEW ds, NEW X, Works(cs, ds, X), NEW Y, Alike(X, Y)
  PROVE  Works(cs, ds, Y)
BY DEF Works, Alike, Fits

LEMMA PopReady ==
  ASSUME NEW cs, Sound(cs), NEW ds, NEW X, Works(cs, ds, X), NEW Y, Alike(X, Y),
         Last(ds).fn \notin Special, Last(ds).fn \notin {"luaV_execute", "luaG_errormsg"}
  PROVE  /\ Works(cs, Front(ds), Y) /\ Last(Front(ds)) = ds[Len(ds) - 1]
         /\ Len(Front(ds)) = Len(ds) - 1 /\ Len(ds) >= 2
         /\ ~Loose(Last(ds)) => Ready(Front(ds), Y)
<1> DEFINE n == Len(ds)  m == n - 1  r == Last(ds)  es == Front(ds)
<1>0. Sound(ds) /\ Fits(X, ds, n)  BY DEF Works
<1>1. n \in Nat /\ n >= 2 /\ r = ds[n] /\ Joins(ds, n) /\ NnyAt(ds, n) \in Nat  BY <1>0, SoundTop DEF Special
<1>2. r.inc = 0 /\ r.nny = 0 /\ r.fn \notin Bases /\ r.fn # "luaD_rawrunprotected"
  BY <1>1 DEF Joins, Adds, Special, Bases
<1>x. X.nC = CallsAt(ds, n) /\ X.nny = NnyAt(ds, n) /\ CallsAt(ds, n) \in Nat  BY <1>0, SoundTop DEF Fits
<1>3. Y.errorJmp = X.errorJmp /\ Y.nC = X.nC - r.inc /\ Y.nny = X.nny - r.nny /\ Good(Y)
  BY <1>1, <1>2, <1>x DEF Alike
<1>4. Works(cs, es, Y) /\ Last(es) = ds[m] /\ Len(es) = m  BY <1>2, <1>3, WorksPop
<1>5. ASSUME ~Loose(r) PROVE Ready(es, Y)
  <2>1. HandlerAt(ds, n, r.th) > 1 /\ Lands(ds, n)  BY <1>1, <1>5 DEF Joins, Handled
  <2>2. Sound(es) /\ Fits(Y, es, m)  BY <1>4 DEF Works
  <2>3. ds[m].th = r.th  BY <1>1, <1>2 DEF Joins, Follows
  <2>m. m \in Nat \ {0} /\ es[m] = Last(es)  BY <1>1, <1>4 DEF Last
  <2>4. Y.errorJmp = HandlerAt(es, m, r.th) /\ Y.nny = NnyAt(es, m)  BY <2>2, <2>3, <2>m, <1>4 DEF Fits
  <2>5. X.errorJmp = HandlerAt(ds, n, r.th) /\ X.nny = NnyAt(ds, n)  BY <1>0, <1>1 DEF Fits
  <2> DEFINE h == HandlerAt(ds, n, r.th)
  <2>a. Y.nny = X.nny /\ Y.errorJmp = X.errorJmp  BY DEF Alike
  <2>6. HandlerAt(es, m, r.th) = h /\ NnyAt(es, m) = NnyAt(ds, n)  BY <2>a, <2>4, <2>5
  <2>7. h > 1 /\ h \in 0..m
    <3>1. HandlerAt(es, m, r.th) \in 0..m  BY <2>m, HandlerGrows
    <3> QED BY <2>1, <2>6, <3>1
  <2>8. es[h - 1] = ds[h - 1]
    <3>1. IsSeq(ds) /\ m \in 0..Len(ds) /\ es = SubSeq(ds, 1, m)  BY <1>0, <1>1, SoundTop DEF Front
    <3>2. IsCut(ds, es, m)  BY <3>1, CutIs
    <3> HIDE DEF h, es, m
    <3>3. h - 1 \in 1..m  BY <2>7, <2>m
    <3> QED BY <3>2, <3>3 DEF IsCut, Agree
  <2>9. Lands(es, m)  BY <1>1, <1>4, <2>1, <2>3, <2>6, <2>8, <2>m DEF Lands
  <2>10. Y.errorJmp # 0  BY <2>4, <2>6, <2>7
  <2> QED BY <1>4, <2>9, <2>10 DEF Ready
<1> QED BY <1>1, <1>4, <1>5

LEMMA TopReady ==
  ASSUME NEW cs, Sound(cs), NEW ds, NEW X, Works(cs, ds, X), Last(ds).fn \notin Special
  PROVE  X.errorJmp # 0 /\ (~Loose(Last(ds)) => Ready(ds, X))
BY WorksTop DEF Ready
------------------------------------------------------------------------------
(* ---- errors and calls ---- *)
LEMMA ErrorOK ==
  ASSUME IInv, NEW cs, NEW Z, Works(cstack, cs, Z), NEW inc \in {0, 1}, NEW nny \in {0, 1},
         NEW X, Good(X), X.errorJmp = Z.errorJmp, X.nC = Z.nC + inc, X.nny = Z.nny + nny,
         X.nC <= ErrorCcalls, X.status = "LUA_OK", Z.errorJmp # 0, nny = 1 \/ Lands(cs, Len(cs)),
         NEW msg, luaG_runerror(X, cs, msg, inc, nny)
  PROVE  IInv'
<1> DEFINE r == errormsg(L, X.top, inc, nny)  Y == Push(X, <<msg>>)
<1>1. Sound(cstack) /\ L = Last(cstack).th  BY Runs
<1>2. /\ r.fn = "luaG_errormsg" /\ r.th = L /\ r.inc = inc /\ r.nny = nny
  BY DEF errormsg
<1>3. r.fn \notin Special /\ Counted(r)  BY <1>2 DEF Special, Counted
<1>4. Alike(X, Y)  BY StoreAlike DEF Push
<1>5. Goes(Y, Append(cs, r), "none")  BY DEF luaG_runerror
<1> HIDE DEF r, Y
<1>6. /\ Good(Y) /\ Y.errorJmp = Z.errorJmp /\ Y.nC = Z.nC + r.inc /\ Y.nny = Z.nny + r.nny
      /\ Y.nC <= ErrorCcalls /\ Y.status = "LUA_OK"
  BY <1>2, <1>4 DEF Alike
<1>7. Loose(r) \/ r.nny = 1 \/ Lands(cs, Len(cs))  BY <1>2
<1>8. Works(cstack, Append(cs, r), Y) /\ Last(Append(cs, r)) = r
  BY <1>1, <1>2, <1>3, <1>6, <1>7, WorksPush
<1>9. RunOK(Y, r, "none")  BY <1>2, <1>6 DEF RunOK
<1> QED BY <1>5, <1>8, <1>9, Gone

LEMMA RunsLua ==
  ASSUME NEW X, X.status = "LUA_OK", NEW top, NEW r,
         top.fn \notin {"luaB_close", "luaB_coresume", "luaB_auxwrap"} \/ r # "none"
  PROVE  RunOK(X, top, r)
BY DEF RunOK

LEMMA PrecallOK ==
  ASSUME IInv, NEW cs, NEW X, Works(cstack, cs, X), X.status = "LUA_OK", Last(cs).fn = "luaV_execute",
         NEW func, NEW nres, NEW fresh, luaD_precall(X, cs, func, nres, fresh)
  PROVE  IInv'
<1> DEFINE Y == Store(X, X.top, SubSeq(<<"nil", "nil">>, X.top - func, 2))
           Z == NewFrame(Y, LuaFrame, func, nres, fresh)
<1>1. Alike(X, Y)  BY StoreAlike DEF Works
<1>2. Alike(Y, Z)  BY <1>1, NewFrameAlike DEF Alike
<1>3. Goes(Z, cs, "none")  BY DEF luaD_precall
<1> HIDE DEF Y, Z
<1>4. Alike(X, Z) /\ Z.status = "LUA_OK"  BY <1>1, <1>2 DEF Alike
<1>5. Works(cstack, cs, Z)  BY <1>4, WorksAlike
<1>6. RunOK(Z, Last(cs), "none")  BY <1>4, RunsLua
<1> QED BY <1>3, <1>5, <1>6, Gone

LEMMA PoscallOK ==
  ASSUME IInv, NEW cs, NEW X, Works(cstack, cs, X), Ready(cs, X), X.status = "LUA_OK",
         NEW n, luaD_poscall(X, cs, n)
  PROVE  IInv'
<1> DEFINE c == Last(X.ci)  q == poscall(L, n)  r == luaF_close(L, c.func, CLOSEKTOP, TRUE)
           Y == SetCi(X, [c EXCEPT !.u2 = n, !.clsret = TRUE])
<1>0. Sound(cstack) /\ L = Last(cstack).th /\ Good(X) /\ Sound(cs) /\ IsSeq(cs)
  BY Runs, SoundTop DEF Works
<1>1. CASE ~c.tbc
  <2> DEFINE Z == Poscall(X, n)
  <2>1. Goes(Z, cs, "done")  BY <1>1 DEF luaD_poscall
  <2>2. Alike(X, Z)  BY <1>0, PoscallAlike
  <2> HIDE DEF Z
  <2>3. Works(cstack, cs, Z) /\ Z.status = "LUA_OK"  BY <2>2, WorksAlike DEF Alike
  <2>4. RunOK(Z, Last(cs), "done")  BY <2>3, RunsLua
  <2> QED BY <2>1, <2>3, <2>4, Gone
<1>2. CASE c.tbc
  <2>1. Goes(Y, cs \o <<q, r>>, "none")  BY <1>2 DEF luaD_poscall
  <2>2. Alike(X, Y)  BY <1>0, SetCiAlike
  <2>3. /\ q.fn = "luaD_poscall" /\ q.th = L /\ q.inc = 0 /\ q.nny = 0
        /\ r.fn = "luaF_close" /\ r.th = L /\ r.inc = 0 /\ r.nny = 0
    BY DEF poscall, luaF_close
  <2> HIDE DEF q, r, Y
  <2>4. cs \o <<q, r>> = Append(Append(cs, q), r)  BY <1>0, PushTwo
  <2>5. q.fn \notin Special /\ Counted(q) /\ ~Loose(q) /\ r.fn \notin Special /\ Counted(r)
    BY <2>3 DEF Special, Counted, Zero, Loose
  <2>x. /\ X.nC = X.nC + q.inc /\ X.nny = X.nny + q.nny /\ X.nC <= ErrorCcalls
        /\ X.nC = X.nC + r.inc /\ X.nny = X.nny + r.nny
    <3>1. X.nC = CallsAt(cs, Len(cs)) /\ X.nny = NnyAt(cs, Len(cs))  BY DEF Works, Fits
    <3>2. X.nC \in Nat /\ X.nC <= ErrorCcalls /\ X.nny \in Nat  BY <1>0, <3>1, SoundTop
    <3> QED BY <2>3, <3>2
  <2>6. /\ Works(cstack, Append(cs, q), X) /\ Last(Append(cs, q)) = q
        /\ Lands(Append(cs, q), Len(Append(cs, q)))
    <3>1. Loose(q) \/ q.nny = 1 \/ Lands(cs, Len(cs))  BY DEF Ready
    <3> QED BY <1>0, <2>3, <2>5, <2>x, <3>1, WorksPush DEF Ready
  <2>7. Works(cstack, Append(Append(cs, q), r), X) /\ Last(Append(Append(cs, q), r)) = r
    <3> DEFINE ds == Append(cs, q)
    <3> HIDE DEF ds
    <3>1. Works(cstack, ds, X) /\ Lands(ds, Len(ds))  BY <2>6 DEF ds
    <3>2. Works(cstack, Append(ds, r), X) /\ Last(Append(ds, r)) = r
      BY <1>0, <2>3, <2>5, <2>x, <3>1, WorksPush DEF Ready
    <3> QED BY <3>2 DEF ds
  <2> DEFINE es == Append(Append(cs, q), r)
  <2>8. Goes(Y, es, "none") /\ Works(cstack, es, X) /\ Last(es) = r  BY <2>1, <2>4, <2>7
  <2> HIDE DEF es
  <2>9. Works(cstack, es, Y) /\ Y.status = "LUA_OK"  BY <2>2, <2>8, WorksAlike DEF Alike
  <2>10. RunOK(Y, Last(es), "none")  BY <2>3, <2>8, <2>9, RunsLua
  <2> QED BY <2>8, <2>9, <2>10, Gone
<1> QED BY <1>1, <1>2
------------------------------------------------------------------------------
(* ---- a thread ends or is suspended, another is resumed or closed ---- *)
LEMMA SaneExcept ==
  ASSUME NEW H, NEW t, NEW X, DOMAIN H = Threads, t \in Threads
  PROVE  /\ DOMAIN [H EXCEPT ![t] = X] = Threads
         /\ [H EXCEPT ![t] = X][t] = X
         /\ \A u \in Threads : u # t => [H EXCEPT ![t] = X][u] = H[u]
OBVIOUS

LEMMA NoRecords ==
  ASSUME NEW cs, Sound(cs), NEW t, LastOf(cs, t) = 0
  PROVE  HandlerAt(cs, Len(cs), t) = 0
<1>1. IsSeq(cs) /\ Len(cs) \in Nat /\ Len(cs) >= 1  BY SoundTop
<1>2. \A j \in 1..Len(cs) : cs[j].th = t => j <= LastOf(cs, t)  BY <1>1, LastOfIs
<1>3. RunsTo(cs, Len(cs), t) = {}  BY <1>1, <1>2 DEF RunsTo
<1> QED BY <1>3 DEF HandlerAt, Innermost

Leaving(H, cs, ds, X, f) ==
  /\ Sane(H, cs) /\ Works(cs, ds, X) /\ Last(ds).fn \in {"lua_resume", "lua_closethread"}
  /\ f = Last(ds).from /\ f # Last(cs).th
Left(H, cs, ds, Z) == Sane([H EXCEPT ![Last(cs).th] = Z], Front(ds))

LEMMA Leaves ==
  ASSUME NEW H, NEW cs, NEW ds, NEW X, NEW f, Leaving(H, cs, ds, X, f), NEW Z, Good(Z), Z.errorJmp = X.errorJmp
  PROVE  /\ Left(H, cs, ds, Z) /\ Last(Front(ds)).th = f /\ f \in Threads
         /\ Works(Front(ds), Front(ds), H[f]) /\ H[f].status = "LUA_OK" /\ Len(H[f].ci) > 1
         /\ Last(Front(ds)) = ds[Len(ds) - 1]
         /\ Last(cs).th # main /\ LastOf(Front(ds), Last(cs).th) = 0 /\ X.errorJmp = 0
         /\ Last(ds).fn = "lua_resume" => Last(Front(ds)).fn \in {"luaB_coresume", "luaB_auxwrap"}
         /\ Last(ds).fn = "lua_closethread" => Last(Front(ds)).fn \in {"luaB_close", "luaB_auxwrap"}
<1> DEFINE n == Len(ds)  m == n - 1  es == Front(ds)  l == Last(cs).th
<1>0. /\ Sound(ds) /\ Mine(cs, ds) /\ Last(ds).th = l /\ Fits(X, ds, n) /\ Sound(cs) /\ DOMAIN H = Threads
      /\ Last(ds).fn \in {"lua_resume", "lua_closethread"} /\ f = Last(ds).from /\ Last(cs).th = l
  BY DEF Leaving, Works, Sane
<1>s. Sane(H, cs) /\ f # l  BY DEF Leaving
<1> HIDE DEF l
<1>1. /\ IsSeq(ds) /\ n \in Nat /\ n >= 2 /\ Last(ds) = ds[n] /\ Joins(ds, n) /\ l \in Threads
      /\ IsSeq(cs) /\ Len(cs) \in Nat
  BY <1>0, SoundTop
<1>2. /\ l # main /\ ds[m].th = f
      /\ \A i \in 1..m : ds[i].th # l
      /\ Last(ds).fn = "lua_resume" => ds[m].fn \in {"luaB_coresume", "luaB_auxwrap"}
      /\ Last(ds).fn = "lua_closethread" => ds[m].fn \in {"luaB_close", "luaB_auxwrap"}
  BY <1>0, <1>1, <1>s DEF Joins, Follows, Bases
<1>3. m \in 1..n /\ m \in 0..n /\ m \in Nat /\ m > 0 /\ m < n /\ m \in 1..m  BY <1>1
<1>4. IsCut(ds, es, m)  BY <1>1, <1>3, CutIs DEF Front
<1> HIDE DEF es
<1>5. Sound(es) /\ IsSeq(es) /\ Len(es) = m /\ \A i \in 1..m : es[i] = ds[i]
  BY <1>0, <1>3, <1>4, SoundCut DEF IsCut, Agree
<1>6. Last(es) = ds[m] /\ Last(es).th = f  BY <1>2, <1>3, <1>5 DEF Last
<1>7. f \in Threads  BY <1>5, <1>6, SoundTop
<1>8. LastOf(es, l) = 0
  <2>1. LastOf(es, l) \in 0..Len(es) /\ (LastOf(es, l) > 0 => es[LastOf(es, l)].th = l)  BY <1>5, LastOfIs
  <2> QED BY <1>2, <1>3, <1>5, <2>1
<1>9. X.errorJmp = 0
  <2>1. X.errorJmp = HandlerAt(ds, n, l)  BY <1>0, <1>1 DEF Fits
  <2>2. n \in Nat \ {0} /\ Last(ds).fn # "luaD_rawrunprotected"  BY <1>0, <1>1
  <2>3. HandlerAt(ds, n, l) = HandlerAt(ds, m, l)  BY <1>1, <2>2, HandlerGrows
  <2>4. HandlerAt(ds, m, l) = HandlerAt(es, m, l)
    <3> HIDE DEF m
    <3>1. Agree(ds, es, m) /\ m \in 0..m  BY <1>3, <1>4 DEF IsCut
    <3> QED BY <1>3, <3>1, AtAgrees
  <2>5. HandlerAt(es, m, l) = 0  BY <1>5, <1>8, NoRecords
  <2> QED BY <2>1, <2>3, <2>4, <2>5
<1>10. PICK k \in 1..Len(cs) : MineFrom(cs, ds, l, k)  BY <1>0 DEF Mine
<1>k. k = n
  <2>1. k <= n /\ \A j \in k..n : ds[j].th = l  BY <1>10 DEF MineFrom
  <2>2. k < n => m \in k..n  BY <1>1, <1>10
  <2>3. k >= n  BY <1>1, <1>2, <1>3, <2>1, <2>2, <1>10
  <2> QED BY <1>1, <2>1, <2>3, <1>10
<1>11. ASSUME NEW t \in Threads, t # l
       PROVE  /\ LastOf(ds, t) = LastOf(cs, t) /\ Agree(cs, ds, LastOf(cs, t))
              /\ LastOf(es, t) = LastOf(cs, t) /\ Agree(cs, es, LastOf(cs, t))
  <2>1. LastOf(ds, t) = LastOf(cs, t) /\ Agree(cs, ds, LastOf(cs, t))  BY <1>1, <1>10, <1>11, OthersSame
  <2>2. OfThread(es, t) = OfThread(ds, t)
    <3>1. \A j \in 1..n : j \in 1..m \/ j = n  BY <1>1
    <3> QED BY <1>0, <1>1, <1>3, <1>5, <1>11, <3>1 DEF OfThread
  <2>3. LastOf(es, t) = LastOf(ds, t)  BY <2>2 DEF LastOf
  <2>4. LastOf(es, t) \in 0..m  BY <1>5, LastOfIs
  <2>5. Agree(cs, es, LastOf(cs, t))  BY <1>3, <1>5, <2>1, <2>3, <2>4 DEF Agree
  <2> QED BY <2>1, <2>3, <2>5
<1>12. ASSUME NEW t \in Threads, t # l PROVE Right(H[t], es, t)
  <2>1. Right(H[t], cs, t)  BY <1>s DEF Sane
  <2> QED BY <1>0, <1>1, <1>5, <1>11, <1>12, <2>1, RightSame
<1>13. LastOf(es, f) = m
  <2>1. m \in 1..Len(es) /\ (\A j \in m + 1..Len(es) : FALSE) /\ es[m].th = f  BY <1>3, <1>5, <1>6 DEF Last
  <2> QED BY <1>5, <2>1, LastOfUnique
<1>14. /\ Good(H[f]) /\ Fits(H[f], es, m) /\ H[f].status = "LUA_OK" /\ Len(H[f].ci) > 1
  <2>1. Right(H[f], es, f)  BY <1>7, <1>12, <1>s
  <2>2. Right(H[f], cs, f)  BY <1>7, <1>s DEF Sane
  <2>3. LastOf(cs, f) = m  BY <1>7, <1>11, <1>13, <1>s
  <2> QED BY <1>0, <1>3, <1>13, <1>s, <2>1, <2>2, <2>3 DEF Right
<1>15. Works(es, es, H[f])
  <2>1. Mine(es, es)  BY <1>5, MineSelf
  <2> QED BY <1>5, <1>14, <2>1 DEF Works
<1>16. Right(Z, es, l)  BY <1>8, <1>9 DEF Right
<1> DEFINE H2 == [H EXCEPT ![l] = Z]
<1>17. DOMAIN H2 = Threads /\ H2[l] = Z /\ \A u \in Threads : u # l => H2[u] = H[u]
  BY <1>0, <1>1, SaneExcept
<1> HIDE DEF H2
<1>18. \A t \in Threads : Right(H2[t], es, t)  BY <1>12, <1>16, <1>17
<1>19. Sane(H2, es)  BY <1>5, <1>17, <1>18 DEF Sane
<1>20. Left(H, cs, ds, Z)  BY <1>0, <1>19 DEF H2, es, Left
<1> QED BY <1>0, <1>2, <1>6, <1>7, <1>8, <1>9, <1>14, <1>15, <1>20 DEF es

LEMMA Enters ==
  ASSUME NEW H, NEW cs, Sane(H, cs), NEW t \in Threads, t # main, LastOf(cs, t) = 0,
         NEW f, f = Last(cs).th, H[f].status = "LUA_OK", Len(H[f].ci) > 1,
         NEW r, r.th = t, r.from = f, r.nny = 0, r.inc \in {0, 1}, CallsAt(cs, Len(cs)) + r.inc <= ErrorCcalls,
         \/ r.fn = "lua_resume" /\ Last(cs).fn \in {"luaB_coresume", "luaB_auxwrap"}
         \/ r.fn = "lua_closethread" /\ r.inc = 0 /\ Last(cs).fn \in {"luaB_close", "luaB_auxwrap"},
         NEW X, Good(X), X.errorJmp = 0, X.nC = CallsAt(cs, Len(cs)) + r.inc, X.nny = 0
  PROVE  /\ Sane([H EXCEPT ![t] = X], Append(cs, r))
         /\ Works(Append(cs, r), Append(cs, r), X) /\ Last(Append(cs, r)) = r
<1> DEFINE n == Len(cs)  k == n + 1  ds == Append(cs, r)
<1>0. Sound(cs) /\ DOMAIN H = Threads  BY DEF Sane
<1>1. /\ IsSeq(cs) /\ n \in Nat /\ n >= 1 /\ f \in Threads /\ CallsAt(cs, n) \in Nat /\ Last(cs) = cs[n]
  BY <1>0, SoundTop
<1>2. IsPush(cs, ds, r)  BY <1>1, PushIs
<1> HIDE DEF ds
<1>3. /\ Last(ds) = r /\ Len(ds) = k /\ ds[k] = r /\ ds[n] = Last(cs) /\ k - 1 = n /\ k \in Nat \ {0} /\ k >= 2
      /\ CallsAt(ds, k) = CallsAt(cs, n) + r.inc
      /\ HandlerAt(ds, k, t) = HandlerAt(cs, n, t)
      /\ NnyAt(ds, k) = 0
  <2>1. r.fn \in Bases /\ r.nny \in {0, 1}  BY DEF Bases
  <2>2. BasePushed(cs, ds, r)  BY <1>0, <1>2, <2>1, PushBase
  <2> QED BY <1>1, <2>2 DEF BasePushed
<1>4. HandlerAt(cs, n, t) = 0  BY <1>0, NoRecords
<1>5. \A i \in 1..n : cs[i].th # t /\ ds[i] = cs[i]
  <2>1. \A j \in 1..n : cs[j].th = t => j <= 0  BY <1>1, LastOfIs
  <2> QED BY <1>1, <1>2, <2>1 DEF IsPush, Agree
<1>6. f # t  BY <1>1, <1>5
<1> HIDE DEF n
<1>d. k = Len(cs) + 1 /\ n = Len(cs)  BY DEF n
<1> HIDE DEF k
<1>7. Joins(ds, k)
  <2>1. Adds(ds, k)  BY <1>3, <1>d DEF Adds
  <2>2. Follows(ds, k)
    <3>1. \A i \in 1..k - 1 : ds[i].th # ds[k].th  BY <1>3, <1>5
    <3>2. ds[k].th # ds[k - 1].th  BY <1>3, <1>6
    <3> QED BY <1>3, <3>1, <3>2 DEF Follows, Bases
  <2>3. Saves(ds, k) /\ Handled(ds, k)  BY <1>3 DEF Saves, Handled, Special
  <2> QED BY <2>1, <2>2, <2>3 DEF Joins
<1>8. Sound(ds) /\ IsSeq(ds)  BY <1>0, <1>2, <1>7, <1>d, SoundPush DEF IsPush
<1>9. Fits(X, ds, k)  BY <1>3, <1>4, <1>d DEF Fits
<1>10. Works(ds, ds, X)
  <2>1. Mine(ds, ds)  BY <1>8, MineSelf
  <2> QED BY <1>3, <1>8, <1>9, <2>1 DEF Works
<1>11. LastOf(ds, t) = k
  <2>1. k \in 1..Len(ds) /\ \A j \in k + 1..Len(ds) : FALSE  BY <1>3
  <2> QED BY <1>3, <1>8, <2>1, LastOfUnique
<1>12. Right(X, ds, t)  BY <1>3, <1>9, <1>11 DEF Right
<1>13. ASSUME NEW u \in Threads, u # t PROVE Right(H[u], ds, u)
  <2>1. Right(H[u], cs, u)  BY DEF Sane
  <2>2. OfThread(ds, u) = OfThread(cs, u)
    <3>1. \A j \in 1..k : j \in 1..n \/ j = k  BY <1>3, <1>1
    <3>2. \A j \in 1..n : j \in 1..k  BY <1>3, <1>1
    <3> QED BY <1>3, <1>5, <1>d, <1>13, <3>1, <3>2 DEF OfThread
  <2>3. LastOf(ds, u) = LastOf(cs, u) /\ LastOf(cs, u) \in 0..n  BY <1>1, <1>d, <2>2, LastOfIs DEF LastOf
  <2>4. Agree(cs, ds, LastOf(cs, u))  BY <1>1, <1>5, <1>d, <2>3 DEF Agree
  <2>5. CASE u # f  BY <1>1, <1>8, <2>1, <2>3, <2>4, <2>5, RightSame
  <2>6. CASE u = f
    <3> DEFINE k2 == LastOf(cs, u)
    <3>1. Fits(H[u], cs, k2) \/ k2 = 0  BY <2>1, <2>3 DEF Right
    <3>2. k2 > 0 => ds[k2] = cs[k2]  BY <1>1, <1>5, <1>d, <2>3
    <3>3. k2 \in Nat /\ Agree(cs, ds, k2) /\ k2 \in 0..k2  BY <1>1, <1>d, <2>3, <2>4
    <3> HIDE DEF k2
    <3>4. k2 > 0 => Fits(H[u], ds, k2)
      <4>1. k2 > 0 => /\ HandlerAt(ds, k2, cs[k2].th) = HandlerAt(cs, k2, cs[k2].th)
                      /\ CallsAt(ds, k2) = CallsAt(cs, k2) /\ NnyAt(ds, k2) = NnyAt(cs, k2)
        BY <3>3, AtAgrees
      <4> QED BY <3>1, <3>2, <3>3, <4>1 DEF Fits
    <3> QED BY <2>1, <2>3, <2>6, <3>4 DEF Right, k2
  <2> QED BY <2>5, <2>6
<1> DEFINE H2 == [H EXCEPT ![t] = X]
<1>14. DOMAIN H2 = Threads /\ H2[t] = X /\ \A u \in Threads : u # t => H2[u] = H[u]
  BY <1>0, SaneExcept
<1> HIDE DEF H2
<1>15. \A u \in Threads : Right(H2[u], ds, u)  BY <1>12, <1>13, <1>14
<1>16. Sane(H2, ds)  BY <1>8, <1>14, <1>15 DEF Sane
<1> QED BY <1>3, <1>10, <1>16 DEF H2, ds

LEMMA HandsOver ==
  ASSUME IInv, NEW ds, NEW X, Works(cstack, ds, X), Last(ds).fn \in {"lua_resume", "lua_closethread"},
         NEW f, f = Last(ds).from, f # L, NEW Z, Good(Z), Z.errorJmp = X.errorJmp,
         NEW es, NEW Y, Works(Front(ds), es, Y), NEW r, Both(Z, f, Y, es, r), RunOK(Y, Last(es), r)
  PROVE  IInv'
<1>1. Sane(th, cstack) /\ L = Last(cstack).th /\ DOMAIN th = Threads /\ L \in Threads  BY Runs
<1> DEFINE l == L  H == [th EXCEPT ![l] = Z]
<1>2. Sane(H, Front(ds)) /\ Last(Front(ds)).th = f /\ f \in Threads
  <2>1. Leaving(th, cstack, ds, X, f)  BY <1>1 DEF Leaving
  <2>2. Left(th, cstack, ds, Z) /\ Last(Front(ds)).th = f /\ f \in Threads  BY <2>1, Leaves
  <2> QED BY <1>1, <2>2 DEF Left
<1>3. Sound(es) /\ Mine(Front(ds), es) /\ Good(Y) /\ Fits(Y, es, Len(es))  BY DEF Works
<1>4. Sane([H EXCEPT ![f] = Y], es) /\ Last(es).th = f
  <2> HIDE DEF H
  <2> QED BY <1>2, <1>3, Stays
<1>5. th' = [th EXCEPT ![L] = Z, ![f] = Y] /\ cstack' = es /\ ret' = r  BY DEF Both
<1>6. th' = [H EXCEPT ![f] = Y]  BY <1>5
<1>7. DOMAIN H = Threads  BY <1>1
<1> HIDE DEF H
<1>8. th'[f] = Y  BY <1>2, <1>6, <1>7
<1>9. Sane(th', cstack') /\ Last(cstack').th = f /\ RunOK(Y, Last(cstack'), ret')  BY <1>4, <1>5, <1>6
<1> QED BY <1>8, <1>9, SaneNext

(* A thread gets what another one that it resumed or closed leaves. *)
LEMMA HandsResult ==
  ASSUME IInv, NEW ds, NEW X, Works(cstack, ds, X), Last(ds).fn \in {"lua_resume", "lua_closethread"},
         NEW f, f = Last(ds).from, f # L, NEW Z, Good(Z), Z.errorJmp = X.errorJmp,
         NEW vals, NEW n, NEW es, es = Front(Front(ds)),
         Both(Z, f, Poscall(Push(th[f], vals), n), es, "done")
  PROVE  IInv'
<1> DEFINE F == th[f]  P == Push(F, vals)  Y == Poscall(P, n)  cs == Front(ds)
<1>1. Sane(th, cstack) /\ L = Last(cstack).th  BY Runs
<1>2. /\ Works(cs, cs, F) /\ F.status = "LUA_OK"
      /\ Last(cs).fn \in {"luaB_coresume", "luaB_auxwrap", "luaB_close"}
  <2>1. Leaving(th, cstack, ds, X, f)  BY <1>1 DEF Leaving
  <2> QED BY <2>1, Leaves
<1>3. Both(Z, f, Y, es, "done")  OBVIOUS
<1>4. Alike(F, P)  BY <1>2, StoreAlike DEF Push, Works
<1>5. Alike(P, Y)
  <2> HIDE DEF P
  <2> QED BY <1>4, PoscallAlike DEF Alike
<1> HIDE DEF P, Y, F, cs
<1>6. Alike(F, Y)  BY <1>4, <1>5 DEF Alike
<1>7. Works(cs, Front(cs), Y)
  <2>1. Sound(cs)  BY <1>2 DEF Works
  <2>2. Last(cs).fn \notin Special /\ Last(cs).fn \notin {"luaV_execute", "luaG_errormsg"}
    BY <1>2 DEF Special
  <2> QED BY <1>2, <1>6, <2>1, <2>2, PopReady
<1>8. Y.status = "LUA_OK"  BY <1>2, <1>6 DEF Alike
<1>9. RunOK(Y, Last(es), "done")  BY <1>8, RunsLua
<1>10. Works(Front(ds), es, Y)  BY <1>7 DEF cs
<1> QED BY <1>3, <1>9, <1>10, HandsOver

LEMMA ResetAlike ==
  ASSUME NEW X, Good(X), NEW from
  PROVE  LET Y == resetCI(X, from) IN
         /\ Good(Y) /\ Y.errorJmp = X.errorJmp /\ Y.nC = th[from].nC /\ Y.nny = 0 /\ Y.status = "LUA_OK"
<1>1. Len(SubSeq(X.ci, 1, 1)) = 1  OBVIOUS
<1> QED BY <1>1 DEF resetCI, Good

(* Thread t is closed by f, which runs. *)
Closes(H, cs, t, C, f, X) ==
  LET ds == lua_closethread(cs, t, C, f) IN
  Sane([H EXCEPT ![t] = X], ds) /\ Last(ds).th = t /\ RunOK(X, Last(ds), "none")

LEMMA ClosesOther ==
  ASSUME NEW H, NEW cs, Sane(H, cs), NEW t \in Threads, t # main, LastOf(cs, t) = 0,
         NEW f, f = Last(cs).th, H[f].status = "LUA_OK", Len(H[f].ci) > 1,
         Last(cs).fn \in {"luaB_close", "luaB_auxwrap"},
         NEW X, Good(X), X.errorJmp = 0, X.nC = CallsAt(cs, Len(cs)), X.nny = 0, X.status = "LUA_OK",
         NEW C
  PROVE  Closes(H, cs, t, C, f, X)
<1> DEFINE status == IF C.status = "LUA_YIELD" THEN "LUA_OK" ELSE C.status
           q == closethread(t, f)  r == closeprotected(t, 2, status, 1)  es == Append(cs, q)
           ds == lua_closethread(cs, t, C, f)  H1 == [H EXCEPT ![t] = X]
<1>1. Sound(cs) /\ IsSeq(cs) /\ CallsAt(cs, Len(cs)) \in Nat /\ CallsAt(cs, Len(cs)) <= ErrorCcalls
  BY SoundTop DEF Sane
<1>2. ds = Append(es, r)  BY <1>1, PushTwo DEF lua_closethread
<1> HIDE DEF ds
<1>3. q.fn = "lua_closethread" /\ q.th = t /\ q.from = f /\ q.inc = 0 /\ q.nny = 0  BY DEF closethread
<1>4. r.fn = "luaD_closeprotected" /\ r.th = t /\ r.inc = 0 /\ r.nny = 0 /\ r.oldci = 1 /\ Whole(r)
  BY DEF closeprotected, Whole
<1> HIDE DEF q, r
<1>5. Sane(H1, es) /\ Works(es, es, X) /\ Last(es) = q
  <2>1. /\ q.inc \in {0, 1} /\ CallsAt(cs, Len(cs)) + q.inc <= ErrorCcalls
        /\ X.nC = CallsAt(cs, Len(cs)) + q.inc
    BY <1>1, <1>3
  <2> QED BY <1>3, <2>1, Enters
<1> HIDE DEF es
<1>6. Works(es, Append(es, r), X) /\ Last(Append(es, r)) = r
  <2>1. Sound(es) /\ Alike(X, X)  BY <1>5 DEF Works, Alike
  <2> QED BY <1>3, <1>4, <1>5, <2>1, WorksProtect DEF Zero
<1> HIDE DEF H1
<1>7. Sane([H1 EXCEPT ![t] = X], ds) /\ Last(ds).th = t
  <2>1. Sound(ds) /\ Mine(es, ds) /\ Fits(X, ds, Len(ds)) /\ Last(es).th = t
    BY <1>2, <1>3, <1>5, <1>6 DEF Works
  <2> QED BY <1>5, <2>1, Stays
<1>8. [H1 EXCEPT ![t] = X] = H1
  <2>1. DOMAIN H1 = Threads /\ H1[t] = X /\ H1 = [u \in DOMAIN H1 |-> H1[u]]
    BY SaneExcept DEF H1, Sane
  <2> QED BY <2>1
<1>9. RunOK(X, Last(ds), "none")  BY <1>2, <1>4, <1>6, RunsLua
<1> QED BY <1>7, <1>8, <1>9 DEF H1, Closes, ds

LEMMA AuxresumeOK ==
  ASSUME IInv, NEW ds, NEW X, Works(cstack, ds, X), Last(ds).fn = "lua_resume",
         NEW status, NEW f, f = Last(ds).from, auxresume(X, Front(ds), f, status)
  PROVE  IInv'
<1> DEFINE F == th[f]  cs == Front(ds)  msg == Peek(X)
           dead == [luaD_seterrorobj(X, X.top) EXCEPT !.top = X.top, !.status = status]
           n == IF status = "LUA_YIELD" THEN Last(X.ci).u2 ELSE gettop(X)
           moved == Values(X, n)
           Z == resetCI(dead, f)  P == Push(F, <<msg>>)
<1>1. /\ Sane(th, cstack) /\ L = Last(cstack).th /\ Sound(cstack) /\ DOMAIN th = Threads /\ L \in Threads
      /\ Good(X) /\ Sound(ds) /\ Last(ds).th = L
  BY Runs DEF Works
<1>2. f # L
  <2>1. Joins(ds, Len(ds)) /\ Last(ds) = ds[Len(ds)]  BY <1>1, SoundTop
  <2> QED BY <1>1, <2>1 DEF Joins, Follows, Bases
<1>3. Good(dead) /\ dead.errorJmp = X.errorJmp
  <2> DEFINE E == luaD_seterrorobj(X, X.top)
  <2>1. Alike(X, E)  BY <1>1, StoreAlike DEF luaD_seterrorobj
  <2>2. dead = [E EXCEPT !.top = X.top, !.status = status]  OBVIOUS
  <2> HIDE DEF E, dead
  <2> QED BY <2>1, <2>2 DEF Alike, Good
<1>4. \/ Both(Z, f, P, lua_closethread(cs, L, dead, f), "none") /\ Last(cs).fn = "luaB_auxwrap"
      \/ Both(dead, f, Poscall(Push(F, <<"false", msg>>), 2), Front(cs), "done")
      \/ \E vals, k : Both([X EXCEPT !.top = @ - n], f, Poscall(Push(F, vals), k), Front(cs), "done")
  BY DEF auxresume
<1> HIDE DEF dead
<1>5. CASE Both(Z, f, P, lua_closethread(cs, L, dead, f), "none") /\ Last(cs).fn = "luaB_auxwrap"
  <2>1. Good(Z) /\ Z.errorJmp = X.errorJmp /\ Z.nC = F.nC /\ Z.nny = 0 /\ Z.status = "LUA_OK"
    BY <1>3, ResetAlike
  <2> HIDE DEF Z, F, cs, P
  <2> DEFINE l == L  H1 == [th EXCEPT ![l] = Z]  H2 == [H1 EXCEPT ![f] = P]
  <2>2. /\ Sane(H1, cs) /\ Last(cs).th = f /\ f \in Threads /\ Works(cs, cs, F)
        /\ F.status = "LUA_OK" /\ Len(F.ci) > 1 /\ l # main /\ LastOf(cs, l) = 0 /\ Z.errorJmp = 0
    <3>1. Leaving(th, cstack, ds, X, f)  BY <1>1, <1>2 DEF Leaving
    <3>2. /\ Left(th, cstack, ds, Z) /\ Last(cs).th = f /\ f \in Threads /\ Works(cs, cs, F)
          /\ F.status = "LUA_OK" /\ Len(F.ci) > 1 /\ l # main /\ LastOf(cs, l) = 0 /\ Z.errorJmp = 0
      BY <1>1, <2>1, <3>1, Leaves DEF cs, F
    <3> QED BY <1>1, <3>2 DEF Left, cs
  <2>3. Alike(F, P) /\ P.ci = F.ci  BY <2>2, StoreAlike DEF P, Push, Works
  <2>4. Works(cs, cs, P) /\ P.status = "LUA_OK" /\ Len(P.ci) > 1  BY <2>2, <2>3, WorksAlike DEF Alike
  <2> HIDE DEF H1
  <2>5. Sane(H2, cs)
    <3>1. Sound(cs) /\ Mine(cs, cs) /\ Good(P) /\ Fits(P, cs, Len(cs))  BY <2>4 DEF Works
    <3> QED BY <2>2, <3>1, Stays
  <2>6. DOMAIN H1 = Threads /\ H1[l] = Z  BY <1>1, SaneExcept DEF H1
  <2>7. H2[l] = Z /\ H2[f] = P /\ DOMAIN H2 = Threads  BY <1>2, <1>1, <2>2, <2>6
  <2> DEFINE es == lua_closethread(cs, l, dead, f)
  <2>8. th' = H2 /\ cstack' = es /\ ret' = "none"  BY <1>5 DEF Both, H1
  <2> HIDE DEF H2
  <2>9. Z.nC = CallsAt(cs, Len(cs))  BY <2>1, <2>2 DEF Works, Fits
  <2>10. Sane([H2 EXCEPT ![l] = Z], es) /\ Last(es).th = l /\ RunOK(Z, Last(es), "none")
    <3>1. l \in Threads /\ Last(cs).fn \in {"luaB_close", "luaB_auxwrap"}  BY <1>1, <1>5
    <3> HIDE DEF l
    <3>2. Closes(H2, cs, l, dead, f, Z)  BY <2>1, <2>2, <2>4, <2>5, <2>7, <2>9, <3>1, ClosesOther
    <3> QED BY <3>2 DEF Closes
  <2>11. [H2 EXCEPT ![l] = Z] = H2
    <3>1. H2 = [u \in DOMAIN H2 |-> H2[u]]  BY DEF H2
    <3> QED BY <1>1, <2>7, <3>1
  <2> HIDE DEF es
  <2>12. Sane(th', cstack') /\ Last(cstack').th = l /\ th'[l] = Z /\ RunOK(Z, Last(cstack'), ret')
    BY <2>7, <2>8, <2>10, <2>11
  <2> QED BY <2>12, SaneNext
<1>6. CASE Both(dead, f, Poscall(Push(F, <<"false", msg>>), 2), Front(cs), "done")
  <2> HIDE DEF msg
  <2> QED BY <1>2, <1>3, <1>6, HandsResult
<1>7. CASE \E vals, k : Both([X EXCEPT !.top = @ - n], f, Poscall(Push(F, vals), k), Front(cs), "done")
  <2>1. PICK vals, k : Both([X EXCEPT !.top = X.top - n], f, Poscall(Push(F, vals), k), Front(cs), "done")
    BY <1>7
  <2> HIDE DEF n
  <2> DEFINE W == [X EXCEPT !.top = X.top - n]
  <2>2. Good(W) /\ W.errorJmp = X.errorJmp  BY <1>1, SetAlike DEF Alike
  <2>3. Both(W, f, Poscall(Push(F, vals), k), Front(cs), "done")  BY <2>1
  <2> HIDE DEF W
  <2> QED BY <1>2, <2>2, <2>3, HandsResult
<1> QED BY <1>4, <1>5, <1>6, <1>7

LEMMA PrecoverOK ==
  ASSUME IInv, NEW cs, NEW X, Works(cstack, cs, X), Last(cs).fn = "lua_resume",
         NEW status, IsError(status) => X.status = "LUA_OK", precover(X, cs, status)
  PROVE  IInv'
<1> DEFINE p == findpcall(X)  c == [X.ci[p] EXCEPT !.recst = status]
           Y == [X EXCEPT !.ci = Append(SubSeq(X.ci, 1, p - 1), c)]
           r == Rec("unroll", L)  raw == rawrun(cs, L, Y)  Z == Armed(cs, Y)
<1>1. Sound(cstack) /\ L = Last(cstack).th /\ Good(X) /\ Len(X.ci) \in Nat /\ Last(cs).th = L
  BY Runs DEF Works, Good
<1>2. CASE IsError(status) /\ p > 0
  <2>1. Goes(Z, Append(raw, r), "none")  BY <1>2 DEF precover
  <2>2. r.fn = "unroll" /\ r.th = L /\ r.inc = 0 /\ r.nny = 0  BY DEF Rec
  <2>3. p \in Nat
    <3>1. {i \in 1..Len(X.ci) : X.ci[i].ypcall} \in SUBSET (1..Len(X.ci))  OBVIOUS
    <3> QED BY <1>1, <3>1, InnermostIs DEF findpcall
  <2> HIDE DEF p, c
  <2>4. Alike(X, Y)
    <3>1. Len(Append(SubSeq(X.ci, 1, p - 1), c)) = p  BY <1>2, <2>3
    <3> QED BY <1>1, <2>3, <3>1 DEF Alike, Good
  <2> HIDE DEF Y, r
  <2>5. Works(cstack, cs, Y) /\ Y.status = "LUA_OK"  BY <1>2, <2>4, WorksAlike DEF Alike
  <2>6. /\ Works(cstack, raw, Z) /\ Z.errorJmp # 0 /\ Lands(raw, Len(raw)) /\ Z.status = "LUA_OK"
    BY <1>1, <2>5, WorksRaw
  <2> HIDE DEF raw, Z
  <2>7. Z.nC = Z.nC + r.inc /\ Z.nny = Z.nny + r.nny /\ Z.nC <= ErrorCcalls
    <3>1. Sound(raw) /\ Z.nC = CallsAt(raw, Len(raw)) /\ Z.nny = NnyAt(raw, Len(raw))  BY <2>6 DEF Works, Fits
    <3> QED BY <2>2, <3>1, SoundTop
  <2>8. r.fn \notin Special /\ Counted(r)  BY <2>2 DEF Special, Counted, Zero
  <2>9. Works(cstack, Append(raw, r), Z) /\ Last(Append(raw, r)) = r
    <3>1. Good(Z)  BY <2>6 DEF Works
    <3> QED BY <1>1, <2>2, <2>6, <2>7, <2>8, <3>1, WorksPush
  <2>10. RunOK(Z, r, "none")  BY <2>2, <2>6, RunsLua
  <2> QED BY <2>1, <2>9, <2>10, Gone
<1>3. CASE ~(IsError(status) /\ p > 0)
  <2>1. auxresume(X, Front(cs), Last(cs).from, status)  BY <1>3 DEF precover
  <2> QED BY <2>1, AuxresumeOK
<1> QED BY <1>2, <1>3

LEMMA ThrowOK ==
  ASSUME IInv, NEW cs, NEW W, Works(cstack, cs, W), NEW X, Good(X), NEW h \in 2..Len(cs), X.errorJmp = h,
         cs[h].fn = "luaD_rawrunprotected", cs[h].th = L, NEW status,
         X.status = "LUA_OK" \/ (~IsError(status) /\ cs[h - 1].fn = "lua_resume"),
         luaD_throw(X, cs, status)
  PROVE  IInv'
<1> DEFINE r == cs[h]  below == SubSeq(cs, 1, h - 1)  Y == Restored(X, r)  caller == Last(below)
           Z == [Y EXCEPT !.ci = SubSeq(Y.ci, 1, caller.oldci)]
           q == closeprotected(L, caller.oldtop, status, caller.oldci)
           u == [caller EXCEPT !.status = status]
<1>1. Sound(cstack) /\ L = Last(cstack).th  BY Runs
<1>2. /\ Works(cstack, below, Y) /\ caller = cs[h - 1] /\ Y.status = X.status
      /\ caller.fn \in {"luaD_pcall", "luaD_closeprotected", "lua_resume"}
  <2> HIDE DEF Y, below
  <2>1. Y = Restored(X, cs[h])  BY DEF Y
  <2>2. /\ Works(cstack, SubSeq(cs, 1, h - 1), Y) /\ Last(SubSeq(cs, 1, h - 1)) = cs[h - 1] /\ Y.status = X.status
        /\ cs[h - 1].fn \in {"luaD_pcall", "luaD_closeprotected", "lua_resume"}
    BY <1>1, <2>1, WorksRestore
  <2> QED BY <2>2 DEF below
<1>3. \/ caller.fn = "luaD_pcall" /\ Goes(Z, Append(below, q), "none")
      \/ caller.fn = "luaD_closeprotected" /\ Goes(Z, Append(Front(below), u), "none")
      \/ caller.fn = "luaD_closeprotected" /\ Goes(Y, below, "LUA_OK")
      \/ caller.fn = "lua_resume" /\ precover(Y, below, status)
  BY DEF luaD_throw
<1>q. /\ q.fn = "luaD_closeprotected" /\ q.th = L /\ q.inc = 0 /\ q.nny = 0 /\ q.oldci = caller.oldci /\ Whole(q)
  BY DEF closeprotected, Whole
<1> HIDE DEF q, Y, below
<1>4. Sound(below) /\ Good(Y) /\ Last(below).th = L  BY <1>1, <1>2 DEF Works
<1>5. ASSUME caller.fn \in {"luaD_pcall", "luaD_closeprotected"}
      PROVE  /\ caller.oldci \in Nat /\ Alike(Y, Z) /\ Z.status = "LUA_OK" /\ caller.inc = 0 /\ caller.nny = 0
             /\ Joins(below, Len(below)) /\ caller = below[Len(below)] /\ Len(below) \in Nat
  <2>1. Joins(below, Len(below)) /\ caller = below[Len(below)] /\ Len(below) \in Nat  BY <1>4, <1>5, SoundTop
  <2>2. caller.oldci \in Nat /\ caller.inc = 0 /\ caller.nny = 0  BY <1>5, <2>1 DEF Joins, Follows, Adds
  <2>3. Len(SubSeq(Y.ci, 1, caller.oldci)) = caller.oldci  BY <2>2
  <2> DEFINE w == SubSeq(Y.ci, 1, caller.oldci)
  <2>4. Len(w) \in Nat  BY <2>2, <2>3
  <2> HIDE DEF w
  <2>5. Alike(Y, [Y EXCEPT !.ci = w])  BY <1>4, <2>4 DEF Alike, Good
  <2>6. Alike(Y, Z)  BY <2>5 DEF w
  <2>7. Y.status = "LUA_OK"  BY <1>2, <1>5
  <2> QED BY <2>1, <2>2, <2>6, <2>7 DEF Alike
<1> HIDE DEF Z
<1>6. CASE caller.fn = "luaD_pcall" /\ Goes(Z, Append(below, q), "none")
  <2>1. Alike(Y, Z) /\ Z.status = "LUA_OK" /\ q.oldci \in Nat  BY <1>5, <1>6, <1>q
  <2>z. Zero(q) /\ Last(below).fn \in {"luaD_pcall", "lua_closethread"} /\ q.th = Last(cstack).th
    BY <1>1, <1>6, <1>q DEF Zero
  <2>2. Works(cstack, Append(below, q), Z) /\ Last(Append(below, q)) = q
    BY <1>1, <1>2, <1>q, <2>1, <2>z, WorksProtect
  <2>3. RunOK(Z, q, "none")  BY <1>q, <2>1, RunsLua
  <2> QED BY <1>6, <2>2, <2>3, Gone
<1>7. CASE caller.fn = "luaD_closeprotected" /\ Goes(Z, Append(Front(below), u), "none")
  <2> DEFINE ds == Front(below)
  <2>1. /\ Alike(Y, Z) /\ Z.status = "LUA_OK" /\ Joins(below, Len(below)) /\ caller = below[Len(below)]
        /\ caller.inc = 0 /\ caller.nny = 0 /\ caller.oldci \in Nat
    BY <1>5, <1>7
  <2>2. /\ below[Len(below) - 1].fn \in {"luaD_pcall", "lua_closethread"} /\ Whole(caller)
    BY <1>7, <2>1 DEF Joins, Follows
  <2>3. /\ u.fn = "luaD_closeprotected" /\ u.th = L /\ u.inc = 0 /\ u.nny = 0 /\ u.oldci \in Nat /\ Whole(u)
    <3>1. DOMAIN u = DOMAIN caller  OBVIOUS
    <3>2. u.fn = caller.fn /\ u.th = caller.th /\ u.inc = caller.inc /\ u.nny = caller.nny /\ u.oldci = caller.oldci
      BY <2>2 DEF Whole
    <3> HIDE DEF u
    <3> QED BY <1>4, <1>7, <2>1, <2>2, <3>1, <3>2 DEF Whole
  <2> HIDE DEF u
  <2>4. Works(cstack, ds, Y) /\ Last(ds) = below[Len(below) - 1]
    <3>1. /\ Last(below).fn \notin Bases /\ Last(below).fn # "luaD_rawrunprotected"
          /\ Y.nC = Y.nC - Last(below).inc /\ Y.nny = Y.nny - Last(below).nny
      <4>1. Y.nC = CallsAt(below, Len(below)) /\ Y.nny = NnyAt(below, Len(below))  BY <1>2 DEF Works, Fits
      <4>2. Y.nC \in Nat /\ Y.nny \in Nat  BY <1>4, <4>1, SoundTop
      <4> QED BY <1>7, <2>1, <4>2 DEF Bases
    <3> QED BY <1>1, <1>2, <1>4, <3>1, WorksPop
  <2> HIDE DEF ds
  <2>5. Works(cstack, Append(ds, u), Z) /\ Last(Append(ds, u)) = u
    BY <1>1, <2>1, <2>2, <2>3, <2>4, WorksProtect DEF Zero
  <2>6. RunOK(Z, u, "none")  BY <2>1, <2>3, RunsLua
  <2>7. Goes(Z, Append(ds, u), "none")  BY <1>7 DEF ds
  <2> QED BY <2>5, <2>6, <2>7, Gone
<1>8. CASE caller.fn = "luaD_closeprotected" /\ Goes(Y, below, "LUA_OK")
  <2>1. Y.status = "LUA_OK"  BY <1>2, <1>8
  <2>2. RunOK(Y, Last(below), "LUA_OK")  BY <2>1, RunsLua
  <2> QED BY <1>2, <1>8, <2>2, Gone
<1>9. CASE caller.fn = "lua_resume" /\ precover(Y, below, status)
  <2>1. IsError(status) => Y.status = "LUA_OK"  BY <1>2
  <2> QED BY <1>2, <1>9, <2>1, PrecoverOK
<1> QED BY <1>3, <1>6, <1>7, <1>8, <1>9

(* The handler of the running thread is there. *)
LEMMA HandlerThere ==
  ASSUME NEW cs, NEW ds, NEW X, Works(cs, ds, X), X.errorJmp # 0
  PROVE  /\ X.errorJmp \in 2..Len(ds) /\ ds[X.errorJmp].fn = "luaD_rawrunprotected"
         /\ ds[X.errorJmp].th = Last(cs).th
<1>1. Sound(ds) /\ Fits(X, ds, Len(ds)) /\ Last(ds).th = Last(cs).th  BY DEF Works
<1>2. X.errorJmp = HandlerAt(ds, Len(ds), Last(cs).th) /\ Len(ds) \in Nat  BY <1>1, SoundTop DEF Fits
<1> QED BY <1>1, <1>2, HandlerBounds

LEMMA CcallOK ==
  ASSUME IInv, NEW cs, NEW X, Works(cstack, cs, X), X.errorJmp # 0, X.status = "LUA_OK",
         NEW inc \in {0, 1}, NEW nny \in {0, 1}, nny = 1 \/ Lands(cs, Len(cs)),
         NEW func, NEW nres, ccall(X, cs, func, nres, inc, nny)
  PROVE  IInv'
<1> DEFINE Y == [X EXCEPT !.nC = X.nC + inc, !.nny = X.nny + nny]
           P == Push(Y, <<"error in error handling">>)  r == luaV_execute(L, inc, nny)
<1>1. Sound(cstack) /\ L = Last(cstack).th /\ Good(X) /\ Sound(cs)  BY Runs DEF Works
<1>2. /\ Good(Y) /\ Y.errorJmp = X.errorJmp /\ Y.nC = X.nC + inc /\ Y.nny = X.nny + nny /\ Y.status = "LUA_OK"
  BY <1>1 DEF Good
<1>3. X.nC \in Nat
  <2>1. X.nC = CallsAt(cs, Len(cs))  BY DEF Works, Fits
  <2> QED BY <1>1, <2>1, SoundTop
<1>4. \/ Y.nC = LUAI_MAXCCALLS /\ luaG_runerror(Y, cs, "C stack overflow", inc, nny)
      \/ luaD_throw(P, cs, "LUA_ERRERR")
      \/ Y.nC < ErrorCcalls /\ luaD_precall(Y, Append(cs, r), func, nres, TRUE)
  BY DEF ccall
<1>r. r.fn = "luaV_execute" /\ r.th = L /\ r.inc = inc /\ r.nny = nny  BY DEF luaV_execute
<1>p. Alike(Y, P)  BY <1>2, StoreAlike DEF Push
<1> HIDE DEF Y, P, r
<1>5. CASE Y.nC = LUAI_MAXCCALLS /\ luaG_runerror(Y, cs, "C stack overflow", inc, nny)
  <2>1. Y.nC <= ErrorCcalls  BY <1>5, CallsAssumption
  <2> QED BY <1>2, <1>5, <2>1, ErrorOK
<1>6. CASE luaD_throw(P, cs, "LUA_ERRERR")
  <2> DEFINE h == P.errorJmp
  <2>1. Good(P) /\ P.status = "LUA_OK" /\ h = X.errorJmp  BY <1>2, <1>p DEF Alike
  <2>2. h \in 2..Len(cs) /\ cs[h].fn = "luaD_rawrunprotected" /\ cs[h].th = L  BY <1>1, <2>1, HandlerThere
  <2>3. h = P.errorJmp  OBVIOUS
  <2> HIDE DEF h
  <2> QED BY <1>6, <2>1, <2>2, <2>3, ThrowOK
<1>7. CASE Y.nC < ErrorCcalls /\ luaD_precall(Y, Append(cs, r), func, nres, TRUE)
  <2>1. r.fn \notin Special /\ Counted(r)  BY <1>r DEF Special, Counted
  <2>2. Loose(r) \/ r.nny = 1 \/ Lands(cs, Len(cs))  BY <1>r
  <2>3. Y.nC <= ErrorCcalls  BY <1>2, <1>3, <1>7, CallsAssumption
  <2>4. Works(cstack, Append(cs, r), Y) /\ Last(Append(cs, r)) = r
    BY <1>1, <1>2, <1>r, <2>1, <2>2, <2>3, WorksPush
  <2> DEFINE ds == Append(cs, r)
  <2>5. Works(cstack, ds, Y) /\ Last(ds).fn = "luaV_execute" /\ luaD_precall(Y, ds, func, nres, TRUE)
    BY <1>7, <1>r, <2>4
  <2> HIDE DEF ds
  <2> QED BY <1>2, <2>5, PrecallOK
<1> QED BY <1>4, <1>5, <1>6, <1>7
------------------------------------------------------------------------------
(* ---- the steps ---- *)
(* A function that is no C call is called. *)
LEMMA WorksZero ==
  ASSUME NEW cs, Sound(cs), NEW ds, NEW X, Works(cs, ds, X), X.errorJmp # 0, NEW r,
         r.fn \notin Special, r.th = Last(cs).th, Zero(r), Loose(r) \/ Lands(ds, Len(ds)),
         NEW Y, Alike(X, Y)
  PROVE  /\ Works(cs, Append(ds, r), Y) /\ Last(Append(ds, r)) = r /\ Y.errorJmp # 0 /\ Y.status = X.status
         /\ ~Loose(r) => Ready(Append(ds, r), Y)
<1>1. Sound(ds) /\ X.nC = CallsAt(ds, Len(ds)) /\ X.nny = NnyAt(ds, Len(ds))  BY DEF Works, Fits
<1>2. X.nC \in Nat /\ X.nC <= ErrorCcalls /\ X.nny \in Nat  BY <1>1, SoundTop
<1>3. /\ Good(Y) /\ Y.errorJmp = X.errorJmp /\ Y.nC = X.nC + r.inc /\ Y.nny = X.nny + r.nny
      /\ Y.nC <= ErrorCcalls /\ Y.status = X.status
  BY <1>2 DEF Alike, Zero
<1>4. Counted(r)  BY DEF Counted, Zero
<1>5. Works(cs, Append(ds, r), Y) /\ Last(Append(ds, r)) = r
      /\ (~Loose(r) => Lands(Append(ds, r), Len(Append(ds, r))))
  BY <1>3, <1>4, WorksPush
<1> QED BY <1>3, <1>5 DEF Ready

(* A plain function is on the top of the C stack. *)
LEMMA Executes ==
  ASSUME IInv, Top.fn \notin Special, ~Loose(Top), Top.fn # "resume" \/ ret # "none"
  PROVE  T.status = "LUA_OK" /\ Ready(cstack, T) /\ T.errorJmp # 0 /\ Lands(cstack, Len(cstack))
<1>1. Sound(cstack) /\ Works(cstack, cstack, T) /\ RunOK(T, Top, ret) /\ Top = Last(cstack)  BY Runs
<1>2. Ready(cstack, T)  BY <1>1, TopReady
<1> QED BY <1>1, <1>2 DEF Ready, RunOK

LEMMA ExecutesLua ==
  ASSUME IInv, At("luaV_execute")
  PROVE  T.status = "LUA_OK" /\ Ready(cstack, T) /\ T.errorJmp # 0 /\ Lands(cstack, Len(cstack))
BY Executes DEF At, Loose, Special

LEMMA Remains ==
  ASSUME IInv, NEW X, Alike(T, X), NEW r, Goes(X, cstack, r), T.status = "LUA_OK",
         Top.fn \notin {"luaB_close", "luaB_coresume", "luaB_auxwrap"} \/ r # "none"
  PROVE  IInv'
<1>1. Works(cstack, cstack, T) /\ Top = Last(cstack)  BY Runs
<1>2. Works(cstack, cstack, X) /\ X.status = "LUA_OK"  BY <1>1, WorksAlike DEF Alike
<1>3. RunOK(X, Last(cstack), r)  BY <1>1, <1>2, RunsLua
<1> QED BY <1>2, <1>3, Gone

(* The top function ends. *)
LEMMA Pops ==
  ASSUME IInv, Top.fn \notin Special, Top.fn \notin {"luaV_execute", "luaG_errormsg"},
         NEW X, Alike(T, X), NEW r, Goes(X, Under, r), T.status = "LUA_OK", r # "none"
  PROVE  IInv'
<1>1. Sound(cstack) /\ Works(cstack, cstack, T) /\ Top = Last(cstack)  BY Runs
<1>2. Works(cstack, Under, X)  BY <1>1, PopReady DEF Under
<1>3. RunOK(X, Last(Under), r)
  <2>1. X.status = "LUA_OK"  BY DEF Alike
  <2> QED BY <2>1, RunsLua
<1> QED BY <1>2, <1>3, Gone

LEMMA OP_TBC_OK == ASSUME IInv, OP_TBC PROVE IInv'
<1> DEFINE pos == Var(OpenVars(T) + 1)
           X == [T EXCEPT !.tbclist = Append(T.tbclist, pos), !.stack = Written(T.stack, pos, <<"tbc">>)]
<1>1. Goes(X, cstack, "none") /\ At("luaV_execute")  BY DEF OP_TBC, Does, Running
<1>2. Good(T)  BY Runs
<1>3. T.status = "LUA_OK"  BY <1>1, ExecutesLua
<1>4. Alike(T, X)  BY <1>2 DEF Alike, Good
<1> HIDE DEF X
<1> QED BY <1>1, <1>3, <1>4, Remains DEF At

LEMMA WaitsAlike ==
  ASSUME NEW X, Good(X), NEW op
  PROVE  Alike(X, Waits(X, op)) /\ Len(Waits(X, op).ci) >= 1
BY SetCiAlike DEF Waits

LEMMA AlikeTwice ==
  ASSUME NEW X, NEW Y, NEW Z, Alike(X, Y), Alike(Y, Z)
  PROVE  Alike(X, Z)
BY DEF Alike

LEMMA OP_CALL_lua_OK == ASSUME IInv, OP_CALL_lua PROVE IInv'
<1> DEFINE S == Store(T, RA(ci), <<LuaFrame>>)  X == Waits(S, "call")
<1>1. luaD_precall(X, cstack, RA(ci), 2, FALSE) /\ At("luaV_execute")  BY DEF OP_CALL_lua, Does, Running
<1>2. Good(T) /\ Works(cstack, cstack, T) /\ Last(cstack) = Top  BY Runs
<1>3. Alike(T, S)  BY <1>2, StoreAlike
<1> HIDE DEF S
<1>4. Alike(S, X)  BY <1>3, WaitsAlike DEF Alike
<1> HIDE DEF X
<1>5. Works(cstack, cstack, X) /\ X.status = "LUA_OK"
  BY <1>1, <1>2, <1>3, <1>4, ExecutesLua, WorksAlike, AlikeTwice DEF Alike
<1> QED BY <1>1, <1>2, <1>5, PrecallOK DEF At

CFunctions == {"luaB_pcall", "luaB_xpcall", "lua_call", "lua_callk", "luaB_yield", "luaB_yieldable",
               "luaB_close", "luaB_costatus", "luaB_coresume", "luaB_auxwrap"}
LEMMA OP_CALL_c_OK ==
  ASSUME IInv, NEW op, NEW fn \in CFunctions, NEW args, OP_CALL_c(op, fn, args)
  PROVE  IInv'
<1> DEFINE S == Store(T, RA(ci), <<fn>> \o args)  X == Waits(S, "call")
           Y == NewFrame(X, fn, RA(ci), 2, FALSE)  r == Rec(fn, L)
<1>1. Goes(Y, Append(cstack, r), "none") /\ At("luaV_execute")  BY DEF OP_CALL_c, Does, Running
<1>2. Sound(cstack) /\ Good(T) /\ Works(cstack, cstack, T) /\ L = Last(cstack).th  BY Runs
<1>r. r.fn = fn /\ r.th = L /\ r.inc = 0 /\ r.nny = 0  BY DEF Rec
<1>3. Alike(T, S)  BY <1>2, StoreAlike
<1> HIDE DEF S, r
<1>4. Alike(S, X) /\ Len(X.ci) >= 1  BY <1>3, WaitsAlike DEF Alike
<1> HIDE DEF X
<1>g. Good(X) /\ Len(X.ci) \in Nat  BY <1>4 DEF Alike, Good
<1>5. Alike(X, Y) /\ Len(Y.ci) = Len(X.ci) + 1  BY <1>g, NewFrameAlike
<1> HIDE DEF Y
<1>6. Len(Y.ci) > 1  BY <1>4, <1>5, <1>g
<1>7. Alike(T, Y)  BY <1>3, <1>4, <1>5, AlikeTwice
<1>8. T.status = "LUA_OK" /\ T.errorJmp # 0 /\ Lands(cstack, Len(cstack))  BY <1>1, ExecutesLua
<1>9. r.fn \notin Special /\ Zero(r)  BY <1>r DEF CFunctions, Special, Zero
<1>10. Works(cstack, Append(cstack, r), Y) /\ Last(Append(cstack, r)) = r
  BY <1>2, <1>7, <1>8, <1>9, <1>r, WorksZero
<1>11. RunOK(Y, r, "none")  BY <1>6, <1>7, <1>8 DEF RunOK, Alike
<1> QED BY <1>1, <1>10, <1>11, Gone

LEMMA OP_CALL_OK == ASSUME IInv, OP_CALL PROVE IInv'
<1>1. CASE OP_CALL_lua  BY <1>1, OP_CALL_lua_OK
<1>2. CASE \E op : \E fn \in CFunctions : \E args : OP_CALL_c(op, fn, args)  BY <1>2, OP_CALL_c_OK
<1>3. OP_CALL_lua \/ \E op : \E fn \in CFunctions : \E args : OP_CALL_c(op, fn, args)
  BY Zenon DEF OP_CALL, CFunctions
<1> QED BY <1>1, <1>2, <1>3
------------------------------------------------------------------------------
LEMMA Busy ==
  ASSUME IInv, Top.fn \notin Special, Top.fn # "resume" \/ ret # "none"
  PROVE  T.status = "LUA_OK" /\ T.errorJmp # 0
<1>1. Sound(cstack) /\ Works(cstack, cstack, T) /\ RunOK(T, Top, ret) /\ Top = Last(cstack)  BY Runs
<1>2. T.errorJmp # 0  BY <1>1, TopReady
<1> QED BY <1>1, <1>2 DEF RunOK

LEMMA Calls ==
  ASSUME IInv, NEW X, Alike(T, X), T.status = "LUA_OK", T.errorJmp # 0,
         NEW inc \in {0, 1}, NEW nny \in {0, 1}, nny = 1 \/ Lands(cstack, Len(cstack)),
         NEW func, NEW nres, ccall(X, cstack, func, nres, inc, nny)
  PROVE  IInv'
<1>1. Works(cstack, cstack, T)  BY Runs
<1>2. Works(cstack, cstack, X) /\ X.errorJmp # 0 /\ X.status = "LUA_OK"  BY <1>1, WorksAlike DEF Alike
<1> QED BY <1>2, CcallOK

LEMMA Fails ==
  ASSUME IInv, NEW X, Alike(T, X), T.status = "LUA_OK", Ready(cstack, T),
         NEW msg, luaG_runerror(X, cstack, msg, 0, 0)
  PROVE  IInv'
<1>1. Works(cstack, cstack, T) /\ T.nC \in Nat /\ T.nC <= ErrorCcalls /\ T.nny \in Nat  BY Runs
<1>2. /\ Good(X) /\ X.errorJmp = T.errorJmp /\ X.nC = T.nC + 0 /\ X.nny = T.nny + 0 /\ X.nC <= ErrorCcalls
      /\ X.status = "LUA_OK"
  BY <1>1 DEF Alike
<1> QED BY <1>1, <1>2, ErrorOK DEF Ready

(* luaF_close is called by a function that may be yielded in. *)
LEMMA StartsClosing ==
  ASSUME IInv, NEW X, Alike(T, X), T.status = "LUA_OK", Ready(cstack, T), NEW level, NEW status, NEW yy \in BOOLEAN,
         Goes(X, Append(cstack, luaF_close(L, level, status, yy)), "none")
  PROVE  IInv'
<1> DEFINE r == luaF_close(L, level, status, yy)
<1>1. Sound(cstack) /\ Works(cstack, cstack, T) /\ L = Last(cstack).th  BY Runs
<1>2. r.fn = "luaF_close" /\ r.th = L /\ r.inc = 0 /\ r.nny = 0  BY DEF luaF_close
<1>3. Goes(X, Append(cstack, r), "none")  OBVIOUS
<1> HIDE DEF r
<1>4. r.fn \notin Special /\ Zero(r)  BY <1>2 DEF Special, Zero
<1>5. Works(cstack, Append(cstack, r), X) /\ Last(Append(cstack, r)) = r /\ X.status = "LUA_OK"
  BY <1>1, <1>2, <1>4, WorksZero DEF Ready
<1>6. RunOK(X, r, "none")  BY <1>2, <1>5, RunsLua
<1> QED BY <1>3, <1>5, <1>6, Gone

LEMMA OperateAlike ==
  ASSUME Good(T), NEW op
  PROVE  Alike(T, Operate(op))
<1> DEFINE S == [T EXCEPT !.top = CiTop(ci)]
<1>1. Alike(T, S)  BY SetAlike
<1>2. Operate(op) = Waits(S, op)  BY DEF Operate
<1> HIDE DEF S
<1>3. Alike(S, Waits(S, op))  BY <1>1, WaitsAlike DEF Alike
<1> QED BY <1>1, <1>2, <1>3, AlikeTwice

LEMMA luaT_callTMres_OK == ASSUME IInv, luaT_callTMres PROVE IInv'
<1> DEFINE S == Operate("meta")  vals == <<"tm", "obj", "obj">>  X == Push(S, vals)
<1>1. ccall(X, cstack, S.top, 1, 1, 0) /\ At("luaV_execute")  BY DEF luaT_callTMres, Does, Running
<1>2. Alike(T, S)  BY Runs, OperateAlike
<1> HIDE DEF S, vals
<1>3. Alike(S, X)  BY <1>2, StoreAlike DEF Push, Alike
<1> HIDE DEF X
<1>4. Alike(T, X)  BY <1>2, <1>3, AlikeTwice
<1> QED BY <1>1, <1>4, ExecutesLua, Calls

LEMMA OP_ERROR_OK == ASSUME IInv, OP_ERROR PROVE IInv'
<1> DEFINE X == [T EXCEPT !.top = CiTop(ci)]
<1>1. luaG_runerror(X, cstack, "e1", 0, 0) /\ At("luaV_execute")  BY DEF OP_ERROR, Does, Running
<1>2. Alike(T, X)  BY Runs, SetAlike
<1> HIDE DEF X
<1> QED BY <1>1, <1>2, ExecutesLua, Fails

LEMMA OP_CLOSE_OK == ASSUME IInv, OP_CLOSE PROVE IInv'
<1>1. PICK k : DoClose(SetCi(Operate("close"), [ci EXCEPT !.op = "close", !.block = k]))  BY DEF OP_CLOSE
<1>2. At("luaV_execute")  BY DEF OP_CLOSE, Does, Running
<1> DEFINE S == Operate("close")  c == [ci EXCEPT !.op = "close", !.block = k]  X == SetCi(S, c)
           level == Last(X.ci).func + 3 + Last(X.ci).block
<1>3. Goes(X, Append(cstack, luaF_close(L, level, "LUA_OK", TRUE)), "none")  BY <1>1 DEF DoClose
<1>4. Alike(T, S)  BY Runs, OperateAlike
<1> HIDE DEF S, c
<1>5. Alike(S, X)  BY <1>4, SetCiAlike DEF Alike
<1> HIDE DEF X, level
<1>6. Alike(T, X)  BY <1>4, <1>5, AlikeTwice
<1> QED BY <1>2, <1>3, <1>6, ExecutesLua, StartsClosing

LEMMA OP_RETURN_OK == ASSUME IInv, OP_RETURN PROVE IInv'
<1> DEFINE S == Store(T, RA(ci), <<"ret">>)  c == [Last(S.ci) EXCEPT !.op = "return", !.u2 = 1]
           Y == SetCi(S, c)  top == IF Y.top < CiTop(ci) THEN CiTop(ci) ELSE Y.top
           X == [Y EXCEPT !.top = top]  level == ci.func + 1
<1>1. Goes(X, Append(cstack, luaF_close(L, level, CLOSEKTOP, TRUE)), "none") /\ At("luaV_execute")
  BY DEF OP_RETURN, DoReturn, Running
<1>2. Alike(T, S)  BY Runs, StoreAlike
<1> HIDE DEF S, c
<1>3. Alike(S, Y)  BY <1>2, SetCiAlike DEF Alike
<1> HIDE DEF Y, top
<1>4. Alike(Y, X)  BY <1>3, SetAlike DEF Alike
<1> HIDE DEF X, level
<1>5. Alike(T, X)  BY <1>2, <1>3, <1>4, AlikeTwice
<1> QED BY <1>1, <1>5, ExecutesLua, StartsClosing

LEMMA Continue_OK == ASSUME IInv, Continue PROVE IInv'
<1> DEFINE S == [T EXCEPT !.top = RA(ci) + ci.u2]  X == Poscall(S, ci.u2)
           Y == [X EXCEPT !.nC = X.nC - Top.inc, !.nny = X.nny - Top.nny]
<1>0. At("luaV_execute") /\ ret # "none"  BY DEF Continue
<1>1. /\ Sound(cstack) /\ Works(cstack, cstack, T) /\ Good(T) /\ Top = Last(cstack)
      /\ T.status = "LUA_OK" /\ Top.fn = "luaV_execute"
  BY <1>0, Runs, ExecutesLua DEF At
<1>2. CASE Goes(Waits(T, "run"), cstack, "none")
  <2>1. Alike(T, Waits(T, "run"))  BY <1>1, WaitsAlike
  <2> QED BY <1>1, <1>2, <2>1, Remains
<1>3. CASE Goes(Waits(Store(T, RA(ci), <<Peek(T)>>), "run"), cstack, "none")
  <2> DEFINE U == Store(T, RA(ci), <<Peek(T)>>)
  <2>1. Alike(T, U)  BY <1>1, StoreAlike
  <2> HIDE DEF U
  <2>2. Alike(U, Waits(U, "run"))  BY <2>1, WaitsAlike DEF Alike
  <2>3. Alike(T, Waits(U, "run"))  BY <2>1, <2>2, AlikeTwice
  <2>4. Goes(Waits(U, "run"), cstack, "none")  BY <1>3 DEF U
  <2> QED BY <1>1, <2>3, <2>4, Remains
<1>4. CASE Goes(SetCi(T, [ci EXCEPT !.op = "run", !.block = 0]), cstack, "none")
  <2> DEFINE c == [ci EXCEPT !.op = "run", !.block = 0]
  <2> HIDE DEF c
  <2>1. Alike(T, SetCi(T, c))  BY <1>1, SetCiAlike
  <2>2. Goes(SetCi(T, c), cstack, "none")  BY <1>4 DEF c
  <2> QED BY <1>1, <2>1, <2>2, Remains
<1>5. Alike(T, S)  BY <1>1, SetAlike
<1>n. \/ Goes(Waits(T, "run"), cstack, "none")
      \/ Goes(Waits(Store(T, RA(ci), <<Peek(T)>>), "run"), cstack, "none")
      \/ Goes(SetCi(T, [ci EXCEPT !.op = "run", !.block = 0]), cstack, "none")
      \/ Goes(Y, Under, "done") \/ Goes(X, cstack, "done")
  BY DEF Continue
<1> HIDE DEF S
<1>6. Alike(S, X)  BY <1>5, PoscallAlike DEF Alike
<1> HIDE DEF X
<1>7. Alike(T, X)  BY <1>5, <1>6, AlikeTwice
<1>8. CASE Goes(X, cstack, "done")  BY <1>1, <1>7, <1>8, Remains
<1>9. CASE Goes(Y, Under, "done")
  <2>1. /\ Good(Y) /\ Y.errorJmp = T.errorJmp /\ Y.nC = T.nC - Top.inc /\ Y.nny = T.nny - Top.nny
        /\ Y.status = "LUA_OK"
    BY <1>1, <1>7 DEF Alike, Good
  <2> HIDE DEF Y
  <2>2. Last(cstack).fn \notin Bases /\ Last(cstack).fn # "luaD_rawrunprotected"  BY <1>1 DEF Bases
  <2>3. Works(cstack, Under, Y)  BY <1>1, <2>1, <2>2, WorksPop DEF Under
  <2>4. RunOK(Y, Last(Under), "done")  BY <2>1, RunsLua
  <2> QED BY <1>9, <2>3, <2>4, Gone
<1> QED BY <1>n, <1>2, <1>3, <1>4, <1>8, <1>9

LEMMA luaF_closeLoop_OK == ASSUME IInv, luaF_closeLoop PROVE IInv'
<1>1. Top.fn = "luaF_close" /\ Top.fn \notin Special  BY DEF luaF_closeLoop, At, Special
<1>2. Good(T) /\ Top = Last(cstack)  BY Runs
<1>3. T.status = "LUA_OK" /\ T.errorJmp # 0  BY <1>1, Busy
<1>4. CASE Goes(T, Under, "done")
  <2>1. Alike(T, T)  BY <1>2 DEF Alike
  <2> QED BY <1>1, <1>3, <1>4, <2>1, Pops
<1>5. ASSUME ~Goes(T, Under, "done") PROVE IInv'
  <2> DEFINE tbc == Last(T.tbclist)  P == [T EXCEPT !.tbclist = Front(T.tbclist)]
             X == CASE Top.status = CLOSEKTOP -> P
                    [] Top.status = "LUA_OK" -> [P EXCEPT !.top = tbc + 1]
                    [] OTHER -> luaD_seterrorobj(P, tbc + 1)
             args == IF IsError(Top.status) THEN <<"close", "tbc", Peek(X)>> ELSE <<"close", "tbc">>
             nny == IF Top.yy THEN 0 ELSE 1
             Y == Push(X, args)
  <2>1. ccall(Y, cstack, X.top, 0, 1, nny)  BY <1>5 DEF luaF_closeLoop
  <2>2. Alike(T, P)  BY <1>2, SetAlike
  <2> HIDE DEF P
  <2>3. Alike(P, P) /\ Alike(P, [P EXCEPT !.top = tbc + 1]) /\ Alike(P, luaD_seterrorobj(P, tbc + 1))
    <3>1. Good(P)  BY <2>2 DEF Alike
    <3>2. Alike(P, P)  BY <3>1 DEF Alike
    <3>3. Alike(P, [P EXCEPT !.top = tbc + 1])  BY <3>1, SetAlike
    <3>4. Alike(P, luaD_seterrorobj(P, tbc + 1))  BY <3>1, StoreAlike DEF luaD_seterrorobj
    <3> QED BY <3>2, <3>3, <3>4
  <2>x. X = P \/ X = [P EXCEPT !.top = tbc + 1] \/ X = luaD_seterrorobj(P, tbc + 1)
    BY DEF CLOSEKTOP
  <2>4. Alike(P, X)  BY <2>3, <2>x
  <2> HIDE DEF X, args
  <2>5. Alike(X, Y)  BY <2>4, StoreAlike DEF Push, Alike
  <2> HIDE DEF Y
  <2>6. Alike(T, Y)  BY <2>2, <2>4, <2>5, AlikeTwice
  <2>7. nny \in {0, 1} /\ (nny = 1 \/ Lands(cstack, Len(cstack)))
    <3>1. Top.yy => ~Loose(Top)  BY DEF Loose
    <3>2. Top.yy => Lands(cstack, Len(cstack))  BY <1>1, <3>1, Executes
    <3> QED BY <3>2
  <2> HIDE DEF nny
  <2> QED BY <1>3, <2>1, <2>6, <2>7, Calls
<1> QED BY <1>4, <1>5

LEMMA PoscallClosed_OK == ASSUME IInv, PoscallClosed PROVE IInv'
<1> DEFINE c == [ci EXCEPT !.clsret = FALSE]  S == SetCi(T, c)  X == Poscall(S, Top.n)
<1>1. Goes(X, Under, "done") /\ Top.fn = "luaD_poscall"  BY DEF PoscallClosed, At
<1> HIDE DEF c
<1>2. Alike(T, S)  BY Runs, SetCiAlike
<1> HIDE DEF S
<1>3. Alike(S, X)  BY <1>2, PoscallAlike DEF Alike
<1> HIDE DEF X
<1>4. Alike(T, X)  BY <1>2, <1>3, AlikeTwice
<1>5. Top.fn \notin Special /\ T.status = "LUA_OK"  BY <1>1, Busy DEF Special
<1> QED BY <1>1, <1>4, <1>5, Pops

LEMMA RawrunEnds_OK == ASSUME IInv, RawrunEnds PROVE IInv'
<1> DEFINE h == Len(cstack)  Y == Restored(T, Top)
<1>1. Goes(Y, Under, "LUA_OK") /\ Top.fn = "luaD_rawrunprotected"  BY DEF RawrunEnds, At
<1>2. /\ Sound(cstack) /\ Works(cstack, cstack, T) /\ Good(T) /\ Top = Last(cstack) /\ L = Last(cstack).th
      /\ T.status = "LUA_OK"
  BY <1>1, Runs DEF RunOK
<1>3. h \in 2..Len(cstack) /\ cstack[h] = Top  BY <1>1, <1>2, SoundTop
<1>4. Y = Restored(T, cstack[h])  BY <1>3
<1> HIDE DEF Y, h
<1>5. Works(cstack, SubSeq(cstack, 1, h - 1), Y) /\ Y.status = T.status
  BY <1>1, <1>2, <1>3, <1>4, WorksRestore
<1>6. Under = SubSeq(cstack, 1, h - 1)  BY DEF Under, Front, h
<1>7. RunOK(Y, Last(Under), "LUA_OK")  BY <1>2, <1>5, RunsLua
<1> QED BY <1>1, <1>5, <1>6, <1>7, Gone

LEMMA luaD_closeprotected_OK == ASSUME IInv, luaD_closeprotected PROVE IInv'
<1> DEFINE raw == rawrun(cstack, L, T)  X == Armed(cstack, T)  r == luaF_close(L, Top.level, Top.status, FALSE)
<1>1. Goes(X, Append(raw, r), "none") /\ Top.fn = "luaD_closeprotected"  BY DEF luaD_closeprotected, At
<1>2. /\ Sound(cstack) /\ Works(cstack, cstack, T) /\ Top = Last(cstack) /\ L = Last(cstack).th
      /\ T.status = "LUA_OK"
  BY <1>1, Runs DEF RunOK
<1>3. Works(cstack, raw, X) /\ X.errorJmp # 0 /\ X.status = "LUA_OK"  BY <1>1, <1>2, WorksRaw
<1>4. r.fn = "luaF_close" /\ r.th = L /\ r.inc = 0 /\ r.nny = 0 /\ Loose(r)  BY DEF luaF_close, Loose
<1> HIDE DEF raw, X, r
<1>5. r.fn \notin Special /\ Zero(r) /\ Alike(X, X)  BY <1>3, <1>4 DEF Special, Zero, Alike, Works
<1>6. Works(cstack, Append(raw, r), X) /\ Last(Append(raw, r)) = r
  BY <1>2, <1>3, <1>4, <1>5, WorksZero
<1>7. RunOK(X, r, "none")  BY <1>3, <1>4, RunsLua
<1> QED BY <1>1, <1>6, <1>7, Gone
------------------------------------------------------------------------------
(* A function returns 'n' results. *)
LEMMA Returns ==
  ASSUME IInv, Top.fn \notin Special, Top.fn \notin {"luaV_execute", "luaG_errormsg", "luaF_close"},
         Top.fn # "resume" \/ ret # "none", NEW X, Alike(T, X), NEW n, luaD_poscall(X, Under, n)
  PROVE  IInv'
<1>1. Sound(cstack) /\ Works(cstack, cstack, T) /\ Top = Last(cstack) /\ T.status = "LUA_OK"  BY Runs, Busy
<1>2. Works(cstack, Under, X) /\ Ready(Under, X)  BY <1>1, PopReady DEF Under, Loose
<1>3. X.status = "LUA_OK"  BY <1>1 DEF Alike
<1> QED BY <1>2, <1>3, PoscallOK

LEMMA FinishpcallOK ==
  ASSUME IInv, NEW cs, NEW X, Works(cstack, cs, X), Ready(cs, X), X.status = "LUA_OK",
         NEW failed \in BOOLEAN, finishpcall(X, cs, failed)
  PROVE  IInv'
<1> DEFINE Y == Push(X, <<"false", Peek(X)>>)  n == gettop(X) - (IF Last(X.ci).fn = "luaB_xpcall" THEN 2 ELSE 0)
<1>1. luaD_poscall(Y, cs, 2) \/ luaD_poscall(X, cs, n)  BY DEF finishpcall
<1>2. Alike(X, Y)  BY StoreAlike DEF Push, Works
<1> HIDE DEF Y, n
<1>3. Works(cstack, cs, Y) /\ Ready(cs, Y) /\ Y.status = "LUA_OK"  BY <1>2, WorksAlike DEF Alike, Ready
<1> QED BY <1>1, <1>3, PoscallOK

LEMMA PcallReturns_OK == ASSUME IInv, PcallReturns PROVE IInv'
<1> DEFINE c == [ci EXCEPT !.ypcall = FALSE]  S == SetCi(T, c)
           X == IF ci.ypcall THEN [S EXCEPT !.errfunc = ci.oldErrfunc] ELSE T
<1>1. finishpcall(X, Under, FALSE) /\ Top.fn \in {"luaB_pcall", "luaB_xpcall"} /\ ret = "done"
  BY DEF PcallReturns, At
<1>2. /\ Good(T) /\ Sound(cstack) /\ Works(cstack, cstack, T) /\ Top = Last(cstack) /\ Top.fn \notin Special
      /\ T.status = "LUA_OK"
  BY <1>1, Runs, Busy DEF Special
<1> HIDE DEF c
<1>3. Alike(T, S)  BY <1>2, SetCiAlike
<1> HIDE DEF S
<1>4. Alike(S, [S EXCEPT !.errfunc = ci.oldErrfunc]) /\ Alike(T, T)  BY <1>2, <1>3, SetAlike DEF Alike
<1>5. Alike(T, X)  BY <1>3, <1>4, AlikeTwice
<1> HIDE DEF X
<1>6. Works(cstack, Under, X) /\ Ready(Under, X)  BY <1>1, <1>2, <1>5, PopReady DEF Under, Loose
<1>7. X.status = "LUA_OK"  BY <1>2, <1>5 DEF Alike
<1> QED BY <1>1, <1>6, <1>7, FinishpcallOK

LEMMA CallReturns_OK == ASSUME IInv, CallReturns PROVE IInv'
<1>1. Top.fn \in {"lua_call", "lua_callk"} /\ luaD_poscall(T, Under, 1)  BY DEF CallReturns, At
<1>2. Alike(T, T)  BY Runs DEF Alike
<1> QED BY <1>1, <1>2, Returns DEF Special

LEMMA luaB_yieldable_OK == ASSUME IInv, luaB_yieldable PROVE IInv'
<1> DEFINE v == IF yieldable(T) THEN "true" ELSE "false"  X == Push(T, <<v>>)
<1>1. Top.fn = "luaB_yieldable" /\ luaD_poscall(X, Under, 1)  BY DEF luaB_yieldable, Begins, At
<1> HIDE DEF v
<1>2. Alike(T, X)  BY Runs, StoreAlike DEF Push
<1> HIDE DEF X
<1> QED BY <1>1, <1>2, Returns DEF Special

LEMMA luaB_costatus_OK == ASSUME IInv, luaB_costatus PROVE IInv'
<1> DEFINE v == auxstatus(Arg)  X == Push(T, <<v>>)
<1>1. Top.fn = "luaB_costatus" /\ luaD_poscall(X, Under, 1)  BY DEF luaB_costatus, Begins, At
<1> HIDE DEF v
<1>2. Alike(T, X)  BY Runs, StoreAlike DEF Push
<1> HIDE DEF X
<1> QED BY <1>1, <1>2, Returns DEF Special

(* The top function, which the count of C calls does not have, is left. *)
LEMMA PopZero ==
  ASSUME NEW cs, Sound(cs), NEW ds, NEW X, Works(cs, ds, X), NEW Y, Alike(X, Y),
         Last(ds).fn \in {"luaD_pcall", "luaD_closeprotected"}
  PROVE  /\ Works(cs, Front(ds), Y) /\ Last(Front(ds)) = ds[Len(ds) - 1] /\ Len(Front(ds)) = Len(ds) - 1
         /\ Last(ds).fn = "luaD_pcall" => Last(Front(ds)).fn \in {"host", "luaB_pcall", "luaB_xpcall"}
<1>1. /\ Sound(ds) /\ X.nC = CallsAt(ds, Len(ds)) /\ X.nny = NnyAt(ds, Len(ds))  BY DEF Works, Fits
<1>2. /\ Joins(ds, Len(ds)) /\ Last(ds) = ds[Len(ds)] /\ X.nC \in Nat /\ X.nny \in Nat  BY <1>1, SoundTop
<1>3. /\ Last(ds).inc = 0 /\ Last(ds).nny = 0
      /\ Last(ds).fn = "luaD_pcall" => ds[Len(ds) - 1].fn \in {"host", "luaB_pcall", "luaB_xpcall"}
  BY <1>2 DEF Joins, Adds, Follows
<1>4. /\ Good(Y) /\ Y.errorJmp = X.errorJmp /\ Y.nC = X.nC - Last(ds).inc /\ Y.nny = X.nny - Last(ds).nny
  BY <1>2, <1>3 DEF Alike
<1>5. Last(ds).fn \notin Bases /\ Last(ds).fn # "luaD_rawrunprotected"  BY DEF Bases
<1>6. Works(cs, Front(ds), Y) /\ Last(Front(ds)) = ds[Len(ds) - 1] /\ Len(Front(ds)) = Len(ds) - 1
  BY <1>4, <1>5, WorksPop
<1> QED BY <1>3, <1>6

LEMMA luaD_pcall_OK == ASSUME IInv, luaD_pcall PROVE IInv'
<1> DEFINE v == Top.olderrfunc  X == [T EXCEPT !.errfunc = v]
<1>1. Top.fn = "luaD_pcall" /\ ret = "LUA_OK" /\ Goes(X, Under, "done")  BY DEF luaD_pcall, At
<1>2. /\ Sound(cstack) /\ Works(cstack, cstack, T) /\ Top = Last(cstack) /\ T.status = "LUA_OK" /\ Good(T)
  BY <1>1, Runs DEF RunOK
<1> HIDE DEF v
<1>3. Alike(T, X)  BY <1>2, SetAlike
<1> HIDE DEF X
<1>4. Works(cstack, Under, X) /\ X.status = "LUA_OK"  BY <1>1, <1>2, <1>3, PopZero DEF Under, Alike
<1>5. RunOK(X, Last(Under), "done")  BY <1>4, RunsLua
<1> QED BY <1>1, <1>4, <1>5, Gone

LEMMA FrontTwice ==
  ASSUME NEW cs, IsSeq(cs), NEW k \in Nat, k >= 1, k <= Len(cs)
  PROVE  Front(SubSeq(cs, 1, k)) = SubSeq(cs, 1, k - 1)
<1> DEFINE ds == SubSeq(cs, 1, k)  m == k - 1
<1>1. Len(cs) \in Nat /\ k \in 0..Len(cs) /\ m \in 0..Len(cs) /\ m \in 0..k /\ m \in Nat  BY IsSeqIs DEF IsSeq
<1>2. IsCut(cs, ds, k)  BY <1>1, CutIs
<1>3. IsCut(cs, SubSeq(cs, 1, m), m)  BY <1>1, CutIs
<1>4. IsSeq(ds) /\ Len(ds) = k  BY <1>2 DEF IsCut
<1>5. Front(ds) = SubSeq(ds, 1, m)  BY <1>4 DEF Front
<1> HIDE DEF ds, m
<1>6. IsCut(ds, SubSeq(ds, 1, m), m)  BY <1>1, <1>4, CutIs
<1> DEFINE a == SubSeq(ds, 1, m)  b == SubSeq(cs, 1, m)
<1>7. IsSeq(a) /\ IsSeq(b) /\ Len(a) = m /\ Len(b) = m  BY <1>3, <1>6 DEF IsCut
<1>8. \A i \in 1..m : a[i] = b[i]
  <2> HIDE DEF a, b
  <2>1. \A i \in 1..m : a[i] = ds[i] /\ b[i] = cs[i]  BY <1>3, <1>6 DEF IsCut, Agree, a, b
  <2>2. \A i \in 1..m : ds[i] = cs[i]  BY <1>1, <1>2 DEF IsCut, Agree
  <2> QED BY <2>1, <2>2
<1> HIDE DEF a, b
<1>9. a = b
  <2> DEFINE R == {a[i] : i \in 1..Len(a)}  Q == {b[i] : i \in 1..Len(b)}
  <2>1. a \in Seq(R) /\ b \in Seq(Q)  BY <1>7 DEF IsSeq
  <2> HIDE DEF R, Q
  <2>2. a \in Seq(R \cup Q) /\ b \in Seq(R \cup Q)  BY <2>1, SeqMonotonic
  <2> QED BY <1>7, <1>8, <2>2, SeqEqual
<1> QED BY <1>5, <1>9 DEF a, b, m, ds

LEMMA PcallClosed_OK == ASSUME IInv, PcallClosed PROVE IInv'
<1> DEFINE n == Len(cstack)  d1 == Under  d2 == Front(d1)  d3 == Front(d2)
           S == luaD_seterrorobj(T, Top.level)  v == Last(Under).olderrfunc  X == [S EXCEPT !.errfunc = v]
<1>1. /\ Top.fn = "luaD_closeprotected" /\ ret # "none" /\ Last(d1).fn = "luaD_pcall"
      /\ cstack[n - 2].fn # "host" /\ finishpcall(X, SubSeq(cstack, 1, n - 3), TRUE)
  BY DEF PcallClosed, At
<1>2. /\ Sound(cstack) /\ Works(cstack, cstack, T) /\ Top = Last(cstack) /\ T.status = "LUA_OK" /\ Good(T)
      /\ IsSeq(cstack) /\ n \in Nat
  BY <1>1, Runs DEF RunOK
<1> HIDE DEF v
<1>3. Alike(T, S)  BY <1>2, StoreAlike DEF luaD_seterrorobj
<1> HIDE DEF S
<1>4. Alike(S, X)  BY <1>3, SetAlike DEF Alike
<1> HIDE DEF X
<1>5. Alike(T, X)  BY <1>3, <1>4, AlikeTwice
<1>6. Alike(X, X)  BY <1>5 DEF Alike
<1>7. d1 = SubSeq(cstack, 1, n - 1)  BY DEF Under, Front
<1>8. Works(cstack, d1, X) /\ Len(d1) = n - 1  BY <1>1, <1>2, <1>5, PopZero DEF Under
<1>9. Works(cstack, d2, X) /\ Len(d2) = n - 2 /\ Last(d2).fn \in {"host", "luaB_pcall", "luaB_xpcall"}
  <2> HIDE DEF d1
  <2>1. /\ Works(cstack, Front(d1), X) /\ Len(Front(d1)) = Len(d1) - 1
        /\ Last(Front(d1)).fn \in {"host", "luaB_pcall", "luaB_xpcall"}
    BY <1>1, <1>2, <1>6, <1>8, PopZero
  <2> QED BY <2>1, <1>2, <1>8
<1>10. n >= 3
  <2>1. Sound(d2)  BY <1>9 DEF Works
  <2>2. Len(d2) >= 1  BY <2>1 DEF Sound
  <2> QED BY <1>2, <1>9, <2>2
<1>11. d2 = SubSeq(cstack, 1, n - 2) /\ d3 = SubSeq(cstack, 1, n - 3)
  <2> HIDE DEF d1, d2, n
  <2>1. n = Len(cstack)  BY DEF n
  <2> DEFINE a == n - 1  b == n - 2
  <2>2. a \in Nat /\ a >= 1 /\ a <= Len(cstack) /\ a - 1 = b  BY <1>2, <1>10, <2>1
  <2>3. b \in Nat /\ b >= 1 /\ b <= Len(cstack) /\ b - 1 = n - 3  BY <1>2, <1>10, <2>1
  <2> HIDE DEF a, b
  <2>4. Front(SubSeq(cstack, 1, a)) = SubSeq(cstack, 1, a - 1)  BY <1>2, <2>2, FrontTwice
  <2>5. Front(SubSeq(cstack, 1, b)) = SubSeq(cstack, 1, b - 1)  BY <1>2, <2>3, FrontTwice
  <2>6. d1 = SubSeq(cstack, 1, a)  BY <1>7 DEF a
  <2>7. d2 = SubSeq(cstack, 1, b)  BY <2>2, <2>4, <2>6 DEF d2
  <2> QED BY <2>3, <2>5, <2>7 DEF b
<1>12. Last(d2).fn \in {"luaB_pcall", "luaB_xpcall"}
  <2> HIDE DEF d2, d1, n
  <2>1. n - 2 \in 1..n - 2 /\ n - 2 \in 0..n  BY <1>2, <1>10
  <2>2. IsCut(cstack, d2, n - 2)  BY <1>2, <1>11, <2>1, CutIs DEF n
  <2>3. Last(d2) = cstack[n - 2]  BY <1>9, <2>1, <2>2 DEF Last, IsCut, Agree
  <2> QED BY <1>1, <1>9, <2>3
<1>13. Works(cstack, d3, X) /\ Ready(d3, X)
  <2> HIDE DEF d2, d1
  <2>1. Last(d2).fn \notin Special /\ Last(d2).fn \notin {"luaV_execute", "luaG_errormsg"} /\ ~Loose(Last(d2))
    BY <1>12 DEF Special, Loose
  <2> QED BY <1>2, <1>6, <1>9, <2>1, PopReady
<1>14. X.status = "LUA_OK"  BY <1>2, <1>5 DEF Alike
<1>15. finishpcall(X, d3, TRUE)  BY <1>1, <1>11
<1> HIDE DEF d3
<1> QED BY <1>13, <1>14, <1>15, FinishpcallOK
------------------------------------------------------------------------------
LEMMA luaG_errormsg_OK == ASSUME IInv, luaG_errormsg PROVE IInv'
<1> DEFINE X == Store(T, T.top - 1, <<Slot(T, T.errfunc), Peek(T)>>)
<1>1. Top.fn = "luaG_errormsg" /\ Top.fn \notin Special  BY DEF luaG_errormsg, At, Special
<1>2. /\ Sound(cstack) /\ Works(cstack, cstack, T) /\ Top = Last(cstack) /\ Good(T) /\ L = Last(cstack).th
      /\ T.status = "LUA_OK" /\ T.errorJmp # 0
      /\ T.nC \in Nat /\ T.nny \in Nat
  BY <1>1, Runs, Busy
<1>3. ccall(X, cstack, T.top - 1, 1, 1, 1) \/ luaD_throw(T, Under, "LUA_ERRRUN")  BY DEF luaG_errormsg
<1>4. CASE ccall(X, cstack, T.top - 1, 1, 1, 1)
  <2>1. Alike(T, X)  BY <1>2, StoreAlike
  <2> HIDE DEF X
  <2> QED BY <1>2, <1>4, <2>1, Calls
<1>5. CASE luaD_throw(T, Under, "LUA_ERRRUN")
  <2> DEFINE W == [T EXCEPT !.nC = T.nC - Top.inc, !.nny = T.nny - Top.nny]  h == T.errorJmp
  <2>1. /\ Good(W) /\ W.errorJmp = h /\ W.nC = T.nC - Top.inc /\ W.nny = T.nny - Top.nny
    BY <1>2 DEF Good
  <2> HIDE DEF W
  <2>2. Last(cstack).fn \notin Bases /\ Last(cstack).fn # "luaD_rawrunprotected"  BY <1>1, <1>2 DEF Bases
  <2>3. Works(cstack, Under, W)  BY <1>2, <2>1, <2>2, WorksPop DEF Under
  <2>4. h \in 2..Len(Under) /\ Under[h].fn = "luaD_rawrunprotected" /\ Under[h].th = L
    BY <1>2, <2>1, <2>3, HandlerThere
  <2>5. h = T.errorJmp  OBVIOUS
  <2> HIDE DEF h
  <2> QED BY <1>2, <1>5, <2>3, <2>4, <2>5, ThrowOK
<1> QED BY <1>3, <1>4, <1>5

LEMMA lua_call_OK == ASSUME IInv, lua_call PROVE IInv'
<1>1. Top.fn = "lua_call" /\ Top.fn \notin Special /\ ccall(T, cstack, ci.func + 1, 1, 1, 1)
  BY DEF lua_call, Begins, At, Special
<1>2. Alike(T, T)  BY Runs DEF Alike
<1> QED BY <1>1, <1>2, Busy, Calls


LEMMA lua_callk_OK == ASSUME IInv, lua_callk PROVE IInv'
<1> DEFINE S == Store(T, ci.func + 1, <<"tbc", Arg>>)
           Y == [S EXCEPT !.tbclist = Append(S.tbclist, ci.func + 1)]
           X == SetCi(Y, [ci EXCEPT !.tbc = TRUE])
           nny == IF yieldable(T) THEN 0 ELSE 1
<1>1. Top.fn = "lua_callk" /\ Top.fn \notin Special /\ ~Loose(Top) /\ ccall(X, cstack, X.top - 1, 1, 1, nny)
  BY DEF lua_callk, Begins, At, Special, Loose
<1>2. Alike(T, S)  BY Runs, StoreAlike
<1> HIDE DEF S
<1>3. Alike(S, Y)  BY <1>2, SetAlike DEF Alike
<1> HIDE DEF Y
<1>4. Alike(Y, X)  BY <1>3, SetCiAlike DEF Alike
<1> HIDE DEF X
<1>5. Alike(T, X)  BY <1>2, <1>3, <1>4, AlikeTwice
<1>6. nny \in {0, 1} /\ T.status = "LUA_OK" /\ T.errorJmp # 0 /\ Lands(cstack, Len(cstack))
  BY <1>1, Executes
<1> HIDE DEF nny
<1> QED BY <1>1, <1>5, <1>6, Calls
------------------------------------------------------------------------------
LEMMA PcallkOK ==
  ASSUME IInv, Top.fn \in {"luaB_pcall", "luaB_xpcall"}, ret = "none",
         NEW X, Alike(T, X), NEW ef, lua_pcallk(X, ef)
  PROVE  IInv'
<1> DEFINE func == X.top - 1  c == Last(X.ci)  Y == [X EXCEPT !.errfunc = ef]
           r == pcall(L, Len(X.ci), func, X.errfunc)  cs == Append(cstack, r)  raw == rawrun(cs, L, Y)
           d == [c EXCEPT !.u2 = func, !.oldErrfunc = X.errfunc, !.ypcall = TRUE]
<1>1. \/ ccall(SetCi(Y, d), cstack, func, -1, 1, 0)
      \/ ccall(Armed(cs, Y), raw, func, -1, 1, 1)
  BY DEF lua_pcallk
<1>2. Top.fn \notin Special /\ ~Loose(Top)  BY DEF Special, Loose
<1>3. /\ Sound(cstack) /\ Works(cstack, cstack, T) /\ Top = Last(cstack) /\ L = Last(cstack).th
      /\ T.status = "LUA_OK" /\ T.errorJmp # 0 /\ Lands(cstack, Len(cstack)) /\ Good(X) /\ Len(X.ci) \in Nat
  BY <1>2, Runs, Executes DEF Alike, Good
<1>r. /\ r.fn = "luaD_pcall" /\ r.th = L /\ r.inc = 0 /\ r.nny = 0 /\ r.oldci = Len(X.ci) /\ Whole(r)
  BY DEF pcall, Whole
<1> HIDE DEF d, r
<1>4. Alike(X, Y)  BY <1>3, SetAlike
<1> HIDE DEF Y
<1>5. Alike(T, Y)  BY <1>4, AlikeTwice
<1>6. CASE ccall(SetCi(Y, d), cstack, func, -1, 1, 0)
  <2> DEFINE Z == SetCi(Y, d)
  <2>1. Alike(Y, Z)  BY <1>4, SetCiAlike DEF Alike
  <2> HIDE DEF Z, func
  <2>2. Alike(T, Z)  BY <1>5, <2>1, AlikeTwice
  <2>3. ccall(Z, cstack, func, -1, 1, 0)  BY <1>6 DEF Z
  <2> QED BY <1>3, <2>2, <2>3, Calls
<1>7. CASE ccall(Armed(cs, Y), raw, func, -1, 1, 1)
  <2> HIDE DEF func
  <2>1. Works(cstack, cs, Y) /\ Last(cs) = r
    BY <1>3, <1>5, <1>r, WorksProtect DEF Zero
  <2> HIDE DEF cs
  <2>2. /\ Works(cstack, raw, Armed(cs, Y)) /\ Armed(cs, Y).errorJmp # 0
        /\ Armed(cs, Y).status = Y.status
    BY <1>3, <1>r, <2>1, WorksRaw
  <2>3. Armed(cs, Y).status = "LUA_OK"  BY <1>3, <1>5, <2>2 DEF Alike
  <2> DEFINE Z == Armed(cs, Y)
  <2>4. ccall(Z, raw, func, -1, 1, 1)  BY <1>7
  <2> HIDE DEF Z, raw
  <2> QED BY <2>2, <2>3, <2>4, CcallOK DEF Z
<1> QED BY <1>1, <1>6, <1>7

LEMMA luaB_pcall_OK == ASSUME IInv, luaB_pcall PROVE IInv'
<1> DEFINE X == Store(T, ci.func + 1, <<"true", Arg>>)
<1>1. Top.fn = "luaB_pcall" /\ ret = "none" /\ lua_pcallk(X, 0)  BY DEF luaB_pcall, Begins, At
<1>2. Alike(T, X)  BY Runs, StoreAlike
<1> HIDE DEF X
<1> QED BY <1>1, <1>2, PcallkOK

LEMMA luaB_xpcall_OK == ASSUME IInv, luaB_xpcall PROVE IInv'
<1> DEFINE X == Store(T, T.top, <<"true", Arg>>)
<1>1. Top.fn = "luaB_xpcall" /\ ret = "none" /\ lua_pcallk(X, ci.func + 2)  BY DEF luaB_xpcall, Begins, At
<1>2. Alike(T, X)  BY Runs, StoreAlike
<1> HIDE DEF X
<1> QED BY <1>1, <1>2, PcallkOK

LEMMA luaB_yield_OK == ASSUME IInv, luaB_yield PROVE IInv'
<1> DEFINE c == [ci EXCEPT !.u2 = gettop(T)]  S == [T EXCEPT !.status = "LUA_YIELD"]  X == SetCi(S, c)
           msg == IF L = main THEN "outside a coroutine" ELSE "across a C-call boundary"
<1>1. /\ Top.fn = "luaB_yield"
      /\ \/ yieldable(T) /\ luaD_throw(X, cstack, "LUA_YIELD")
         \/ luaG_runerror(T, cstack, msg, 0, 0)
  BY DEF luaB_yield, Begins, At
<1>2. /\ Sound(cstack) /\ Works(cstack, cstack, T) /\ L = Last(cstack).th /\ Good(T)
      /\ T.status = "LUA_OK" /\ T.errorJmp # 0 /\ Ready(cstack, T)
  BY <1>1, Runs, Executes DEF Special, Loose
<1>3. CASE luaG_runerror(T, cstack, msg, 0, 0)
  <2> HIDE DEF msg
  <2>1. Alike(T, T)  BY <1>2 DEF Alike
  <2> QED BY <1>2, <1>3, <2>1, Fails
<1>4. CASE yieldable(T) /\ luaD_throw(X, cstack, "LUA_YIELD")
  <2> DEFINE n == Len(cstack)  h == T.errorJmp
  <2>1. Good(S) /\ S.errorJmp = h  BY <1>2 DEF Good
  <2> HIDE DEF S, c
  <2>2. Good(X) /\ X.errorJmp = h  BY <2>1, SetCiAlike DEF Alike
  <2> HIDE DEF X
  <2>3. h \in 2..n /\ cstack[h].fn = "luaD_rawrunprotected" /\ cstack[h].th = L
    BY <1>2, HandlerThere
  <2>4. cstack[h - 1].fn = "lua_resume"
    <3>1. /\ cstack[n] = Last(cstack) /\ T.errorJmp = HandlerAt(cstack, n, cstack[n].th) /\ T.nny = NnyAt(cstack, n)
      BY <1>2, SoundTop DEF Works, Fits
    <3>2. NnyAt(cstack, n) = 0  BY <1>4, <3>1 DEF yieldable
    <3> QED BY <1>2, <3>1, <3>2 DEF Ready, Lands
  <2>5. ~IsError("LUA_YIELD")  BY DEF IsError
  <2>6. luaD_throw(X, cstack, "LUA_YIELD")  BY <1>4
  <2> HIDE DEF h
  <2> QED BY <1>2, <2>2, <2>3, <2>4, <2>5, <2>6, ThrowOK
<1> QED BY <1>1, <1>3, <1>4

LEMMA resume_OK == ASSUME IInv, resume PROVE IInv'
<1> DEFINE r == Rec("unroll", L)  cs == Append(Under, r)  X == [T EXCEPT !.status = "LUA_OK"]
<1>1. /\ Top.fn = "resume" /\ ret = "none" /\ Top.fn \notin Special /\ ~Loose(Top)
      /\ \/ T.status = "LUA_OK" /\ ccall(T, cstack, T.top - 2, -1, 0, 0)
         \/ luaD_poscall(X, cs, 1)
  BY DEF resume, Begins, At, Special, Loose
<1>2. /\ Sound(cstack) /\ Works(cstack, cstack, T) /\ Top = Last(cstack) /\ L = Last(cstack).th /\ Good(T)
  BY Runs
<1>3. T.errorJmp # 0 /\ Lands(cstack, Len(cstack)) /\ Alike(T, T)  BY <1>1, <1>2, TopReady DEF Ready, Alike
<1>4. CASE T.status = "LUA_OK" /\ ccall(T, cstack, T.top - 2, -1, 0, 0)
  BY <1>3, <1>4, Calls
<1>5. CASE luaD_poscall(X, cs, 1)
  <2>1. r.fn = "unroll" /\ r.th = L /\ r.inc = 0 /\ r.nny = 0  BY DEF Rec
  <2> HIDE DEF r
  <2>2. r.fn \notin Special /\ Zero(r) /\ ~Loose(r)  BY <2>1 DEF Special, Zero, Loose
  <2>3. Works(cstack, Under, T) /\ Lands(Under, Len(Under))
    BY <1>1, <1>2, <1>3, PopReady DEF Under, Ready
  <2>4. Works(cstack, cs, T) /\ Ready(cs, T)
    BY <1>2, <1>3, <2>1, <2>2, <2>3, WorksZero
  <2> HIDE DEF cs
  <2>5. Good(X) /\ X.errorJmp = T.errorJmp /\ X.nC = T.nC /\ X.nny = T.nny /\ X.status = "LUA_OK"
    BY <1>2 DEF Good
  <2> HIDE DEF X
  <2>6. Works(cstack, cs, X) /\ Ready(cs, X)  BY <2>4, <2>5 DEF Works, Fits, Ready
  <2> QED BY <1>5, <2>5, <2>6, PoscallOK
<1> QED BY <1>1, <1>4, <1>5

LEMMA ResumeEnds_OK == ASSUME IInv, ResumeEnds PROVE IInv'
<1>1. Top.fn = "resume" /\ ret = "done" /\ Goes(T, Under, "done")  BY DEF ResumeEnds, At
<1>2. Alike(T, T)  BY Runs DEF Alike
<1>3. T.status = "LUA_OK" /\ Top.fn \notin Special  BY <1>1, Busy DEF Special
<1> QED BY <1>1, <1>2, <1>3, Pops

LEMMA ResumeReturns_OK == ASSUME IInv, ResumeReturns PROVE IInv'
<1>1. Top.fn = "lua_resume" /\ precover(T, cstack, "LUA_OK")  BY DEF ResumeReturns, At
<1>2. Works(cstack, cstack, T) /\ Top = Last(cstack) /\ ~IsError("LUA_OK")  BY Runs DEF IsError
<1> QED BY <1>1, <1>2, PrecoverOK

(* Two functions are called that the count of C calls does not have. *)
LEMMA CallsTwo ==
  ASSUME IInv, T.status = "LUA_OK", T.errorJmp # 0, Lands(cstack, Len(cstack)),
         NEW q, NEW r, q.fn \notin Special, r.fn \notin Special, Zero(q), Zero(r), q.th = L, r.th = L,
         ~Loose(q), r.fn \notin {"luaB_close", "luaB_coresume", "luaB_auxwrap"},
         NEW X, Alike(T, X), NEW s, Goes(X, Append(Append(cstack, q), r), s)
  PROVE  IInv'
<1> DEFINE cs == Append(cstack, q)
<1>1. Sound(cstack) /\ Works(cstack, cstack, T) /\ L = Last(cstack).th  BY Runs
<1>2. Works(cstack, cs, X) /\ Ready(cs, X) /\ X.status = "LUA_OK"  BY <1>1, WorksZero
<1> HIDE DEF cs
<1>3. Alike(X, X)  BY <1>2 DEF Alike, Works
<1>4. Works(cstack, Append(cs, r), X) /\ Last(Append(cs, r)) = r
  BY <1>1, <1>2, <1>3, WorksZero DEF Ready
<1>5. RunOK(X, r, s)  BY <1>2, RunsLua
<1>6. Goes(X, Append(cs, r), s)  BY DEF cs
<1> QED BY <1>4, <1>5, <1>6, Gone

LEMMA luaV_finishOp_OK == ASSUME IInv, Top.fn = "unroll", luaV_finishOp PROVE IInv'
<1> DEFINE q == luaV_execute(L, 0, 0)  cs == Append(cstack, q)
           a == luaF_close(L, ci.func + 3 + ci.block, "LUA_OK", TRUE)
           b == luaF_close(L, ci.func + 1, CLOSEKTOP, TRUE)
           S == [T EXCEPT !.top = RA(ci) + ci.u2]  top == IF S.top < CiTop(ci) THEN CiTop(ci) ELSE S.top
           X == [S EXCEPT !.top = top]
<1>1. \/ Goes(T, cs, "done") \/ Goes(T, Append(cs, a), "none") \/ Goes(X, Append(cs, b), "none")
  BY DEF luaV_finishOp
<1>2. /\ Sound(cstack) /\ Works(cstack, cstack, T) /\ L = Last(cstack).th /\ Good(T)
      /\ T.status = "LUA_OK" /\ T.errorJmp # 0 /\ Lands(cstack, Len(cstack))
  BY Runs, Executes DEF Special, Loose
<1>3. /\ q.fn = "luaV_execute" /\ q.th = L /\ q.inc = 0 /\ q.nny = 0
      /\ a.fn = "luaF_close" /\ a.th = L /\ a.inc = 0 /\ a.nny = 0
      /\ b.fn = "luaF_close" /\ b.th = L /\ b.inc = 0 /\ b.nny = 0
  BY DEF luaV_execute, luaF_close
<1> HIDE DEF q, a, b
<1>4. /\ q.fn \notin Special /\ Zero(q) /\ ~Loose(q)
      /\ a.fn \notin Special /\ Zero(a) /\ b.fn \notin Special /\ Zero(b)
  BY <1>3 DEF Special, Zero, Loose
<1>5. Alike(T, S)  BY <1>2, SetAlike
<1> HIDE DEF S, top
<1>6. Alike(S, X)  BY <1>5, SetAlike DEF Alike
<1> HIDE DEF X
<1>7. Alike(T, X) /\ Alike(T, T)  BY <1>2, <1>5, <1>6, AlikeTwice DEF Alike
<1>8. CASE Goes(T, cs, "done")
  <2>1. Works(cstack, cs, T) /\ Last(cs) = q  BY <1>2, <1>3, <1>4, <1>7, WorksZero
  <2>2. RunOK(T, Last(cs), "done")  BY <1>2, RunsLua
  <2> HIDE DEF cs
  <2> QED BY <1>8, <2>1, <2>2, Gone
<1>9. CASE Goes(T, Append(cs, a), "none")  BY <1>2, <1>3, <1>4, <1>7, <1>9, CallsTwo
<1>10. CASE Goes(X, Append(cs, b), "none")  BY <1>2, <1>3, <1>4, <1>7, <1>10, CallsTwo
<1> QED BY <1>1, <1>8, <1>9, <1>10

LEMMA finishCcall_OK == ASSUME IInv, Top.fn = "unroll", finishCcall PROVE IInv'
<1> DEFINE c == [ci EXCEPT !.ypcall = FALSE]  S == SetCi(T, c)  X == [S EXCEPT !.errfunc = ci.oldErrfunc]
           q == recovering(L, ci.recst)  r == luaF_close(L, ci.u2, ci.recst, TRUE)
<1>1. \/ luaD_poscall(T, cstack, ci.u2) \/ luaD_poscall(T, cstack, 1)
      \/ finishpcall(X, cstack, FALSE) \/ Goes(T, cstack \o <<q, r>>, "none")
  BY DEF finishCcall
<1>2. /\ Sound(cstack) /\ Works(cstack, cstack, T) /\ L = Last(cstack).th /\ Good(T) /\ IsSeq(cstack)
      /\ T.status = "LUA_OK" /\ Ready(cstack, T) /\ T.errorJmp # 0 /\ Lands(cstack, Len(cstack))
  BY Runs, Executes DEF Special, Loose
<1>3. CASE luaD_poscall(T, cstack, ci.u2) \/ luaD_poscall(T, cstack, 1)  BY <1>2, <1>3, PoscallOK
<1>4. CASE finishpcall(X, cstack, FALSE)
  <2> HIDE DEF c
  <2>1. Alike(T, S)  BY <1>2, SetCiAlike
  <2> HIDE DEF S
  <2>2. Alike(S, X)  BY <2>1, SetAlike DEF Alike
  <2> HIDE DEF X
  <2>3. Alike(T, X)  BY <2>1, <2>2, AlikeTwice
  <2>4. Works(cstack, cstack, X) /\ Ready(cstack, X) /\ X.status = "LUA_OK"
    BY <1>2, <2>3, WorksAlike DEF Alike, Ready
  <2> QED BY <1>4, <2>4, FinishpcallOK
<1>5. CASE Goes(T, cstack \o <<q, r>>, "none")
  <2>1. /\ q.fn = "finishpcallk" /\ q.th = L /\ q.inc = 0 /\ q.nny = 0
        /\ r.fn = "luaF_close" /\ r.th = L /\ r.inc = 0 /\ r.nny = 0
    BY DEF recovering, luaF_close
  <2> HIDE DEF q, r
  <2>2. q.fn \notin Special /\ Zero(q) /\ ~Loose(q) /\ r.fn \notin Special /\ Zero(r)
    BY <2>1 DEF Special, Zero, Loose
  <2>3. cstack \o <<q, r>> = Append(Append(cstack, q), r) /\ Alike(T, T)  BY <1>2, PushTwo DEF Alike
  <2>4. Goes(T, Append(Append(cstack, q), r), "none")  BY <1>5, <2>3
  <2> QED BY <1>2, <2>1, <2>2, <2>3, <2>4, CallsTwo
<1> QED BY <1>1, <1>3, <1>4, <1>5

LEMMA unroll_OK == ASSUME IInv, unroll PROVE IInv'
<1>1. Top.fn = "unroll" /\ (Goes(T, Under, "done") \/ luaV_finishOp \/ finishCcall)  BY DEF unroll, At
<1>2. CASE Goes(T, Under, "done")
  <2>1. Alike(T, T)  BY Runs DEF Alike
  <2>2. T.status = "LUA_OK" /\ Top.fn \notin Special  BY <1>1, Busy DEF Special
  <2> QED BY <1>1, <1>2, <2>1, <2>2, Pops
<1> QED BY <1>1, <1>2, luaV_finishOp_OK, finishCcall_OK

LEMMA finishpcallk_OK == ASSUME IInv, finishpcallk PROVE IInv'
<1> DEFINE E == luaD_seterrorobj(T, ci.u2)  c == [ci EXCEPT !.recst = "LUA_OK", !.ypcall = FALSE]
           S == SetCi(E, c)  X == [S EXCEPT !.errfunc = ci.oldErrfunc]
<1>1. Top.fn = "finishpcallk" /\ finishpcall(X, Under, TRUE)  BY DEF finishpcallk, At
<1>2. /\ Sound(cstack) /\ Works(cstack, cstack, T) /\ Top = Last(cstack) /\ Good(T) /\ T.status = "LUA_OK"
  BY <1>1, Runs, Busy DEF Special
<1>3. Alike(T, E)  BY <1>2, StoreAlike DEF luaD_seterrorobj
<1> HIDE DEF E, c
<1>4. Alike(E, S)  BY <1>3, SetCiAlike DEF Alike
<1> HIDE DEF S
<1>5. Alike(S, X)  BY <1>4, SetAlike DEF Alike
<1> HIDE DEF X
<1>6. Alike(T, X)  BY <1>3, <1>4, <1>5, AlikeTwice
<1>7. Works(cstack, Under, X) /\ Ready(Under, X)
  BY <1>1, <1>2, <1>6, PopReady DEF Under, Special, Loose
<1>8. X.status = "LUA_OK"  BY <1>2, <1>6 DEF Alike
<1> QED BY <1>1, <1>7, <1>8, FinishpcallOK
------------------------------------------------------------------------------
LEMMA SameExcept ==
  ASSUME NEW H, DOMAIN H = Threads, NEW l \in Threads, NEW t \in Threads, l # t, NEW Y, NEW Z
  PROVE  /\ [H EXCEPT ![l] = H[l], ![t] = Z] = [H EXCEPT ![t] = Z]
         /\ [[H EXCEPT ![t] = Y] EXCEPT ![t] = Z] = [H EXCEPT ![t] = Z]
<1> DEFINE A == [H EXCEPT ![l] = H[l], ![t] = Z]  B == [H EXCEPT ![t] = Z]
           C == [[H EXCEPT ![t] = Y] EXCEPT ![t] = Z]
<1>1. DOMAIN A = Threads /\ \A u \in Threads : A[u] = IF u = t THEN Z ELSE H[u]  OBVIOUS
<1>2. DOMAIN B = Threads /\ \A u \in Threads : B[u] = IF u = t THEN Z ELSE H[u]  OBVIOUS
<1>3. DOMAIN C = Threads /\ \A u \in Threads : C[u] = IF u = t THEN Z ELSE H[u]  OBVIOUS
<1>4. A = [u \in DOMAIN A |-> A[u]] /\ B = [u \in DOMAIN B |-> B[u]] /\ C = [u \in DOMAIN C |-> C[u]]
  OBVIOUS
<1> HIDE DEF A, B, C
<1>5. A = B /\ C = B  BY <1>1, <1>2, <1>3, <1>4
<1> QED BY <1>5 DEF A, B, C

(* A coroutine that may be resumed or closed is not on the C stack. *)
LEMMA NotActive ==
  ASSUME IInv, NEW t \in Threads, t # L, th[t].status # "LUA_OK" \/ ~(Len(th[t].ci) > 1)
  PROVE  /\ LastOf(cstack, t) = 0 /\ t # main /\ Good(th[t]) /\ th[t].errorJmp = 0
<1>1. Sane(th, cstack) /\ Sound(cstack) /\ L = Last(cstack).th /\ IsSeq(cstack) /\ Len(cstack) >= 1
      /\ Len(cstack) \in Nat
  BY Runs
<1>2. Right(th[t], cstack, t)  BY <1>1 DEF Sane
<1>3. LastOf(cstack, t) = 0
  <2>1. LastOf(cstack, t) \in 0..Len(cstack)  BY <1>1, LastOfIs
  <2> QED BY <1>1, <1>2, <2>1 DEF Right
<1>4. t # main
  <2>1. 1 \in 1..Len(cstack) /\ cstack[1].th = main  BY <1>1 DEF Sound
  <2> QED BY <1>1, <1>3, <2>1, LastOfIs
<1> QED BY <1>2, <1>3, <1>4 DEF Right

(* 't' takes over from the running thread, which is left as it is. *)
LEMMA TakesOver ==
  ASSUME IInv, NEW t \in Threads, t # L, NEW X, NEW ds, NEW r,
         Both(T, t, X, ds, r), Sane([th EXCEPT ![t] = X], ds), Last(ds).th = t, RunOK(X, Last(ds), r)
  PROVE  IInv'
<1>1. DOMAIN th = Threads /\ L \in Threads  BY Runs
<1>2. th' = [th EXCEPT ![L] = th[L], ![t] = X] /\ cstack' = ds /\ ret' = r  BY DEF Both, T
<1> DEFINE l == L
<1>l. l \in Threads /\ l # t  BY <1>1
<1>3. th' = [th EXCEPT ![l] = th[l], ![t] = X]  BY <1>2
<1> HIDE DEF l
<1>4. th' = [th EXCEPT ![t] = X]  BY <1>1, <1>l, <1>3, SameExcept
<1>5. th'[t] = X  BY <1>1, <1>4, SaneExcept
<1>6. Sane(th', cstack') /\ Last(cstack').th = t /\ RunOK(X, Last(cstack'), ret')  BY <1>2, <1>4
<1> QED BY <1>5, <1>6, SaneNext

Entered(H, cs, t, r, X) ==
  /\ Sane([H EXCEPT ![t] = X], Append(cs, r))
  /\ Works(Append(cs, r), Append(cs, r), X) /\ Last(Append(cs, r)) = r

LEMMA Resumed ==
  ASSUME NEW H, NEW cs, Sane(H, cs), NEW t \in Threads, t # main, LastOf(cs, t) = 0,
         NEW f, f = Last(cs).th, H[f].status = "LUA_OK", Len(H[f].ci) > 1,
         Last(cs).fn \in {"luaB_coresume", "luaB_auxwrap"},
         NEW r, r.fn = "lua_resume", r.th = t, r.from = f, r.nny = 0, r.inc = 1,
         CallsAt(cs, Len(cs)) + 1 <= ErrorCcalls,
         NEW X, Good(X), X.errorJmp = 0, X.nC = CallsAt(cs, Len(cs)) + 1, X.nny = 0
  PROVE  Entered(H, cs, t, r, X)
<1>1. r.inc \in {0, 1} /\ CallsAt(cs, Len(cs)) + r.inc <= ErrorCcalls /\ X.nC = CallsAt(cs, Len(cs)) + r.inc
  OBVIOUS
<1> QED BY <1>1, Enters DEF Entered

LEMMA Resumes ==
  ASSUME IInv, Top.fn \in {"luaB_coresume", "luaB_auxwrap"}, ret = "none", NEW co \in Threads, co # L,
         th[co].status # "LUA_OK" \/ ~(Len(th[co].ci) > 1), ~(T.nC >= LUAI_MAXCCALLS),
         NEW Y, Y = [Push(th[co], <<"rv">>) EXCEPT !.nC = T.nC + 1, !.nny = 0],
         NEW cs, cs = Append(cstack, resumed(co, L)),
         Both(T, co, Armed(cs, Y), Append(rawrun(cs, co, Y), Rec("resume", co)), "none")
  PROVE  IInv'
<1> DEFINE C == th[co]  P == Push(C, <<"rv">>)  q == resumed(co, L)  r == Rec("resume", co)
           raw == rawrun(cs, co, Y)  Z == Armed(cs, Y)  ds == Append(raw, r)  H1 == [th EXCEPT ![co] = Y]
<1>1. /\ Sane(th, cstack) /\ Sound(cstack) /\ L = Last(cstack).th /\ Top = Last(cstack) /\ L \in Threads
      /\ DOMAIN th = Threads /\ T = th[L] /\ T.nC \in Nat /\ RunOK(T, Top, ret)
      /\ Works(cstack, cstack, T) /\ LUAI_MAXCCALLS \in Nat /\ LUAI_MAXCCALLS <= ErrorCcalls /\ ErrorCcalls \in Nat
  BY Runs, CallsAssumption DEF T
<1>2. th[L].status = "LUA_OK" /\ Len(th[L].ci) > 1  BY <1>1 DEF RunOK
<1>3. LastOf(cstack, co) = 0 /\ co # main /\ Good(C) /\ C.errorJmp = 0  BY NotActive
<1>q. q.fn = "lua_resume" /\ q.th = co /\ q.inc = 1 /\ q.nny = 0 /\ q.from = L  BY DEF resumed
<1>r. r.fn = "resume" /\ r.th = co /\ r.inc = 0 /\ r.nny = 0  BY DEF Rec
<1> HIDE DEF C, q, r
<1>4. T.nC = CallsAt(cstack, Len(cstack))  BY <1>1 DEF Works, Fits
<1>5. Good(Y) /\ Y.errorJmp = 0 /\ Y.nC = T.nC + 1 /\ Y.nny = 0
  <2>1. Alike(C, P)  BY <1>3, StoreAlike DEF Push
  <2>2. Y = [P EXCEPT !.nC = T.nC + 1, !.nny = 0]  BY DEF C
  <2> HIDE DEF P
  <2>3. Good(P) /\ P.errorJmp = 0  BY <1>3, <2>1 DEF Alike
  <2> QED BY <2>2, <2>3 DEF Good
<1>6. Sane(H1, cs) /\ Works(cs, cs, Y) /\ Last(cs) = q
  <2>1. CallsAt(cstack, Len(cstack)) + q.inc <= ErrorCcalls
        /\ Y.nC = CallsAt(cstack, Len(cstack)) + q.inc /\ q.inc \in {0, 1}
    BY <1>1, <1>4, <1>5, <1>q
  <2>2. cs = Append(cstack, q)  BY DEF q
  <2> DEFINE l == L
  <2>3. l = Last(cstack).th /\ q.from = l /\ th[l].status = "LUA_OK" /\ Len(th[l].ci) > 1
    BY <1>1, <1>2, <1>q
  <2>4. q.fn = "lua_resume" /\ Last(cstack).fn \in {"luaB_coresume", "luaB_auxwrap"}  BY <1>1, <1>q
  <2> HIDE DEF l
  <2>5. Entered(th, cstack, co, q, Y)
    BY <1>1, <1>3, <1>5, <1>q, <2>1, <2>3, <2>4, Resumed
  <2> QED BY <2>2, <2>5 DEF Entered
<1>7. /\ Works(cs, raw, Z) /\ Z.errorJmp # 0 /\ Lands(raw, Len(raw)) /\ Sound(cs) /\ Last(cs).th = co
  <2>1. Sound(cs)  BY <1>6 DEF Works
  <2>2. Last(cs).th = co /\ Last(cs).fn = "lua_resume"  BY <1>6, <1>q
  <2> QED BY <1>6, <2>1, <2>2, WorksRaw
<1>b. Both(T, co, Z, ds, "none")  BY DEF r
<1> HIDE DEF raw, Z, H1
<1>8. Works(cs, ds, Z) /\ Last(ds) = r
  <2>1. r.fn \notin Special /\ Zero(r) /\ Alike(Z, Z)  BY <1>r, <1>7 DEF Special, Zero, Alike, Works
  <2> QED BY <1>7, <1>r, <2>1, WorksZero
<1> HIDE DEF ds
<1>9. Sane([H1 EXCEPT ![co] = Z], ds) /\ Last(ds).th = co
  <2>1. Sound(ds) /\ Mine(cs, ds) /\ Good(Z) /\ Fits(Z, ds, Len(ds))  BY <1>8 DEF Works
  <2> QED BY <1>6, <1>7, <2>1, Stays
<1>10. [H1 EXCEPT ![co] = Z] = [th EXCEPT ![co] = Z]
  <2> DEFINE l == L
  <2>1. l \in Threads /\ l # co  BY <1>1
  <2> HIDE DEF l
  <2> QED BY <1>1, <2>1, SameExcept DEF H1
<1>11. RunOK(Z, Last(ds), "none")  BY <1>8, <1>r DEF RunOK
<1> QED BY <1>b, <1>9, <1>10, <1>11, TakesOver

LEMMA lua_resume_OK == ASSUME IInv, lua_resume PROVE IInv'
<1> DEFINE co == getco  C == th[co]
           refused == IF C.status = "LUA_OK" /\ Len(C.ci) > 1 THEN "non-suspended"
                      ELSE IF (C.status = "LUA_OK" /\ gettop(C) = 0) \/ IsError(C.status) THEN "dead"
                      ELSE IF T.nC >= LUAI_MAXCCALLS THEN "C stack overflow" ELSE "none"
           Y == [Push(C, <<"rv">>) EXCEPT !.nC = T.nC + 1, !.nny = 0]
           cs == Append(cstack, resumed(co, L))
           X == Push(T, <<"false", refused>>)
<1>1. /\ Top.fn \in {"luaB_coresume", "luaB_auxwrap"} /\ ret = "none" /\ co \in Threads
      /\ \/ refused = "none" /\
            Both(T, co, Armed(cs, Y), Append(rawrun(cs, co, Y), Rec("resume", co)), "none")
         \/ luaD_poscall(X, Under, 2)
         \/ luaG_runerror(T, cstack, refused, 0, 0)
  BY DEF lua_resume, Begins, At
<1>2. Top.fn \notin Special /\ ~Loose(Top) /\ Good(T) /\ RunOK(T, Top, ret)  BY <1>1, Runs DEF Special, Loose
<1>3. CASE luaD_poscall(X, Under, 2)
  <2> HIDE DEF refused
  <2>1. Alike(T, X)  BY <1>2, StoreAlike DEF Push
  <2> HIDE DEF X
  <2> QED BY <1>1, <1>2, <1>3, <2>1, Returns
<1>4. CASE luaG_runerror(T, cstack, refused, 0, 0)
  <2> HIDE DEF refused
  <2>1. Alike(T, T)  BY <1>2 DEF Alike
  <2> QED BY <1>1, <1>2, <1>4, <2>1, Executes, Fails
<1>5. CASE refused = "none" /\
            Both(T, co, Armed(cs, Y), Append(rawrun(cs, co, Y), Rec("resume", co)), "none")
  <2>1. ~(C.status = "LUA_OK" /\ Len(C.ci) > 1) /\ ~(T.nC >= LUAI_MAXCCALLS)  BY <1>5
  <2>2. co # L
    <3>1. T.status = "LUA_OK" /\ Len(T.ci) > 1  BY <1>1, <1>2 DEF RunOK
    <3> QED BY <2>1, <3>1 DEF T
  <2> DEFINE c == co
  <2>3. /\ c \in Threads /\ c # L /\ (th[c].status # "LUA_OK" \/ ~(Len(th[c].ci) > 1))
        /\ Y = [Push(th[c], <<"rv">>) EXCEPT !.nC = T.nC + 1, !.nny = 0]
        /\ cs = Append(cstack, resumed(c, L))
        /\ Both(T, c, Armed(cs, Y), Append(rawrun(cs, c, Y), Rec("resume", c)), "none")
    BY <1>1, <1>5, <2>1, <2>2
  <2> HIDE DEF c, Y, cs
  <2> QED BY <1>1, <2>1, <2>3, Resumes
<1> QED BY <1>1, <1>3, <1>4, <1>5
------------------------------------------------------------------------------
(* A coroutine closes itself. *)
LEMMA WorksSelf ==
  ASSUME NEW cs, NEW X, Works(cs, cs, X), Last(cs).fn = "luaB_close", Last(cs).th # main,
         NEW r, r.fn = "lua_closethread", r.th = Last(cs).th, r.from = Last(cs).th, Zero(r),
         NEW Y, Good(Y), Y.errorJmp = X.errorJmp, Y.nC = X.nC, Y.nny = 0
  PROVE  Works(cs, Append(cs, r), Y) /\ Last(Append(cs, r)) = r
<1> DEFINE es == Append(cs, r)  n == Len(cs)  k == n + 1
<1>0. Sound(cs) /\ Mine(cs, cs) /\ Good(X) /\ Fits(X, cs, n)  BY DEF Works
<1>1. /\ IsSeq(cs) /\ n \in Nat /\ n >= 1 /\ Last(cs) = cs[n] /\ r.th \in Threads
      /\ CallsAt(cs, n) \in Nat /\ CallsAt(cs, n) <= ErrorCcalls
  BY <1>0, SoundTop
<1>2. IsPush(cs, es, r)  BY <1>1, PushIs
<1> HIDE DEF es
<1>3. /\ Last(es) = r /\ Len(es) = k /\ es[k] = r /\ es[n] = Last(cs) /\ k - 1 = n /\ k \in Nat
      /\ CallsAt(es, k) = CallsAt(cs, n) + r.inc
      /\ HandlerAt(es, k, r.th) = HandlerAt(cs, n, r.th)
      /\ NnyAt(es, k) = 0
  <2>1. r.inc \in {0, 1} /\ r.nny \in {0, 1} /\ r.nny = 0  BY DEF Zero
  <2>2. r.fn \in Bases /\ r.fn # "luaD_rawrunprotected"  BY DEF Bases
  <2>3. /\ Last(es) = r /\ Len(es) = k /\ es[k] = r /\ es[n] = Last(cs) /\ k - 1 = n /\ k \in Nat
        /\ CallsAt(es, k) = CallsAt(cs, n) + r.inc
        /\ HandlerAt(es, k, r.th) = HandlerAt(cs, n, r.th)
        /\ r.fn \in Bases => NnyAt(es, k) = (IF r.th = main THEN 1 ELSE 0) + r.nny
    <3>1. BasePushed(cs, es, r)  BY <1>0, <1>2, <2>1, <2>2, PushBase
    <3> HIDE DEF n, k
    <3>2. n = Len(cs) /\ k = n + 1  BY DEF n, k
    <3> QED BY <1>1, <2>2, <3>1, <3>2, SMTT(30) DEF BasePushed
  <2>4. (IF r.th = main THEN 1 ELSE 0) + r.nny = 0  BY <2>1
  <2> QED BY <2>2, <2>3, <2>4
<1> HIDE DEF n
<1> HIDE DEF k
<1>4. Joins(es, k)
  <2>1. Adds(es, k)  BY <1>1, <1>3 DEF Adds, Zero
  <2>2. Follows(es, k)  BY <1>0, <1>3 DEF Follows, Bases
  <2>3. Saves(es, k) /\ Handled(es, k)  BY <1>3 DEF Saves, Handled, Special
  <2> QED BY <2>1, <2>2, <2>3 DEF Joins
<1>5. Sound(es)  BY <1>0, <1>2, <1>4, SoundPush DEF k, n
<1>6. Mine(cs, es)  BY <1>0, <1>1, <1>2, MinePush
<1>7. Fits(Y, es, k)
  <2>1. X.errorJmp = HandlerAt(cs, n, r.th) /\ X.nC = CallsAt(cs, n)  BY <1>0, <1>1 DEF Fits
  <2> QED BY <1>1, <1>3, <2>1 DEF Fits, Zero
<1>8. Works(cs, es, Y)  BY <1>3, <1>5, <1>6, <1>7 DEF Works
<1> QED BY <1>3, <1>8 DEF es

LEMMA ClosesSelf ==
  ASSUME IInv, Top.fn = "luaB_close", L # main, T.status = "LUA_OK",
         NEW X, Good(X), X.errorJmp = T.errorJmp, X.nC = T.nC, X.nny = 0, X.status = "LUA_OK",
         Goes(X, lua_closethread(cstack, L, T, L), "none")
  PROVE  IInv'
<1> DEFINE status == IF T.status = "LUA_YIELD" THEN "LUA_OK" ELSE T.status
           q == closethread(L, L)  r == closeprotected(L, 2, status, 1)  es == Append(cstack, q)
<1>1. /\ Sound(cstack) /\ IsSeq(cstack) /\ Works(cstack, cstack, T) /\ L = Last(cstack).th /\ Top = Last(cstack)
  BY Runs
<1>2. Goes(X, cstack \o <<q, r>>, "none")  BY DEF lua_closethread
<1>3. /\ q.fn = "lua_closethread" /\ q.th = L /\ q.from = L /\ q.inc = 0 /\ q.nny = 0
  BY DEF closethread
<1>4. r.fn = "luaD_closeprotected" /\ r.th = L /\ r.inc = 0 /\ r.nny = 0 /\ r.oldci = 1 /\ Whole(r)
  BY DEF closeprotected, Whole
<1> HIDE DEF q, r
<1>e. Goes(X, Append(es, r), "none")
  <2>1. cstack \o <<q, r>> = Append(Append(cstack, q), r)  BY <1>1, PushTwo
  <2> QED BY <1>2, <2>1
<1>5. Works(cstack, es, X) /\ Last(es) = q
  <2>1. Zero(q)  BY <1>3 DEF Zero
  <2> QED BY <1>1, <1>3, <2>1, WorksSelf
<1> HIDE DEF es
<1>6. Works(cstack, Append(es, r), X) /\ Last(Append(es, r)) = r
  <2>1. Alike(X, X) /\ Zero(r)  BY <1>4 DEF Alike, Zero
  <2> QED BY <1>1, <1>3, <1>4, <1>5, <2>1, WorksProtect
<1>7. RunOK(X, r, "none")  BY <1>4, RunsLua
<1> QED BY <1>e, <1>6, <1>7, Gone

LEMMA luaB_close_OK == ASSUME IInv, luaB_close PROVE IInv'
<1> DEFINE co == IF gettop(T) = 0 THEN L ELSE getco  X == resetCI(th[co], L)
<1>1. /\ Top.fn = "luaB_close" /\ ret = "none" /\ co \in Threads
      /\ \/ /\ auxstatus(co) \in {"dead", "suspended"}
            /\ Both(T, co, X, lua_closethread(cstack, co, th[co], L), "none")
         \/ \E msg : luaG_runerror(T, cstack, msg, 0, 0)
         \/ /\ L # main
            /\ Goes(resetCI(T, L), lua_closethread(cstack, L, T, L), "none")
  BY DEF luaB_close, Begins, At
<1>2. /\ Sane(th, cstack) /\ L = Last(cstack).th /\ Top = Last(cstack) /\ Good(T) /\ T = th[L]
      /\ RunOK(T, Top, ret) /\ Top.fn \notin Special /\ ~Loose(Top) /\ Works(cstack, cstack, T)
  BY <1>1, Runs DEF Special, Loose, T
<1>3. T.status = "LUA_OK" /\ Len(T.ci) > 1 /\ Ready(cstack, T)  BY <1>1, <1>2, Executes DEF RunOK
<1> HIDE DEF co
<1>4. CASE \E msg : luaG_runerror(T, cstack, msg, 0, 0)
  <2>1. PICK msg : luaG_runerror(T, cstack, msg, 0, 0)  BY <1>4
  <2>2. Alike(T, T)  BY <1>2 DEF Alike
  <2> QED BY <1>3, <2>1, <2>2, Fails
<1>5. CASE L # main /\ Goes(resetCI(T, L), lua_closethread(cstack, L, T, L), "none")
  <2> DEFINE Y == resetCI(T, L)
  <2>1. Good(Y) /\ Y.errorJmp = T.errorJmp /\ Y.nC = T.nC /\ Y.nny = 0 /\ Y.status = "LUA_OK"
    BY <1>2, ResetAlike
  <2>2. Goes(Y, lua_closethread(cstack, L, T, L), "none")  BY <1>5
  <2> HIDE DEF Y
  <2> QED BY <1>1, <1>3, <1>5, <2>1, <2>2, ClosesSelf
<1>6. CASE /\ auxstatus(co) \in {"dead", "suspended"}
           /\ Both(T, co, X, lua_closethread(cstack, co, th[co], L), "none")
  <2>1. co # L /\ (th[co].status # "LUA_OK" \/ ~(Len(th[co].ci) > 1))
    BY <1>6 DEF auxstatus, IsError
  <2> DEFINE C == th[co]  c == co
  <2>2. LastOf(cstack, c) = 0 /\ c # main /\ Good(C) /\ C.errorJmp = 0 /\ c \in Threads
    BY <1>1, <2>1, NotActive
  <2>3. Good(X) /\ X.errorJmp = 0 /\ X.nC = th[L].nC /\ X.nny = 0 /\ X.status = "LUA_OK"
    <3> HIDE DEF C
    <3>1. X = resetCI(C, L)  BY DEF C
    <3> QED BY <2>2, <3>1, ResetAlike
  <2>4. X.nC = CallsAt(cstack, Len(cstack))  BY <1>2, <2>3 DEF Works, Fits
  <2> DEFINE ds == lua_closethread(cstack, c, C, L)
  <2>5. Both(T, c, X, ds, "none")  BY <1>6
  <2> HIDE DEF X
  <2>6. Closes(th, cstack, c, C, L, X)
    <3> DEFINE l == L
    <3>1. /\ l = Last(cstack).th /\ th[l].status = "LUA_OK" /\ Len(th[l].ci) > 1
          /\ Last(cstack).fn \in {"luaB_close", "luaB_auxwrap"}
      BY <1>1, <1>2, <1>3
    <3> HIDE DEF C, c, l
    <3>2. Closes(th, cstack, c, C, l, X)  BY <1>2, <2>2, <2>3, <2>4, <3>1, ClosesOther
    <3> QED BY <3>2 DEF l
  <2>7. Sane([th EXCEPT ![c] = X], ds) /\ Last(ds).th = c /\ RunOK(X, Last(ds), "none")
    BY <2>6 DEF Closes
  <2>8. c # L  BY <2>1
  <2> HIDE DEF ds, c
  <2> QED BY <2>2, <2>5, <2>7, <2>8, TakesOver
<1> QED BY <1>1, <1>4, <1>5, <1>6
------------------------------------------------------------------------------
LEMMA FirstHandler ==
  ASSUME NEW cs, Sound(cs), NEW k \in 1..Len(cs), NEW t, HandlerAt(cs, k, t) # 0
  PROVE  \E j \in 2..k : cs[j].fn = "luaD_rawrunprotected" /\ cs[j].th = t /\ cs[j].previous = 0
<1> DEFINE S == RunsTo(cs, k, t)
<1>0. Len(cs) \in Nat /\ k \in Nat \ {0} /\ cs[1].fn = "host"  BY SoundTop DEF Sound
<1>1. S \subseteq Nat /\ S # {}
  <2>1. S \subseteq 1..k  BY DEF RunsTo
  <2>2. Innermost({}) = 0  BY DEF Innermost
  <2>3. S # {}  BY <2>2 DEF HandlerAt
  <2> QED BY <2>1, <2>3
<1> HIDE DEF S
<1>2. PICK j \in S : \A i \in S : ~(<<i, j>> \in OpToRel(<, Nat))
  BY <1>1, WFMin, NatLessThanWellFounded
<1>3. j \in 1..k /\ cs[j].fn = "luaD_rawrunprotected" /\ cs[j].th = t  BY <1>2 DEF S, RunsTo
<1>4. j \in 2..k /\ j \in 2..Len(cs)
  <2>1. j # 1  BY <1>0, <1>3
  <2> QED BY <1>0, <1>3, <2>1
<1>5. cs[j].previous = HandlerAt(cs, j - 1, t)
  <2>1. Joins(cs, j)  BY <1>4 DEF Sound
  <2> QED BY <1>3, <2>1 DEF Joins, Saves
<1>6. RunsTo(cs, j - 1, t) = {}
  <2> SUFFICES ASSUME NEW i \in RunsTo(cs, j - 1, t) PROVE FALSE  OBVIOUS
  <2>1. i \in 1..j - 1 /\ cs[i].fn = "luaD_rawrunprotected" /\ cs[i].th = t  BY DEF RunsTo
  <2>2. i \in 1..k /\ i < j /\ i \in Nat /\ j \in Nat  BY <1>3, <1>0, <2>1
  <2>3. i \in S  BY <2>1, <2>2 DEF S, RunsTo
  <2> QED BY <1>2, <2>2, <2>3 DEF OpToRel
<1>7. cs[j].previous = 0  BY <1>5, <1>6 DEF HandlerAt, Innermost
<1> QED BY <1>3, <1>4, <1>7

LEMMA luaE_resetthread_OK == ASSUME IInv, luaE_resetthread PROVE IInv'
<1> DEFINE n == Len(cstack)  k == n - 2  status == Top.status  from == Last(Under).from
           cs == SubSeq(cstack, 1, n - 2)
           X == IF IsError(status) THEN luaD_seterrorobj(T, 2) ELSE [T EXCEPT !.top = 2]
           popped == [X EXCEPT !.top = X.top - 1]  F == th[from]
           B == [X EXCEPT !.errorJmp = BaseLevel]
           msg == Peek(X)  e == errormsg(from, F.top, 0, 0)
<1>1. /\ Top.fn = "luaD_closeprotected" /\ ret # "none" /\ Last(Under).fn = "lua_closethread"
      /\ \/ from = L /\ luaD_throw(B, cs, status)
         \/ from # L /\ Both(X, from, Poscall(Push(F, <<"true">>), 1), Front(cs), "done")
         \/ from # L /\ Both(popped, from, Poscall(Push(F, <<"false", msg>>), 2), Front(cs), "done")
         \/ from # L /\ Both(popped, from, Push(F, <<msg>>), Append(cs, e), "none")
  BY DEF luaE_resetthread, At
<1>2. /\ Sane(th, cstack) /\ Sound(cstack) /\ Works(cstack, cstack, T) /\ Top = Last(cstack) /\ T.status = "LUA_OK"
      /\ Good(T) /\ IsSeq(cstack) /\ n \in Nat /\ L = Last(cstack).th
  BY <1>1, Runs DEF RunOK
<1>3. Alike(T, X)
  <2>1. Alike(T, luaD_seterrorobj(T, 2)) /\ Alike(T, [T EXCEPT !.top = 2])
    BY <1>2, StoreAlike, SetAlike DEF luaD_seterrorobj
  <2> QED BY <2>1
<1> HIDE DEF X, msg, status
<1>4. Works(cstack, Under, X) /\ Len(Under) = n - 1  BY <1>1, <1>2, <1>3, PopZero DEF Under
<1>5. Sound(Under) /\ Last(Under).th = L /\ Good(X)  BY <1>2, <1>4 DEF Works
<1>6. /\ Joins(Under, n - 1) /\ Last(Under) = Under[n - 1] /\ n - 1 >= 2
  BY <1>1, <1>4, <1>5, SoundTop
<1>7. /\ Under[n - 1 - 1].th = from /\ Under[n - 1 - 1].fn \in {"luaB_close", "luaB_auxwrap"}
  BY <1>1, <1>6 DEF Joins, Follows, Bases
<1>8. n - 1 - 1 = n - 2 /\ k \in 1..n - 1 /\ k \in 1..n  BY <1>2, <1>6
<1>9. Front(Under) = cs
  <2> DEFINE a == n - 1
  <2>1. a \in Nat /\ a >= 1 /\ a <= Len(cstack) /\ a - 1 = n - 2  BY <1>2, <1>6
  <2>2. Under = SubSeq(cstack, 1, a)  BY DEF Under, Front
  <2> HIDE DEF a
  <2>3. Front(SubSeq(cstack, 1, a)) = SubSeq(cstack, 1, a - 1)  BY <1>2, <2>1, FrontTwice
  <2> QED BY <2>1, <2>2, <2>3
<1>10. Good(popped) /\ popped.errorJmp = X.errorJmp
  <2> DEFINE v == X.top - 1
  <2> HIDE DEF v
  <2>1. Alike(X, [X EXCEPT !.top = v])  BY <1>5, SetAlike
  <2>2. popped = [X EXCEPT !.top = v]  BY DEF v
  <2> HIDE DEF popped
  <2> QED BY <2>1, <2>2 DEF Alike
<1> HIDE DEF from
<1>11. from = Last(Under).from  BY DEF from
<1>12. CASE from # L /\ Both(X, from, Poscall(Push(F, <<"true">>), 1), Front(cs), "done")
  <2> DEFINE vals == <<"true">>
  <2> HIDE DEF vals, cs
  <2>1. Both(X, from, Poscall(Push(th[from], vals), 1), Front(cs), "done")  BY <1>12 DEF vals
  <2> QED BY <1>1, <1>4, <1>5, <1>9, <1>11, <1>12, <2>1, HandsResult
<1>13. CASE from # L /\ Both(popped, from, Poscall(Push(F, <<"false", msg>>), 2), Front(cs), "done")
  <2> DEFINE vals == <<"false", msg>>
  <2> HIDE DEF vals, cs, popped
  <2>1. Both(popped, from, Poscall(Push(th[from], vals), 2), Front(cs), "done")  BY <1>13 DEF vals
  <2> QED BY <1>1, <1>4, <1>5, <1>9, <1>10, <1>11, <1>13, <2>1, HandsResult
<1>14. CASE from # L /\ Both(popped, from, Push(F, <<msg>>), Append(cs, e), "none")
  <2> DEFINE P == Push(F, <<msg>>)
  <2>1. Leaving(th, cstack, Under, X, from)  BY <1>1, <1>2, <1>4, <1>11, <1>14 DEF Leaving
  <2> HIDE DEF cs, popped
  <2>2. /\ Works(cs, cs, F) /\ F.status = "LUA_OK" /\ Last(cs).fn \in {"luaB_close", "luaB_auxwrap"}
        /\ Last(cs).th = from
    BY <1>1, <1>5, <1>9, <2>1, Leaves
  <2>3. e.fn = "luaG_errormsg" /\ e.th = from /\ e.inc = 0 /\ e.nny = 0  BY DEF errormsg
  <2> HIDE DEF e, F
  <2>4. Alike(F, P)  BY <2>2, StoreAlike DEF Push, Works
  <2> HIDE DEF P
  <2>5. Sound(cs) /\ Last(cs).fn \notin Special /\ ~Loose(Last(cs)) /\ e.fn \notin Special /\ Zero(e)
    BY <2>2, <2>3 DEF Works, Special, Loose, Zero
  <2>6. F.errorJmp # 0 /\ Lands(cs, Len(cs))  BY <2>2, <2>5, TopReady DEF Ready
  <2>7. Works(cs, Append(cs, e), P) /\ Last(Append(cs, e)) = e /\ P.status = "LUA_OK"
    BY <2>2, <2>3, <2>4, <2>5, <2>6, WorksZero
  <2>8. RunOK(P, e, "none")  BY <2>3, <2>7, RunsLua
  <2> DEFINE es == Append(cs, e)
  <2>9. Both(popped, from, P, es, "none") /\ Works(cs, es, P) /\ RunOK(P, Last(es), "none")
    BY <1>14, <2>7, <2>8 DEF P
  <2> HIDE DEF es
  <2> QED BY <1>1, <1>4, <1>9, <1>10, <1>11, <1>14, <2>9, HandsOver
<1>15. CASE from = L /\ luaD_throw(B, cs, status)
  <2> DEFINE h == BaseLevel
  <2>1. Under[k] = cstack[k] /\ cstack[k].th = L /\ cstack[k].fn \in {"luaB_close", "luaB_auxwrap"}
    <3>1. n - 1 \in 0..n /\ Under = SubSeq(cstack, 1, n - 1)  BY <1>2, <1>6 DEF Under, Front
    <3>2. IsCut(cstack, Under, n - 1)  BY <1>2, <3>1, CutIs
    <3>3. Under[k] = cstack[k]  BY <1>8, <3>2 DEF IsCut, Agree
    <3> QED BY <1>7, <1>8, <1>15, <3>3
  <2>2. HandlerAt(cstack, k, L) # 0
    <3>1. k \in 2..n
      <4>1. k # 1  BY <1>2, <2>1 DEF Sound
      <4> QED BY <1>8, <4>1
    <3>2. Handled(cstack, k)  BY <1>2, <3>1 DEF Sound, Joins
    <3>3. cstack[k].fn \notin Special  BY <2>1 DEF Special
    <3>4. HandlerAt(cstack, k, cstack[k].th) > 1  BY <3>2, <3>3 DEF Handled
    <3> QED BY <2>1, <3>4
  <2>3. \E j \in 1..n : cstack[j].fn = "luaD_rawrunprotected" /\ cstack[j].th = L /\ cstack[j].previous = 0
    <3> HIDE DEF k
    <3>1. PICK j \in 2..k : cstack[j].fn = "luaD_rawrunprotected" /\ cstack[j].th = L /\ cstack[j].previous = 0
      BY <1>2, <1>8, <2>2, FirstHandler
    <3>2. j \in 1..n  BY <1>2, <1>8, <3>1
    <3> QED BY <3>1, <3>2
  <2>4. h \in 1..n /\ cstack[h].fn = "luaD_rawrunprotected" /\ cstack[h].th = L
    BY <2>3 DEF BaseLevel
  <2> HIDE DEF h
  <2>5. h \in 2..k
    <3>1. h # n /\ h # 1
      <4>1. cstack[1].fn = "host"  BY <1>2, SMTT(20) DEF Sound
      <4>2. h # 1  BY <2>4, <4>1
      <4>0. Last(cstack) = cstack[n] /\ Top.fn = "luaD_closeprotected"  BY <1>1, <1>2, SoundTop
      <4>3. cstack[n].fn # "luaD_rawrunprotected"  BY <4>0 DEF Top
      <4>4. h # n  BY <2>4, <4>3
      <4> QED BY <4>2, <4>4
    <3>2. h # n - 1
      <4>1. n - 1 \in 0..n /\ n - 1 \in 1..n - 1 /\ Under = SubSeq(cstack, 1, n - 1)  BY <1>2, <1>6 DEF Under, Front
      <4>2. IsCut(cstack, Under, n - 1)  BY <1>2, <4>1, CutIs
      <4>3. Under[n - 1] = cstack[n - 1]  BY <4>1, <4>2 DEF IsCut, Agree
      <4> QED BY <1>1, <1>6, <2>4, <4>3
    <3>3. n \in Nat /\ h \in 1..n /\ k = n - 2  BY <1>2, <2>4
    <3> HIDE DEF n, k
    <3> QED BY <3>1, <3>2, <3>3
  <2> DEFINE W == [T EXCEPT !.errorJmp = HandlerAt(cstack, k, L), !.nC = CallsAt(cstack, k), !.nny = NnyAt(cstack, k)]
  <2>6. Good(W) /\ W.errorJmp = HandlerAt(cstack, k, L) /\ W.nC = CallsAt(cstack, k) /\ W.nny = NnyAt(cstack, k)
    BY <1>2 DEF Good
  <2> HIDE DEF W
  <2>7. Fits(W, cstack, k)  BY <2>1, <2>6 DEF Fits
  <2>c. cs = SubSeq(cstack, 1, k)  OBVIOUS
  <2> HIDE DEF cs, k
  <2>8. Works(cstack, cs, W) /\ Len(cs) = k
    BY <1>2, <1>8, <2>1, <2>6, <2>7, <2>c, WorksCut
  <2>9. cs[h] = cstack[h]
    <3>1. k \in 0..n  BY <1>2, <1>8
    <3>2. IsCut(cstack, cs, k)  BY <1>2, <2>c, <3>1, CutIs
    <3>3. h \in 1..k  BY <2>5
    <3> QED BY <3>2, <3>3 DEF IsCut, Agree
  <2>10. Good(B) /\ B.errorJmp = h /\ B.status = "LUA_OK"
    <3>1. B = [X EXCEPT !.errorJmp = h]  BY DEF h
    <3>2. X.status = "LUA_OK"  BY <1>2, <1>3 DEF Alike
    <3> HIDE DEF B
    <3> QED BY <1>5, <3>1, <3>2 DEF Good
  <2>11. luaD_throw(B, cs, status) /\ h \in 2..Len(cs)  BY <1>15, <2>5, <2>8
  <2> HIDE DEF B
  <2> QED BY <2>4, <2>8, <2>9, <2>10, <2>11, ThrowOK
<1> QED BY <1>1, <1>12, <1>13, <1>14, <1>15
------------------------------------------------------------------------------
LEMMA FirstRecord ==
  ASSUME NEW r, r.fn = "host", r.th = main, r.inc = 0, r.nny = 0,
         NEW X, Good(X), X.errorJmp = 0, X.nC = 0, X.nny = 1
  PROVE  Sound(<<r>>) /\ Last(<<r>>) = r /\ Works(<<r>>, <<r>>, X)
<1> DEFINE cs == <<r>>
<1>1. IsSeq(cs) /\ Len(cs) = 1 /\ cs[1] = r
  <2>1. cs \in Seq({r})  OBVIOUS
  <2> QED BY <2>1, IsSeqIs
<1> HIDE DEF cs
<1>2. \A k \in 2..Len(cs) : FALSE  BY <1>1
<1>3. \A i \in 1..Len(cs) : i = 1  BY <1>1
<1>4. Sound(cs)  BY <1>1, <1>2, <1>3 DEF Sound
<1>5. Last(cs) = r  BY <1>1 DEF Last
<1>6. RunsTo(cs, 1, main) = {} /\ CallsTo(cs, 1) = {}  BY <1>1 DEF RunsTo, CallsTo
<1>7. HandlerAt(cs, 1, main) = 0 /\ CallsAt(cs, 1) = 0
  BY <1>6, FS_EmptySet DEF HandlerAt, Innermost, CallsAt
<1>8. NnyAt(cs, 1) = 1
  <2>1. 1 \in Nat \ {0} /\ cs[1].nny \in {0, 1} /\ cs[1].fn \in Bases  BY <1>1 DEF Bases
  <2>2. NnyAt(cs, 1) = (IF cs[1].th = main THEN 1 ELSE 0) + cs[1].nny  BY <2>1, NnyGrows
  <2> QED BY <1>1, <2>2
<1>9. Fits(X, cs, 1)  BY <1>1, <1>7, <1>8 DEF Fits
<1>10. Works(cs, cs, X)  BY <1>1, <1>4, <1>9, MineSelf DEF Works
<1> QED BY <1>4, <1>5, <1>10 DEF cs

LEMMA SaneFirst ==
  ASSUME NEW r, r.fn = "host", r.th = main, r.inc = 0, r.nny = 0,
         NEW X, Good(X), X.errorJmp = 0, X.nC = 0, X.nny = 1,
         NEW H, DOMAIN H = Threads, \A t \in Threads : Good(H[t]) /\ H[t].errorJmp = 0, H[main] = X
  PROVE  Sane(H, <<r>>)
<1> DEFINE cs == <<r>>
<1>1. Sound(cs) /\ Last(cs) = r /\ Works(cs, cs, X)  BY FirstRecord
<1>2. IsSeq(cs) /\ Len(cs) = 1 /\ cs[1] = r
  <2>1. cs \in Seq({r})  OBVIOUS
  <2> QED BY <2>1, IsSeqIs
<1> HIDE DEF cs
<1>3. LastOf(cs, main) = 1
  <2>1. 1 \in 1..Len(cs) /\ cs[1].th = main /\ \A j \in 1 + 1..Len(cs) : FALSE  BY <1>2
  <2>2. LastOf(cs, cs[1].th) = 1  BY <1>2, <2>1, LastOfUnique
  <2> QED BY <2>1, <2>2
<1>4. \A t \in Threads : t # main => LastOf(cs, t) = 0
  <2> SUFFICES ASSUME NEW t \in Threads, t # main PROVE LastOf(cs, t) = 0  OBVIOUS
  <2>1. OfThread(cs, t) = {}  BY <1>2 DEF OfThread
  <2> QED BY <2>1 DEF LastOf, Innermost
<1>5. Right(X, cs, main)  BY <1>1, <1>2, <1>3 DEF Right, Works
<1>6. \A t \in Threads : Right(H[t], cs, t)
  <2> SUFFICES ASSUME NEW t \in Threads PROVE Right(H[t], cs, t)  OBVIOUS
  <2>1. CASE t = main  BY <2>1, <1>5
  <2>2. CASE t # main  BY <2>2, <1>4 DEF Right
  <2> QED BY <2>1, <2>2
<1>7. Sane(H, cs)  BY <1>1, <1>6 DEF Sane
<1> QED BY <1>7 DEF cs

LEMMA InitOK == Init => IInv
<1> SUFFICES ASSUME Init PROVE IInv  OBVIOUS
<1> DEFINE a == Rec("host", main)  b == pcall(main, 1, 2, 0)  c1 == <<a>>  host == <<a, b>>
           M == [NewThread EXCEPT !.nny = 1]  raw == rawrun(host, main, M)  Z == Armed(host, M)
           S == Store(Z, 3, <<"nil", "nil">>)  U == [S EXCEPT !.nC = 1, !.nny = 2]
           Y == NewFrame(U, LuaFrame, 2, -1, TRUE)  r == luaV_execute(main, 1, 1)  ds == Append(raw, r)
           H == [t \in Threads |-> IF t = main THEN M ELSE NewThread]
<1>1. /\ th = [t \in Threads |-> IF t = main THEN Y ELSE NewThread] /\ cstack = ds /\ ret = "none"
  BY DEF Init
<1>2. /\ Good(NewThread) /\ NewThread.errorJmp = 0 /\ NewThread.nC = 0 /\ NewThread.status = "LUA_OK"
  <2> DEFINE c == CallInfo("base", 1, 0, FALSE)
  <2> HIDE DEF c
  <2>1. Len(<<c>>) = 1  OBVIOUS
  <2> QED BY <2>1 DEF NewThread, Good, c
<1>3. Good(M) /\ M.errorJmp = 0 /\ M.nC = 0 /\ M.nny = 1 /\ M.status = "LUA_OK"
  <2> DEFINE N == NewThread
  <2>1. M = [N EXCEPT !.nny = 1]  OBVIOUS
  <2> HIDE DEF N, M
  <2>2. Good(N) /\ N.errorJmp = 0 /\ N.nC = 0 /\ N.status = "LUA_OK"  BY <1>2 DEF N
  <2> QED BY <2>1, <2>2 DEF Good
<1>4. /\ a.fn = "host" /\ a.th = main /\ a.inc = 0 /\ a.nny = 0
      /\ b.fn = "luaD_pcall" /\ b.th = main /\ b.inc = 0 /\ b.nny = 0 /\ b.oldci = 1 /\ Whole(b)
      /\ r.fn = "luaV_execute" /\ r.th = main /\ r.inc = 1 /\ r.nny = 1
  BY DEF Rec, pcall, luaV_execute, Whole
<1>5. host = Append(c1, b)  OBVIOUS
<1>h. DOMAIN H = Threads /\ (\A t \in Threads : Good(H[t]) /\ H[t].errorJmp = 0) /\ H[main] = M
  <2> HIDE DEF M
  <2> QED BY <1>2, <1>3 DEF Threads
<1>s. U = [S EXCEPT !.nC = 1, !.nny = 2] /\ Y = NewFrame(U, LuaFrame, 2, -1, TRUE)  OBVIOUS
<1> HIDE DEF a, b, r, M, H
<1>6. Sound(c1) /\ Last(c1) = a /\ Works(c1, c1, M) /\ Sane(H, c1)
  BY <1>3, <1>4, <1>h, FirstRecord, SaneFirst
<1> HIDE DEF c1
<1>7. Works(c1, Append(c1, b), M) /\ Last(Append(c1, b)) = b
  <2>1. Alike(M, M) /\ Zero(b) /\ b.oldci \in Nat  BY <1>3, <1>4 DEF Alike, Zero
  <2>2. b.th = Last(c1).th /\ b.fn = "luaD_pcall" /\ Last(c1).fn \in {"host", "luaB_pcall", "luaB_xpcall"}
    BY <1>4, <1>6
  <2> QED BY <1>4, <1>6, <2>1, <2>2, WorksProtect
<1> HIDE DEF host
<1>8. Works(c1, host, M) /\ Last(host) = b  BY <1>5, <1>7
<1>9. /\ Works(c1, raw, Z) /\ Z.errorJmp # 0 /\ Z.nC = 0 /\ Z.nny = 1 /\ Z.status = "LUA_OK"
  <2>1. Last(c1).th = main /\ Last(host).fn = "luaD_pcall"  BY <1>4, <1>6, <1>8
  <2> QED BY <1>3, <1>6, <1>8, <2>1, WorksRaw
<1> HIDE DEF raw, Z
<1>10. /\ Good(Y) /\ Y.errorJmp = Z.errorJmp /\ Y.nC = 1 /\ Y.nny = 2 /\ Y.status = "LUA_OK"
  <2>1. Alike(Z, S)  BY <1>9, StoreAlike DEF Works
  <2> HIDE DEF S
  <2>2. Good(U) /\ U.errorJmp = Z.errorJmp /\ U.nC = 1 /\ U.nny = 2 /\ U.status = "LUA_OK"
    <3> HIDE DEF U
    <3> QED BY <1>9, <1>s, <2>1 DEF Alike, Good
  <2> HIDE DEF U
  <2>3. Alike(U, Y)  BY <2>2, NewFrameAlike
  <2> HIDE DEF Y
  <2> QED BY <2>2, <2>3 DEF Alike
<1> HIDE DEF Y
<1>11. Works(c1, ds, Y) /\ Last(ds) = r
  <2>1. r.fn \notin Special /\ Counted(r)  BY <1>4 DEF Special, Counted
  <2>2. 1 <= ErrorCcalls  BY CallsAssumption
  <2>3. Y.nC = Z.nC + r.inc /\ Y.nny = Z.nny + r.nny /\ Y.nC <= ErrorCcalls  BY <1>4, <1>9, <1>10, <2>2
  <2>4. r.th = Last(c1).th /\ r.nny = 1  BY <1>4, <1>6
  <2>5. Works(c1, raw, Z) /\ Sound(c1) /\ Good(Y) /\ Z.errorJmp # 0 /\ Y.errorJmp = Z.errorJmp
    BY <1>6, <1>9, <1>10
  <2>6. Loose(r) \/ r.nny = 1 \/ Lands(raw, Len(raw))  BY <2>4
  <2> QED BY <2>1, <2>3, <2>4, <2>5, <2>6, WorksPush
<1> HIDE DEF ds
<1>12. Sane([H EXCEPT ![main] = Y], ds) /\ Last(ds).th = main
  <2>1. Sound(ds) /\ Mine(c1, ds) /\ Fits(Y, ds, Len(ds))  BY <1>11 DEF Works
  <2>2. Last(c1).th = main  BY <1>4, <1>6
  <2> DEFINE l == Last(c1).th
  <2>3. Sane([H EXCEPT ![l] = Y], ds) /\ Last(ds).th = l
    <3> HIDE DEF l
    <3> QED BY <1>6, <1>10, <2>1, Stays DEF l
  <2> QED BY <2>2, <2>3
<1>13. th = [H EXCEPT ![main] = Y]  BY <1>1 DEF H
<1>14. th[main] = Y  BY <1>1 DEF Threads
<1>15. RunOK(Y, Last(ds), "none")  BY <1>4, <1>10, <1>11, RunsLua
<1>16. Sane(th, cstack)  BY <1>1, <1>12, <1>13
<1> QED BY <1>1, <1>12, <1>14, <1>15, <1>16 DEF IInv, T, Top, L

LEMMA NextOK == IInv /\ [Next]_vars => IInv'
<1> SUFFICES ASSUME IInv, [Next]_vars PROVE IInv'  OBVIOUS
<1>1. CASE UNCHANGED vars
  BY <1>1 DEF vars, IInv, T, Top, L
<1>2. CASE Stop
  BY <1>2 DEF Stop, vars, IInv, T, Top, L
<1>3. CASE OP_TBC \/ OP_CALL \/ luaT_callTMres \/ OP_ERROR \/ OP_CLOSE \/ OP_RETURN \/ Continue
  BY <1>3, OP_TBC_OK, OP_CALL_OK, luaT_callTMres_OK, OP_ERROR_OK, OP_CLOSE_OK, OP_RETURN_OK, Continue_OK
<1>4. CASE luaF_closeLoop \/ PoscallClosed \/ RawrunEnds \/ luaD_closeprotected \/ PcallClosed
        \/ luaE_resetthread \/ luaG_errormsg
  BY <1>4, luaF_closeLoop_OK, PoscallClosed_OK, RawrunEnds_OK, luaD_closeprotected_OK, PcallClosed_OK,
     luaE_resetthread_OK, luaG_errormsg_OK
<1>5. CASE luaB_pcall \/ luaB_xpcall \/ PcallReturns \/ luaD_pcall \/ lua_call \/ lua_callk \/ CallReturns
  BY <1>5, luaB_pcall_OK, luaB_xpcall_OK, PcallReturns_OK, luaD_pcall_OK, lua_call_OK, lua_callk_OK,
     CallReturns_OK
<1>6. CASE luaB_yieldable \/ luaB_costatus \/ luaB_yield \/ luaB_close \/ lua_resume
  BY <1>6, luaB_yieldable_OK, luaB_costatus_OK, luaB_yield_OK, luaB_close_OK, lua_resume_OK
<1>7. CASE resume \/ ResumeEnds \/ ResumeReturns \/ unroll \/ finishpcallk
  BY <1>7, resume_OK, ResumeEnds_OK, ResumeReturns_OK, unroll_OK, finishpcallk_OK
<1> QED BY <1>1, <1>2, <1>3, <1>4, <1>5, <1>6, <1>7 DEF Next

(* The inductive invariant holds: records of the C stack are called and run *)
(* in as the code does it, and errorJmp, nC and nny of every thread are     *)
(* those of its innermost record (luaD_rawrunprotected, ldo.c).             *)
THEOREM Invariant == Spec => []IInv
BY InitOK, NextOK, PTL DEF Spec

LEMMA DomainIs == ASSUME IInv PROVE DOMAIN cstack = 1..Len(cstack)
BY Runs DEF IsSeq

(* A long jump of any thread goes to its innermost luaD_rawrunprotected     *)
(* that is still on the C stack, and a thread without one has no handler    *)
(* (luaD_throw, ldo.c).                                                     *)
THEOREM HandlersLive == Spec => []JumpsLive
<1>1. IInv => JumpsLive
  <2> SUFFICES ASSUME IInv, NEW t \in Threads
               PROVE  th[t].errorJmp = Innermost(Records(t, "luaD_rawrunprotected"))
    BY DEF JumpsLive
  <2> DEFINE k == LastOf(cstack, t)
  <2>1. IsSeq(cstack) /\ Right(th[t], cstack, t) /\ Sound(cstack)  BY Runs DEF Sane
  <2>2. /\ k \in 0..Len(cstack) /\ Len(cstack) \in Nat /\ (k > 0 => cstack[k].th = t)
        /\ \A j \in 1..Len(cstack) : cstack[j].th = t => j <= k
    BY <2>1, LastOfIs
  <2>3. Records(t, "luaD_rawrunprotected") = RunsTo(cstack, k, t)
    BY <2>2, DomainIs DEF Records, RunsTo
  <2>4. CASE k = 0
    <3>1. RunsTo(cstack, k, t) = {}  BY <2>4 DEF RunsTo
    <3> QED BY <2>1, <2>3, <2>4, <3>1 DEF Right, Innermost
  <2>5. CASE k > 0  BY <2>1, <2>2, <2>3, <2>5 DEF Right, Fits, HandlerAt
  <2> QED BY <2>2, <2>4, <2>5
<1> QED BY <1>1, Invariant, PTL

(* No error, yield or resume loses or adds a C call or a non-yieldable call *)
(* to the counts of the running thread, and the calls stay below the limit  *)
(* for handling an overflow (luaE_checkcstack, lstate.c).                   *)
THEOREM CountsExact == Spec => []CountsRight
<1>1. IInv => CountsRight
  <2> SUFFICES ASSUME IInv PROVE CountsRight  OBVIOUS
  <2> DEFINE n == Len(cstack)
  <2>1. /\ Fits(T, cstack, n) /\ n \in Nat /\ n >= 1 /\ T.nC <= ErrorCcalls /\ cstack[n].th = L
        /\ DOMAIN cstack = 1..n
    BY Runs, DomainIs, SoundTop DEF Works
  <2> HIDE DEF n
  <2>2. T.nC = Cardinality({k \in DOMAIN cstack : cstack[k].inc = 1})  BY <2>1 DEF Fits, CallsAt, CallsTo
  <2>3. {k \in DOMAIN cstack : cstack[k].fn \in Bases /\ cstack[k].th = L} = BasesTo(cstack, n)
    BY <2>1 DEF BasesTo
  <2>4. {k \in DOMAIN cstack : k >= Innermost(BasesTo(cstack, n)) /\ cstack[k].nny = 1} = NnysTo(cstack, n)
    BY <2>1 DEF NnysTo
  <2>5. T.nny = (IF L = main THEN 1 ELSE 0) + Cardinality(NnysTo(cstack, n))  BY <2>1 DEF Fits, NnyAt
  <2> QED BY <2>1, <2>2, <2>3, <2>4, <2>5 DEF CountsRight
<1> QED BY <1>1, Invariant, PTL

(* The long jump of a thread that may yield ends in lua_resume, whatever    *)
(* function runs but the closing of variables in a luaD_closeprotected.     *)
YieldsResume ==
  Top.fn \notin Special /\ ~Loose(Top) /\ yieldable(T) =>
    T.errorJmp > 1 /\ cstack[T.errorJmp - 1].fn = "lua_resume"

(* A yield never jumps into a protected call: when the count of non-        *)
(* yieldable calls lets a function yield, the innermost handler is that of  *)
(* lua_resume (lua_yieldk and luaD_throw, ldo.c).                           *)
THEOREM YieldsLand == Spec => []YieldsResume
<1>1. IInv => YieldsResume
  <2> SUFFICES ASSUME IInv, Top.fn \notin Special, ~Loose(Top), yieldable(T)
               PROVE  T.errorJmp > 1 /\ cstack[T.errorJmp - 1].fn = "lua_resume"
    BY DEF YieldsResume
  <2> DEFINE n == Len(cstack)
  <2>1. Sound(cstack) /\ Works(cstack, cstack, T) /\ Top = Last(cstack)  BY Runs
  <2>2. T.errorJmp # 0 /\ Lands(cstack, n)  BY <2>1, TopReady DEF Ready
  <2>3. T.errorJmp \in 2..n  BY <2>1, <2>2, HandlerThere
  <2>4. T.errorJmp = HandlerAt(cstack, n, cstack[n].th) /\ T.nny = NnyAt(cstack, n)  BY <2>1 DEF Works, Fits
  <2>5. NnyAt(cstack, n) = 0  BY <2>4 DEF yieldable
  <2> QED BY <2>2, <2>3, <2>4, <2>5 DEF Lands
<1> QED BY <1>1, Invariant, PTL
==============================================================================
