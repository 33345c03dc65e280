----------------------------- MODULE LuaChunks -----------------------------
(***************************************************************************)
(* Precompiled chunks: luaU_dump (ldump.c) writes a function to a writer   *)
(* that may fail, luaU_undump (lundump.c) reads it from pieces (lzio.c).   *)
(* A chunk is a sequence of units with fewer bits than a byte.             *)
(***************************************************************************)
EXTENDS Integers, Sequences, FiniteSets, SequencesExt, TLC

CONSTANTS null,                     \* NULL
          SEVEN,                    \* 2^7
          INT_MAX, MAXUNSIGNED,
          MAX_SIZE,                 \* the largest size of an object
          Header,                   \* the units of the header
          LUAI_MAXSHORTLEN

SIZEINT == 2        \* units of an int
SIZEINSTR == 2      \* units of an instruction
PF_FIXED == 4       \* the flag of a function that is in a fixed buffer
------------------------------------------------------------------------------
(* ---- ldump.c: D is [out, room, status, saved, strip, ended]; the writer    *)
(* fails when there is no room, and 'ended' once it was told the end.       *)
dumpBlock(D, b) ==
  IF D.status # 0 THEN D
  ELSE IF Len(D.out) + Len(b) > D.room THEN [D EXCEPT !.status = 1] ELSE [D EXCEPT !.out = @ \o b]
dumpEnd(D) == IF D.status # 0 THEN D ELSE [D EXCEPT !.ended = TRUE]       \* dumpBlock(D, NULL, 0)
Padding(offset, align) == IF offset % align = 0 THEN 0 ELSE align - (offset % align)
dumpAlign(D, align) == dumpBlock(D, [i \in 1..Padding(Len(D.out), align) |-> 0])

dumpVarint(D, x) ==
  LET n == CHOOSE n \in 1..20 : x < SEVEN ^ n /\ (n = 1 \/ x >= SEVEN ^ (n - 1))
  IN dumpBlock(D, [i \in 1..n |-> ((x \div SEVEN ^ (n - i)) % SEVEN) + (IF i < n THEN SEVEN ELSE 0)])
dumpInteger(D, x) == dumpVarint(D, IF x >= 0 THEN (2 * x) % (MAXUNSIGNED + 1) ELSE 2 * (-x - 1) + 1)

Index(D, ts) == CHOOSE i \in DOMAIN D.saved : D.saved[i] = ts
dumpString(D, ts) ==
  CASE ts = null -> dumpVarint(dumpVarint(D, 0), 0)
    [] ts # null /\ ts \in Range(D.saved) -> dumpVarint(dumpVarint(D, 0), Index(D, ts))
    [] OTHER -> [dumpBlock(dumpVarint(D, Len(ts) + 1), ts \o <<0>>) EXCEPT !.saved = Append(@, ts)]
(* A count and that many things. *)
dumpList(D, Dump(_, _), list) == FoldLeft(Dump, dumpVarint(D, Len(list)), list)
Bytes(D, bs) == FoldLeft(LAMBDA E, b : dumpBlock(E, <<b>>), D, bs)

dumpCode(D, f) == dumpBlock(dumpAlign(dumpVarint(D, Len(f.code)), SIZEINSTR), FlattenSeq(f.code))

dumpConstant(D, o) ==
  LET E == dumpBlock(D, <<o.tt>>) IN
  CASE o.tt = 3 -> dumpInteger(E, o.v) [] o.tt = 19 -> dumpBlock(E, <<o.v>>)
    [] o.tt \in {4, 20} -> dumpString(E, o.v) [] OTHER -> E
dumpConstants(D, f) == dumpList(D, dumpConstant, f.k)
dumpUpvalues(D, f) == dumpList(D, LAMBDA E, u : Bytes(E, <<u.instack, u.idx, u.kind>>), f.upvalues)

Debug(D, list) == IF D.strip THEN <<>> ELSE list
dumpDebug(D, f) ==
  LET lines == dumpBlock(dumpVarint(D, Len(Debug(D, f.lineinfo))), Debug(D, f.lineinfo))
      n     == dumpVarint(lines, Len(Debug(D, f.abslineinfo)))
      abs   == IF Debug(D, f.abslineinfo) = <<>> THEN n
               ELSE dumpBlock(dumpAlign(n, SIZEINT), FlattenSeq(f.abslineinfo))
      vars  == dumpList(abs, LAMBDA E, l : dumpVarint(dumpVarint(dumpString(E, l.varname), l.startpc), l.endpc),
                        Debug(D, f.locvars))
  IN dumpList(vars, LAMBDA E, u : dumpString(E, u.name), Debug(D, f.upvalues))

RECURSIVE dumpFunction(_, _)
dumpFunction(D, f) ==
  LET head   == Bytes(dumpVarint(dumpVarint(D, f.linedefined), f.lastlinedefined),
                      <<f.numparams, f.flag, f.maxstacksize>>)
      body   == dumpUpvalues(dumpConstants(dumpCode(head, f), f), f)
      protos == FoldLeft(dumpFunction, dumpVarint(body, Len(f.p)), f.p)
  IN dumpDebug(dumpString(protos, IF D.strip THEN null ELSE f.source), f)

luaU_dump(f, strip, room) ==
  LET D == Bytes([out |-> <<>>, room |-> room, status |-> 0, saved |-> <<>>, strip |-> strip, ended |-> FALSE], Header)
  IN dumpEnd(dumpFunction(dumpBlock(D, <<Len(f.upvalues)>>), f))
------------------------------------------------------------------------------
(* ---- lundump.c: S is [in, cuts, at, fixed, saved, ok, v], the input, the    *)
(* ends of its pieces, what was read, the last value.                       *)
Got(S, n, v) == [S EXCEPT !.at = @ + n, !.v = v]
error(S) == [S EXCEPT !.ok = FALSE]
Value(S, v) == [S EXCEPT !.v = v]
Block(S, n) == SubSeq(S.in, S.at, S.at + n - 1)
Has(S, n) == S.ok /\ S.at + n - 1 <= Len(S.in)

loadBlock(S, n) == IF Has(S, n) THEN Got(S, n, Block(S, n)) ELSE error(S)        \* luaZ_read
(* A block that is used where it is must be in one piece (luaZ_getaddr).    *)
getaddr(S, n) == IF Has(S, IF n = 0 THEN 1 ELSE n) /\ ~\E c \in S.cuts : S.at <= c /\ c < S.at + n - 1
                 THEN Got(S, n, Block(S, n)) ELSE error(S)
loadFixed(S, n) == IF S.fixed THEN getaddr(S, n) ELSE loadBlock(S, n)
loadAlign(S, align) == loadBlock(S, Padding(S.at - 1, align))
loadByte(S) == IF Has(S, 1) THEN Got(S, 1, S.in[S.at]) ELSE error(S)

RECURSIVE VarintFrom(_, _, _)
VarintFrom(S, x, limit) ==
  LET r == loadByte(S) IN
  CASE ~r.ok \/ x > limit -> error(S)
    [] r.ok /\ x <= limit /\ r.v >= SEVEN -> VarintFrom(r, x * SEVEN + (r.v % SEVEN), limit)
    [] OTHER -> Value(r, x * SEVEN + r.v)
loadVarint(S, limit) == VarintFrom(S, 0, limit \div SEVEN)
loadInt(S) == loadVarint(S, INT_MAX)
loadInteger(S) == LET r == loadVarint(S, MAXUNSIGNED) IN
  IF r.ok THEN Value(r, IF r.v % 2 = 1 THEN -(r.v \div 2) - 1 ELSE r.v \div 2) ELSE r

(* A string that was saved, by its number, and one that is new. *)
SavedString(S) ==
  CASE ~S.ok -> S
    [] S.ok /\ S.v = 0 -> Value(S, null)
    [] OTHER -> IF S.v \in DOMAIN S.saved THEN Value(S, S.saved[S.v]) ELSE error(S)
NewString(S) == IF ~S.ok THEN S
  ELSE LET ts == SubSeq(S.v, 1, Len(S.v) - 1) IN [Value(S, ts) EXCEPT !.saved = Append(@, ts)]
StringOf(S) == CASE ~S.ok -> S
                 [] S.ok /\ S.v = 0 -> SavedString(loadVarint(S, MAXUNSIGNED))
                 [] OTHER -> NewString(IF S.v - 1 <= LUAI_MAXSHORTLEN THEN loadBlock(S, S.v) ELSE loadFixed(S, S.v))
loadString(S) == StringOf(loadVarint(S, MAX_SIZE))              \* loadSize

(* n things, in a sequence. *)
Times(S, Load(_), n) ==
  LET step(A, i) == LET r == Load(A.S) IN [S |-> r, list |-> Append(A.list, r.v)]
      all == FoldLeft(step, [S |-> S, list |-> <<>>], [i \in 1..n |-> i])
  IN Value(all.S, all.list)
Counted(S, Load(_)) == LET n == loadInt(S) IN IF n.ok THEN Times(n, Load, n.v) ELSE n
Groups(s, size) == [i \in 1..Len(s) \div size |-> SubSeq(s, size * (i - 1) + 1, size * i)]
Vector(S, n, size) == LET r == loadFixed(S, n * size) IN IF r.ok THEN Value(r, Groups(r.v, size)) ELSE r

loadCode(S) == LET n == loadInt(S) IN IF n.ok THEN Vector(loadAlign(n, SIZEINSTR), n.v, SIZEINSTR) ELSE n

loadConstant(S) ==
  LET t == loadByte(S)
      r == CASE t.v = 3 -> loadInteger(t) [] t.v = 19 -> loadByte(t)
             [] t.v \in {4, 20} -> loadString(t) [] OTHER -> Value(t, null)
  IN CASE ~t.ok -> t
       [] t.ok /\ (t.v \notin {0, 1, 17, 3, 19, 4, 20} \/ (t.v \in {4, 20} /\ r.v = null)) -> error(t)
       [] OTHER -> Value(r, [tt |-> t.v, v |-> r.v])
loadUpvalue(S) == LET r == loadBlock(S, 3) IN
  IF r.ok THEN Value(r, [instack |-> r.v[1], idx |-> r.v[2], kind |-> r.v[3], name |-> null]) ELSE r

loadLocal(S) == LET name == loadString(S) start == loadInt(name) end == loadInt(start) IN
  Value(end, [varname |-> name.v, startpc |-> start.v, endpc |-> end.v])
loadAbs(S) == LET n == loadInt(S) IN
  IF n.ok /\ n.v > 0 THEN Vector(loadAlign(n, SIZEINT), n.v, 2 * SIZEINT) ELSE Value(n, <<>>)

RECURSIVE loadFunction(_)
loadField(S, f, name) ==
  LET n == loadInt(S) IN
  CASE name \in {"linedefined", "lastlinedefined"} -> n
    [] name \in {"numparams", "flag", "maxstacksize"} -> loadByte(S)
    [] name = "code"        -> loadCode(S)
    [] name = "k"           -> Counted(S, loadConstant)
    [] name = "upvalues"    -> Counted(S, loadUpvalue)
    [] name = "p"           -> Counted(S, loadFunction)
    [] name = "source"      -> loadString(S)
    [] name = "lineinfo"    -> IF n.ok THEN loadFixed(n, n.v) ELSE n
    [] name = "abslineinfo" -> loadAbs(S)
    [] name = "locvars"     -> Counted(S, loadLocal)
    [] name = "names"       -> IF n.ok THEN Times(n, loadString, IF n.v = 0 THEN 0 ELSE Len(f.upvalues)) ELSE n
(* The rest of the fields of the function f, one after the other.           *)
RECURSIVE loadFields(_, _, _)
loadRest(S, f, names) == loadFields(S, f @@ (names[1] :> S.v), Tail(names))
loadFields(S, f, names) ==
  IF names = <<>> \/ ~S.ok THEN Value(S, f) ELSE loadRest(loadField(S, f, names[1]), f, names)
Meaningful(flag) == IF (flag \div PF_FIXED) % 2 = 1 THEN flag - PF_FIXED ELSE flag
Function(f, fixed) ==
  [n \in DOMAIN f \ {"names"} |->
     CASE n = "flag" -> Meaningful(f.flag) + (IF fixed THEN PF_FIXED ELSE 0)
       [] n = "upvalues" -> [i \in DOMAIN f.upvalues |-> IF i \in DOMAIN f.names
                               THEN [f.upvalues[i] EXCEPT !.name = f.names[i]] ELSE f.upvalues[i]]
       [] OTHER -> f[n]]
Made(S) == IF S.ok THEN Value(S, Function(S.v, S.fixed)) ELSE S
loadFunction(S) ==
  Made(loadFields(S, <<>>, <<"linedefined", "lastlinedefined", "numparams", "flag", "maxstacksize", "code", "k",
                             "upvalues", "p", "source", "lineinfo", "abslineinfo", "locvars", "names">>))

checkHeader(S) == LET n == Len(Header) - 1 r == loadBlock(S, n) IN
  IF r.ok /\ r.v # Tail(Header) THEN error(r) ELSE r

(* The function in 'in', whose pieces end at 'cuts', after its first unit.  *)
luaU_undump(in, cuts, fixed) ==
  LET S  == [in |-> in, cuts |-> cuts, at |-> 2, fixed |-> fixed, saved |-> <<>>, ok |-> TRUE, v |-> null]
      nupvalues == loadByte(checkHeader(S))
      f  == loadFunction(nupvalues)
  IN IF f.ok /\ Len(f.v.upvalues) # nupvalues.v THEN error(f) ELSE f
=============================================================================
