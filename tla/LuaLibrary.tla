----------------------------- MODULE LuaLibrary -----------------------------
(***************************************************************************)
(* A program over the data of Lua: it works on a table (LuaTable), calls a *)
(* function of the virtual machine or of the libraries, whose result is    *)
(* compared with what the function promises, or generates code (LuaLines). *)
(***************************************************************************)
EXTENDS LuaTable, LuaLines, TLC

CONSTANTS NBITS, NBM, MAX_LMEM, RANLIMIT, IMBALANCE,     \* see LuaNumbers, LuaTableLib
          Library      \* the arguments that each function is called with

VARIABLE call          \* the last call: its function, arguments and result, or none
allvars == <<vars, linevars, call>>

Numbers  == INSTANCE LuaNumbers WITH error <- invalid, skip <- none
NUL == "\\0"
Patterns == INSTANCE LuaPatterns WITH Alphabet <- Library.alphabet, Classes <- Library.classes,
              Lower <- Library.lower, MAXCCALLS <- 40, LUA_MAXCAPTURES <- 3
Matches  == INSTANCE LuaMatches WITH Ends <- NUL
Chunks   == INSTANCE LuaChunks WITH null <- nil, SEVEN <- 4, INT_MAX <- 31, MAXUNSIGNED <- 31, MAX_SIZE <- 15,
              LUAI_MAXSHORTLEN <- 2, Header <- Library.header
Pack     == INSTANCE LuaPack WITH error <- invalid, NB <- 2, SZINT <- 2, MAXINTSIZE <- 4, MAX_SIZE <- 50
Utf8     == INSTANCE LuaUtf8 WITH error <- invalid
Math     == INSTANCE LuaMath WITH error <- invalid, skip <- none
StringLib == INSTANCE LuaStringLib WITH error <- invalid, skip <- none, MAX_SIZE <- 7, LUAL_BUFFERSIZE <- 2,
              INT_MAX <- 4, UCHAR_MAX <- 3, freestack <- 3, tolower <- Library.tolower, toupper <- Library.toupper
TableLib == INSTANCE LuaTableLib WITH error <- invalid, skip <- none, absent <- nil

Call(fn, arg, res) == call' = [fn |-> fn, arg |-> arg, res |-> res] /\ UNCHANGED <<vars, linevars>>
Fresh == program.library /\ call.fn = none /\ lastline = linedefined /\ lines = <<>>
Called(fn) == call.fn = fn
Outcome == call.res
------------------------------------------------------------------------------
(* ---- numbers ---- *)
Integer == Numbers!LuaIntegers
ForLoop == Fresh /\ \E i, step \in Integer, lim \in Library.limits :
  step # 0 /\ Call("for", <<i, lim, step>>, Numbers!Iterations(i, lim, step))
Compare == Fresh /\ \E i \in Integer, f \in Numbers!LuaFloats :
  Call("compare", <<i, f>>, <<Numbers!LTintfloat(i, f), Numbers!LEintfloat(i, f), Numbers!LTfloatint(f, i),
                              Numbers!LEfloatint(f, i), Numbers!luaV_equalobj(i, f)>>)
Arith == Fresh /\ \E m, n \in Integer :
  Call("arith", <<m, n>>, <<IF n = 0 THEN invalid ELSE Numbers!luaV_idiv(m, n),
                            IF n = 0 THEN invalid ELSE Numbers!luaV_mod(m, n), Numbers!luaV_shiftl(m, n)>>)
Numeral == Fresh /\ \E s \in Library.numerals : Call("numeral", s, Numbers!l_str2int(s))
Pause == Fresh /\ \E p \in Library.params, marked, tb \in Library.sizes : marked <= tb /\
  Call("pause", <<p, marked, tb>>, Numbers!setpause(p, marked, tb))
Number == {[int |-> i] : i \in Integer} \cup {[flt |-> f] : f \in Numbers!LuaFloats}
IsInt(x) == Math!isinteger(x)
math_one == Fresh /\ \E x \in Number :
  Call("math", x, [abs |-> Math!math_abs(x), toint |-> Math!math_toint(x), floor |-> Math!math_floor(x),
                   ceil |-> Math!math_ceil(x), modf |-> Math!math_modf(x)])
math_two == Fresh /\ \E x, y \in Number :
  /\ IsInt(x) # IsInt(y) => \A n \in {x, y} : IsInt(n) => Numbers!l_intfitsf(n.int)
  /\ Call("fmod", <<x, y>>, [fmod |-> Math!math_fmod(x, y),
                             ult  |-> IF IsInt(x) /\ IsInt(y) THEN Math!math_ult(x.int, y.int) ELSE none])
math_list == Fresh /\ \E args \in Library.lists :
  Call("minmax", args, [min |-> Math!math_min(args), max |-> Math!math_max(args)])
math_random == Fresh /\ \E args \in UNION {[1..n -> Integer] : n \in 1..2} \cup {<<1, 2, 3>>} :
  Call("random", args, [ran \in Math!Unsigned \X Math!Unsigned |-> Math!math_random(args, ran)])
tonumber == Fresh /\ \E s \in Library.spaced, base \in Library.bases :
  Call("tonumber", <<s, base>>, StringLib!luaB_tonumber(s, base))
------------------------------------------------------------------------------
(* ---- the table library ---- *)
table_insert == Fresh /\ \E n \in 0..Library.size, pos \in Integer :
  Call("insert", <<n, pos>>, TableLib!tinsert(TableLib!TableOf([k \in 1..n |-> k], 1), n, pos, 0))
table_remove == Fresh /\ \E n \in 0..Library.size, pos \in Integer :
  Call("remove", <<n, pos>>, TableLib!tremove(TableLib!TableOf([k \in 1..n |-> k], 1), n, pos))
table_move == Fresh /\ \E f, e, to \in Integer :
  Call("move", <<f, e, to>>, TableLib!tmove([i \in Integer |-> i], f, e, to))
table_unpack == Fresh /\ \E i, e \in Integer :
  Call("unpack", <<i, e>>, TableLib!tunpack([k \in Integer |-> k], i, e, Library.size))
table_concat == Fresh /\ \E row \in Library.rows, sep \in {<<>>, <<9>>}, i, last \in Integer :
  Call("concat", <<row, sep, i, last>>, StringLib!tconcat(row, sep, i, last))
select == Fresh /\ \E n \in 0..Library.size, i \in Integer :
  Call("select", <<n, i>>, TableLib!luaB_select([k \in 1..n |-> k], i))
table_sort == Fresh /\ \E x \in Library.sorts : Call("sort", x, TableLib!sort(x[1], x[2]))

(* A sequence of calls of luaL_ref and luaL_unref; 'arg' has the references *)
(* that are in use with their values.                                       *)
Given == IF Fresh THEN <<>> ELSE call.arg
Refs  == IF Fresh THEN <<>> ELSE Outcome
Ref == (Fresh \/ Called("ref")) /\ \E v \in Library.values \cup {nil} :
  LET r == TableLib!luaL_ref(Refs, v) IN
  /\ Cardinality(DOMAIN Given) < Library.size
  /\ Call("ref", IF v = nil THEN Given ELSE Given @@ (r.ref :> v), r.t)
Unref == Called("ref") /\ \E ref \in DOMAIN Given \cup {TableLib!LUA_REFNIL} :
  Call("ref", [r \in DOMAIN Given \ {ref} |-> Given[r]], TableLib!luaL_unref(Refs, ref))
------------------------------------------------------------------------------
(* ---- the string library ---- *)
string_sub == Fresh /\ \E s \in Library.texts, i, j \in Integer :
  Call("sub", <<s, i, j>>, [sub |-> StringLib!str_sub(s, i, j), byte |-> StringLib!str_byte(s, i, j)])
string_rep == Fresh /\ \E s, sep \in Library.texts, n \in Integer :
  Call("rep", <<s, n, sep>>, StringLib!str_rep(s, n, sep))
string_char == Fresh /\ \E codes \in UNION {[1..n -> Integer] : n \in 0..2} \cup Library.longtexts :
  LET c == StringLib!str_char(codes) IN
  Call("bytes", codes, [char |-> c, reverse |-> IF c = invalid THEN invalid ELSE StringLib!str_reverse(c),
                        cases |-> IF c = invalid THEN invalid ELSE <<StringLib!str_lower(c), StringLib!str_upper(c)>>])
(* A pattern is a record of its items and whether it is anchored. *)
Text(pattern) == (IF pattern.anchor THEN <<"^">> ELSE <<>>) \o
                 FlattenSeq([i \in DOMAIN pattern.items |-> pattern.items[i].text])
string_find == Fresh /\ \E pattern \in Library.patterns, S \in Library.subjects :
  LET P == Text(pattern) IN
  Call("find", <<pattern, S>>, [find   |-> Patterns!str_find_aux(S, P, 1, TRUE, FALSE),
                                plain  |-> Patterns!str_find_aux(S, P, 1, TRUE, TRUE),
                                match  |-> Patterns!str_find_aux(S, P, 2, FALSE, FALSE),
                                gmatch |-> IF pattern.anchor THEN <<>> ELSE Patterns!gmatch(S, P, 1, 0),
                                gsub   |-> Patterns!str_gsub(S, P, 2)])
------------------------------------------------------------------------------
(* ---- string.dump, to a writer with room for n units, and load, from two  *)
(* pieces and from the first n units.                                       *)
string_dump == Fresh /\ \E f \in Library.functions, strip, fixed \in BOOLEAN, n \in 1..Library.chunk :
  LET D == Chunks!luaU_dump(f, strip, Library.chunk) IN
  Call("dump", <<f, strip, fixed, n>>,
       [out |-> D.out, fails |-> Chunks!luaU_dump(f, strip, n), pieces |-> Chunks!luaU_undump(D.out, {n}, fixed),
        part |-> Chunks!luaU_undump(SubSeq(D.out, 1, Min({n, Len(D.out)})), {}, fixed)])

(* ---- string.pack and string.unpack, and the utf8 library ---- *)
ArgsOf(o, last) ==          \* for an option, all only for the last one
  CASE o.opt \in {"b", "B", "i", "I", "j", "J"} -> {<<v>> : v \in IF last THEN Integer ELSE {-1}}
    [] o.opt \in {"s", "z", "c"} -> {<<s>> : s \in IF last THEN Library.texts ELSE {<<3>>}}
    [] o.opt = "n" -> {<<<<1, 2>>>>}
    [] o.opt = "f" -> {<<<<1>>>>}
    [] OTHER -> {<<>>}
ArgsFor(fmt) ==
  LET items == {i \in DOMAIN fmt : i = 1 \/ fmt[i - 1].opt # "X"} IN
  FoldLeft(LAMBDA A, i : {x \o y : x \in A, y \in ArgsOf(fmt[i], i = Len(fmt))}, {<<>>}, SetToSortSeq(items, <))
string_pack == Fresh /\ \E fmt \in Library.packs : \E args \in ArgsFor(fmt) :
  LET out == Pack!str_pack(fmt, args) IN
  Call("pack", <<fmt, args>>, [out |-> out, size |-> Pack!str_packsize(fmt),
                   back |-> IF out = invalid THEN invalid ELSE Pack!str_unpack(fmt, out),
                   part |-> IF out \in {invalid, <<>>} THEN invalid ELSE Pack!str_unpack(fmt, Front(out)),
                   other |-> Pack!str_pack(<<[opt |-> ">", num |-> none]>> \o fmt, args)])
string_unpack == Fresh /\ \E fmt \in Library.formats, data \in Library.data :
  LET r == Pack!str_unpack(fmt, data) IN
  Call("unpackdata", <<fmt, data>>, [r |-> r, again |-> IF r = invalid THEN invalid ELSE Pack!str_pack(fmt, r.values)])
utf8_char == Fresh /\ \E codes \in Library.codes, lax \in BOOLEAN :
  LET s == Utf8!utfchar(codes) n == Len(codes) IN
  Call("char", <<codes, lax>>,
       [s |-> s, codes |-> Utf8!iter_codes(s, lax), points |-> Utf8!codepoint(s, 1, -1, lax), len |-> Utf8!utflen(s, 1, -1, lax),
        starts |-> [i \in 1..n |-> Utf8!byteoffset(s, i, 1)] \o <<>>, ends |-> [i \in 1..n |-> Utf8!byteoffset(s, -i, Len(s) + 1)] \o <<>>,
        around |-> [k \in 1..Len(s) |-> Utf8!byteoffset(s, 0, k)] \o <<>>])
utf8_codes == Fresh /\ \E s \in Library.bytes, lax \in BOOLEAN :
  LET points == Utf8!codepoint(s, 1, -1, lax) IN
  Call("codes", <<s, lax>>, [points |-> points, codes |-> Utf8!iter_codes(s, lax), len |-> Utf8!utflen(s, 1, -1, lax),
                             again |-> IF points = invalid THEN invalid ELSE Utf8!utfchar(points)])
------------------------------------------------------------------------------
Return == call.fn # none /\ call' = [fn |-> none] /\ UNCHANGED <<vars, linevars>>
Works == ~program.library /\ UNCHANGED <<linevars, call>>
Codes == program.library /\ call.fn = none /\ UNCHANGED <<vars, call>>

LibraryInit == Init /\ LinesInit /\ call = [fn |-> none]
LibraryNext == \/ Works /\ Set
               \/ Works /\ AllocNodes
               \/ Works /\ AllocArray
               \/ Works /\ AllocFails
               \/ Works /\ luaH_getn_hint
               \/ Works /\ StartTraversal
               \/ Works /\ Traverse
               \/ Works /\ Forgets
               \/ Works /\ Collect
               \/ ForLoop \/ Compare \/ Arith \/ Numeral \/ Pause
               \/ math_one \/ math_two \/ math_list \/ math_random \/ tonumber
               \/ table_concat \/ select \/ string_sub \/ string_rep \/ string_char
               \/ table_insert \/ table_remove \/ table_move \/ table_unpack \/ table_sort \/ string_find \/ string_dump
               \/ string_pack \/ string_unpack \/ utf8_char \/ utf8_codes \/ Ref \/ Unref \/ Return
               \/ Codes /\ NextLine
               \/ Codes /\ luaK_code
               \/ Codes /\ luaK_fixline
               \/ Codes /\ jumponcond
LibrarySpec == LibraryInit /\ [][LibraryNext]_allvars
------------------------------------------------------------------------------
(* ---- properties ---- *)
InRange(i) == i \in Integer

(* The control variable takes the integers init, init + step, ... up to the *)
(* limit, which may be a float; unsigned counting never makes it wrap       *)
(* around (forlimit, forprep).  A limit that is no number is not beyond any *)
(* integer below.                                                           *)
LoopsRight == Called("for") =>
  LET init == call.arg[1] lim == call.arg[2] step == call.arg[3]
      Within(i) == IF DOMAIN lim = {"int"} THEN (IF step > 0 THEN i <= lim.int ELSE i >= lim.int)
                   ELSE IF lim.flt = Numbers!NaN THEN step < 0
                   ELSE IF step > 0 THEN 2 * i <= lim.flt[1] ELSE 2 * i >= lim.flt[1]
      n == Cardinality({k \in 0..2 ^ NBITS : InRange(init + k * step) /\ Within(init + k * step)})
  IN Outcome = [k \in 1..n |-> init + (k - 1) * step]

Bits(i) == i % (2 ^ NBITS)
Value(c) == CASE c = "0" -> 0 [] c = "1" -> 1 [] c = "7" -> 7 [] c = "8" -> 8 [] c = "a" -> 10
Numerals(base, digits, s) ==      \* the number that s denotes, 'invalid' for none
  IF s = <<>> \/ \E i \in DOMAIN s : s[i] \notin digits THEN invalid
  ELSE FoldLeft(LAMBDA n, c : n * base + Value(c), 0, s)
(* Twice the value of a number, whether it is NaN, and a sign. *)
Twice(x) == IF IsInt(x) THEN 2 * x.int ELSE x.flt[1]
IsNaN(x) == ~IsInt(x) /\ x.flt = Numbers!NaN
SignOf(n) == IF n < 0 THEN -1 ELSE IF n > 0 THEN 1 ELSE 0
Size(n) == SignOf(n) * n
Infinite(x) == ~IsInt(x) /\ ~IsNaN(x) /\ Size(Twice(x)) = Numbers!HUGE
(* An integral result is an integer if it fits and a float if not. *)
Integral(v) == (Twice(v) % 2 = 0) /\ (IsInt(v) <=> InRange(Twice(v) \div 2))
MathRight ==
  /\ Called("math") => LET x == call.arg abs == Outcome.abs IN
       /\ IsInt(abs) <=> IsInt(x)
       /\ IF IsNaN(x) THEN /\ \A v \in {abs, Outcome.floor, Outcome.ceil} \cup Range(Outcome.modf) : IsNaN(v)
                           /\ Outcome.toint = none
          ELSE /\ Twice(abs) = Size(Twice(x)) \/ (IsInt(x) /\ x.int = Numbers!LUA_MININTEGER /\ abs = x)
               /\ Integral(Outcome.floor) /\ Integral(Outcome.ceil) /\ Integral(Outcome.modf[1])
               /\ Twice(x) - Twice(Outcome.floor) \in {0, 1} /\ Twice(Outcome.ceil) - Twice(x) \in {0, 1}
               /\ Outcome.toint = IF Twice(x) % 2 = 0 /\ InRange(Twice(x) \div 2)
                                  THEN [int |-> Twice(x) \div 2] ELSE none
               /\ LET frac == Twice(Outcome.modf[2]) IN
                  /\ Twice(Outcome.modf[1]) + frac = Twice(x)
                  /\ frac \in {0, SignOf(Twice(x))} /\ ~IsInt(Outcome.modf[2])
  /\ Called("fmod") => LET x == call.arg[1] y == call.arg[2] r == Outcome.fmod IN
       /\ IsInt(x) /\ IsInt(y) => (Outcome.ult <=> Bits(x.int) < Bits(y.int))
       /\ IF IsNaN(x) \/ IsNaN(y) \/ Infinite(x) THEN IsNaN(r)
          ELSE IF Twice(y) = 0 THEN (IF IsInt(x) /\ IsInt(y) THEN r = invalid ELSE IsNaN(r))
          ELSE /\ IsInt(r) <=> IsInt(x) /\ IsInt(y)
               /\ IF Infinite(y) THEN Twice(r) = Twice(x)
                  ELSE /\ \E q \in -2 * Numbers!HUGE..2 * Numbers!HUGE : Twice(x) = q * Twice(y) + Twice(r)
                       /\ Size(Twice(r)) < Size(Twice(y)) /\ SignOf(Twice(r)) \in {0, SignOf(Twice(x))}
  /\ Called("minmax") => LET args == call.arg IN
       IF args = <<>> THEN Outcome = [min |-> invalid, max |-> invalid]
       ELSE (\A i \in DOMAIN args : ~IsNaN(args[i])) =>
              LET least == {i \in DOMAIN args : \A j \in DOMAIN args : Twice(args[i]) <= Twice(args[j])}
                  most  == {i \in DOMAIN args : \A j \in DOMAIN args : Twice(args[i]) >= Twice(args[j])}
              IN Outcome.min = args[Min(least)] /\ Outcome.max = args[Min(most)]
(* Each integer of the interval comes from as many pairs of numbers of the  *)
(* generator as any other, and at most one in four gives none yet.          *)
RandomRight == Called("random") =>
  LET args == call.arg
      low  == IF Len(args) = 1 THEN 1 ELSE args[1]
      up   == Last(args)
      every == IF args = <<0>> THEN Integer ELSE low..up
      from == [v \in every |-> Cardinality({r \in DOMAIN Outcome : Outcome[r] = <<v>>})]
      not  == Cardinality({r \in DOMAIN Outcome : Outcome[r] = none})
  IN IF Len(args) = 3 \/ every = {} THEN Range(Outcome) = {invalid}
     ELSE /\ \A v, w \in every : from[v] = from[w]
          /\ from[up] * Cardinality(every) + not = Cardinality(DOMAIN Outcome)
          /\ 4 * not <= Cardinality(DOMAIN Outcome)
(* A numeral has blanks around it and a sign that blanks do not follow; it  *)
(* wraps around whatever its base.                                          *)
TonumberRight == Called("tonumber") =>
  LET s    == call.arg[1]
      base == call.arg[2]
      ink  == {i \in DOMAIN s : s[i] # " "}
      core == IF ink = {} THEN <<>> ELSE SubSeq(s, Min(ink), Max(ink))
      sign == core # <<>> /\ core[1] \in {"-", "+"}
      n    == Numerals(base, {c \in {"0", "1", "7", "8", "a"} : Value(c) < base}, IF sign THEN Tail(core) ELSE core)
  IN CASE base \notin 2..36 -> Outcome = invalid
       [] base \in 2..36 /\ n = invalid -> Outcome = none
       [] OTHER -> /\ Outcome \notin {none, invalid} /\ InRange(Outcome[1])
                   /\ Bits(Outcome[1]) = Bits(IF core[1] = "-" THEN -n ELSE n)
(* Integers and floats are compared by their exact values, although neither *)
(* converts to the other; division rounds down and does not overflow;       *)
(* numerals that do not fit are no integers in decimal and wrap around in   *)
(* hexadecimal; the threshold of the collector is near the given percentage *)
(* and, with the debt, never beyond the largest count.  The mathematical    *)
(* functions give integers where they fit, and random ones are uniform.     *)
NumbersRight ==
  /\ MathRight /\ RandomRight /\ TonumberRight
  /\ Called("compare") => LET i == 2 * call.arg[1] f == call.arg[2] IN
       IF f = Numbers!NaN THEN Outcome = <<FALSE, FALSE, FALSE, FALSE, FALSE>>
       ELSE Outcome = <<i < f[1], i <= f[1], f[1] < i, f[1] <= i, f[1] = i>>
  /\ Called("arith") => LET m == call.arg[1] n == call.arg[2] IN
       /\ n # 0 => LET q == Outcome[1] r == Outcome[2] IN
                   /\ InRange(q) /\ Bits(q * n + r) = Bits(m)
                   /\ IF n > 0 THEN r \in 0..n - 1 ELSE r \in n + 1..0
                   /\ ~(m = Numbers!LUA_MININTEGER /\ n = -1) => q * n + r = m
       /\ Bits(Outcome[3]) = IF n >= 0 THEN Bits(Bits(m) * 2 ^ n) ELSE Bits(m) \div 2 ^ (-n)
  /\ Called("numeral") =>
       LET s   == call.arg
           neg == s # <<>> /\ s[1] = "-"
           u   == IF neg THEN Tail(s) ELSE s
           isx == Len(u) > 2 /\ u[1] = "0" /\ u[2] = "x"
           n   == IF isx THEN Numerals(16, {"0", "1", "7", "8", "a"}, SubSeq(u, 3, Len(u)))
                  ELSE Numerals(10, {"0", "1", "7", "8"}, u)
           v   == IF neg THEN -n ELSE n
       IN IF n = invalid \/ (~isx /\ ~InRange(v)) THEN Outcome = invalid
          ELSE Outcome # invalid /\ InRange(Outcome[1]) /\ Bits(Outcome[1]) = Bits(v)
  /\ Called("pause") =>
       LET p == call.arg[1] marked == call.arg[2] tb == call.arg[3]
           threshold == Outcome.GCtotalbytes
           beyond == marked > (MAX_LMEM \div (p + 1)) * 100
           exact  == (marked * p) \div 100
       IN /\ Outcome.GCdebt >= 0 /\ threshold = tb + Outcome.GCdebt /\ threshold <= MAX_LMEM
          /\ beyond => threshold = MAX_LMEM
          /\ ~beyond => \/ threshold = MAX_LMEM
                        \/ Outcome.GCdebt = 0 /\ tb >= exact - exact \div 16 - 32
                        \/ threshold - exact \in -(exact \div 16) - 32..(marked \div 128) + 1

IsPermutation(a, b) == \A x \in Range(a) \cup Range(b) :
  Cardinality({i \in DOMAIN a : a[i] = x}) = Cardinality({i \in DOMAIN b : b[i] = x})
Strict(less, a) == less.lies = {} /\ \A x, y, z \in Range(a) :
  /\ <<x, x>> \notin less.order
  /\ <<x, y>> \in less.order => <<y, x>> \notin less.order /\ (<<x, z>> \in less.order \/ <<z, y>> \in less.order)
(* The table functions move, insert and remove the elements that they say,  *)
(* at the limits of the integers too; sort never reads beyond the array,    *)
(* whatever the order function answers, keeps the elements and, for an      *)
(* order, sorts them.                                                       *)
ArraysRight ==
  /\ Called("insert") => LET n == call.arg[1] pos == call.arg[2] IN
       IF pos \notin 1..n + 1 THEN Outcome = invalid
       ELSE \A i \in Integer : Outcome[i] = CASE i \in 1..pos - 1 -> i [] i = pos -> 0
                                              [] i \in pos + 1..n + 1 -> i - 1 [] OTHER -> nil
  /\ Called("remove") => LET n == call.arg[1] pos == call.arg[2] IN
       IF pos \notin 1..n + 1 /\ ~(pos = 0 /\ n = 0) THEN Outcome = invalid
       ELSE /\ Outcome.v = IF pos \in 1..n THEN pos ELSE nil
            /\ \A i \in Integer : Outcome.a[i] = CASE i \in 1..pos - 1 -> i
                                              [] i \in pos..n - 1 /\ pos > 0 -> i + 1 [] OTHER -> nil
  /\ Called("move") => LET f == call.arg[1] e == call.arg[2] to == call.arg[3] n == e - f + 1 IN
       IF e >= f /\ (n > Numbers!LUA_MAXINTEGER \/ to + n - 1 > Numbers!LUA_MAXINTEGER) THEN Outcome = invalid
       ELSE \A i \in Integer : Outcome[i] = IF i \in to..to + n - 1 THEN f + i - to ELSE i
  /\ Called("unpack") => LET i == call.arg[1] e == call.arg[2] IN
       Outcome = IF i <= e /\ e - i + 1 > Library.size THEN invalid ELSE [k \in 1..e - i + 1 |-> i + k - 1]
  /\ Called("select") => LET n == call.arg[1] i == call.arg[2] IN
       Outcome = IF i = 0 \/ i < -n THEN invalid
                 ELSE [k \in 1..(IF i < 0 THEN -i ELSE Max({0, n - i + 1})) |-> IF i < 0 THEN n + i + k ELSE i + k - 1]
  /\ Called("sort") => LET a == call.arg[1] less == call.arg[2] IN
       /\ IsPermutation(a, Outcome.a) /\ Outcome.reads \subseteq DOMAIN a
       /\ Strict(less, a) => /\ Outcome.ok
                             /\ \A i, j \in DOMAIN a : i < j => <<Outcome.a[j], Outcome.a[i]>> \notin less.order

(* A reference is not given twice while it is in use, and its value stays   *)
(* in the table, whose freed references are a list in the table itself.     *)
RefsUnique == Called("ref") => \A r \in DOMAIN Given : r > 1 /\ Refs[r] = Given[r]

(* Whatever the matcher tries and undoes, it finds the first of the matches *)
(* that the items of the pattern have, with its captures, or the error of a *)
(* pattern that is malformed on the way; gmatch and gsub go through the     *)
(* matches of a string without overlaps, and an empty one is not at the end *)
(* of another.  A plain search takes every character for itself.            *)
MatchesRight == Called("find") =>
  LET pattern == call.arg[1]
      S  == call.arg[2]
      At == [s \in 1..Len(S) + 1 |->
               LET m == Matches!Best(pattern.items, S, s) IN
               IF \E l \in DOMAIN m.cap : m.cap[l].len = Matches!Open THEN Matches!Wrong[1] ELSE m]
      First(from, last) == {s \in from..Len(S) + 1 : At[s].at \notin {0, last} /\ (pattern.anchor => s = from)}
      Found(f, from) == LET matching == First(from, 0) IN
        IF matching = {} THEN f.r.at = 0 ELSE f.from = Min(matching) /\ f.r = At[Min(matching)]
      After(list, i) == IF i = 1 THEN 0 ELSE list[i - 1][2]
      Goes(list, most) ==
        /\ \A i \in DOMAIN list :
             LET matching == First(Max({1, After(list, i)}), After(list, i)) IN
             /\ matching # {}
             /\ LET s == Min(matching) IN
                IF At[s].at = -1 THEN i = Len(list) /\ list[i] = <<-1, -1>> ELSE list[i] = <<s, At[s].at>>
        /\ \/ Len(list) = most
           \/ Len(list) > 0 /\ (pattern.anchor \/ Last(list)[1] = -1)
           \/ First(Max({1, After(list, Len(list) + 1)}), After(list, Len(list) + 1)) = {}
      Itself == [i \in DOMAIN Text(pattern) |-> [k |-> "class", set |-> {Text(pattern)[i]}, suffix |-> ""]]
      Copies == {s \in 1..Len(S) + 1 : Matches!Best(Itself, S, s).at # 0}
  IN /\ Found(Outcome.find, 1) /\ S # <<>> => Found(Outcome.match, 2)
     /\ IF Copies = {} THEN Outcome.plain.r.at = 0
        ELSE Outcome.plain = [from |-> Min(Copies), r |-> [at |-> Min(Copies) + Len(Itself), cap |-> <<>>]]
     /\ ~pattern.anchor => Goes(Outcome.gmatch, -1)
     /\ Goes(Outcome.gsub, 2)

(* What is left of a function that was dumped and loaded. *)
RECURSIVE Loaded(_, _, _)
Loaded(f, strip, fixed) ==
  [f EXCEPT !.flag = (@ % 4) + (IF fixed THEN 4 ELSE 0),
            !.p = [i \in DOMAIN f.p |-> Loaded(f.p[i], strip, fixed)],
            !.source = IF strip THEN nil ELSE @,
            !.lineinfo = IF strip THEN <<>> ELSE @,
            !.abslineinfo = IF strip THEN <<>> ELSE @,
            !.locvars = IF strip THEN <<>> ELSE @,
            !.upvalues = [i \in DOMAIN @ |-> IF strip THEN [@[i] EXCEPT !.name = nil] ELSE @[i]]]
(* A chunk is loaded as the function that it was dumped from, in whatever   *)
(* pieces it comes: the numbers of the strings that are saved once agree.   *)
(* One whose end is missing is an error, not a function, and a writer that  *)
(* fails has written a beginning and is not called again, not even to learn *)
(* that the dump has ended.                                                 *)
ChunksRound == Called("dump") =>
  LET f == call.arg[1] strip == call.arg[2] fixed == call.arg[3] n == call.arg[4]
      out == Outcome.out
  IN /\ IF Outcome.pieces.ok THEN Outcome.pieces.v = Loaded(f, strip, fixed) /\ Outcome.pieces.at = Len(out) + 1
        ELSE fixed /\ n < Len(out)
     /\ Outcome.part.ok <=> n >= Len(out)
     /\ IF n >= Len(out) THEN Outcome.fails.status = 0 /\ Outcome.fails.ended /\ Outcome.fails.out = out
        ELSE Outcome.fails.status # 0 /\ ~Outcome.fails.ended /\ IsPrefix(Outcome.fails.out, out)

(* What is unpacked: a fixed string comes with its padding. *)
Padded(v, size) == v \o [i \in 1..size - Len(v) |-> 0]
OptionIn(fmt, opts) == \E i \in DOMAIN fmt : fmt[i].opt \in opts
Surrogate(c) == c \in 55296..57343
Bytewise(c) == CASE c < 128 -> 1 [] c \in 128..2047 -> 2 [] c \in 2048..65535 -> 3 [] c \in 65536..2097151 -> 4
                 [] c \in 2097152..67108863 -> 5 [] OTHER -> 6
Proper(c, lax) == lax \/ (c <= 1114111 /\ ~Surrogate(c))
StartOf(codes, i) == 1 + FoldLeft(LAMBDA n, c : n + Bytewise(c), 0, SubSeq(codes, 1, i - 1))
(* What is packed is unpacked as the same values, in either byte order and  *)
(* with any alignment, and what is missing is noticed; bytes that are       *)
(* unpacked are packed as the same bytes, or no integer has them.           *)
PacksRight ==
  /\ Called("pack") => LET fmt == call.arg[1] args == call.arg[2] out == Outcome.out IN
       /\ out # invalid =>
            /\ Outcome.back # invalid /\ Outcome.back.next = Len(out) + 1 /\ Len(Outcome.back.values) = Len(args)
            /\ \A i \in DOMAIN args : LET v == Outcome.back.values[i] IN
                 v = args[i] \/ (OptionIn(fmt, {"c"}) /\ Len(v) > Len(args[i]) /\ v = Padded(args[i], Len(v)))
            /\ out # <<>> => Outcome.part = invalid
            /\ IF Outcome.size = invalid THEN OptionIn(fmt, {"s", "z"}) ELSE Outcome.size = Len(out)
            /\ OptionIn(fmt, {"!"}) /\ Last(fmt).opt \in {"j", "n"} => Len(out) % 2 = 0
       /\ out # invalid /\ Len(fmt) = 1 /\ OptionIn(fmt, {"i", "I", "j", "J"}) => Outcome.other = Reverse(out)
       /\ out = invalid /\ Len(fmt) = 1 /\ OptionIn(fmt, {"i", "j", "b"}) =>
            fmt[1].num = 5 \/ ((fmt[1].num = 1 \/ fmt[1].opt = "b") /\ args[1] \notin -2..1)
  /\ Called("unpackdata") => LET fmt == call.arg[1] data == call.arg[2] IN
       /\ Outcome.r # invalid => Outcome.again = SubSeq(data, 1, Outcome.r.next - 1)
       /\ OptionIn(fmt, {"i", "I"}) /\ Outcome.r = invalid => \A v \in Integer : ~IsPrefix(Pack!str_pack(fmt, <<v>>), data)
(* A list of codes is the list that its UTF-8 encoding, which has the known *)
(* lengths, is decoded to, except that strict decoding refuses surrogates   *)
(* and what is too large; no other bytes are accepted, and the four ways to *)
(* go through a string agree.                                               *)
EncodingRight ==
  /\ Called("char") => LET codes == call.arg[1] lax == call.arg[2] s == Outcome.s n == Len(codes)
                           good == \A i \in DOMAIN codes : Proper(codes[i], lax) IN
       /\ Len(s) = StartOf(codes, n + 1) - 1
       /\ Outcome.points = (IF good THEN codes ELSE invalid)
       /\ Outcome.codes = (IF good THEN [i \in 1..n |-> <<StartOf(codes, i), codes[i]>>] ELSE invalid)
       /\ IF good THEN Outcome.len = [n |-> n]
          ELSE Outcome.len = [fail |-> StartOf(codes, Min({i \in DOMAIN codes : ~Proper(codes[i], lax)}))]
       /\ \A i \in 1..n : LET place == <<StartOf(codes, i), StartOf(codes, i + 1) - 1>> IN
            /\ Outcome.starts[i] = place /\ Outcome.ends[n - i + 1] = place
            /\ \A k \in place[1]..place[2] : Outcome.around[k] = place
  /\ Called("codes") => LET s == call.arg[1] IN
       /\ Outcome.points # invalid => Outcome.again = s /\ Outcome.len = [n |-> Len(Outcome.points)]
       /\ Outcome.points = invalid => DOMAIN Outcome.len = {"fail"}
       /\ Outcome.codes # invalid <=> Outcome.points # invalid
(* The bytes between two positions, which count from the end if negative. *)
Between(s, i, j) ==
  LET at == {p \in DOMAIN s : p >= (IF i < 0 THEN Len(s) + 1 + i ELSE i) /\ p <= (IF j < 0 THEN Len(s) + 1 + j ELSE j)}
  IN IF at = {} THEN <<>> ELSE SubSeq(s, Min(at), Max(at))
Joined(parts, sep) ==
  FlattenSeq([k \in 1..2 * Len(parts) - 1 |-> IF k % 2 = 1 THEN parts[(k + 1) \div 2] ELSE sep])
Total(parts) == FoldLeft(LAMBDA n, s : n + Len(s), 0, parts)
(* A result is what was put together, and an error if it is longer than the *)
(* longest; the area of a buffer has room for what is in it.                *)
StringsRight ==
  /\ Called("sub") => LET want == Between(call.arg[1], call.arg[2], call.arg[3]) IN
       /\ Outcome.sub = want
       /\ Outcome.byte = IF Len(want) > 3 THEN invalid ELSE want
  /\ Called("rep") => LET s == call.arg[1] n == call.arg[2] sep == call.arg[3] IN
       IF n <= 0 THEN Outcome = <<>>
       ELSE LET want == Joined([k \in 1..n |-> s], sep) IN
            Outcome = IF n * (Len(s) + Len(sep)) <= 7 /\ Len(want) < 7 THEN want ELSE invalid
  /\ Called("bytes") => LET codes == call.arg IN
       IF (\E k \in DOMAIN codes : codes[k] \notin 0..3) \/ Len(codes) >= 7 THEN Outcome.char = invalid
       ELSE /\ Outcome.char = codes /\ Outcome.reverse = Reverse(codes)
            /\ Outcome.cases = <<[k \in DOMAIN codes |-> Library.tolower[codes[k]]],
                                 [k \in DOMAIN codes |-> Library.toupper[codes[k]]]>>
  /\ Called("concat") =>
       LET row == call.arg[1] sep == call.arg[2] i == call.arg[3] last == call.arg[4]
           parts == [k \in 1..last - i + 1 |-> row[i + k - 1]]
           whole == \A k \in DOMAIN parts : parts[k] # none
           total == IF whole THEN Total(parts) + Len(sep) * (Len(parts) - 1) ELSE 0
       IN IF i > last THEN Outcome.b = <<>>
          ELSE IF ~whole \/ total > 7 THEN Outcome = invalid
          ELSE \/ total = 7 /\ Outcome = invalid
               \/ /\ Outcome # invalid /\ Outcome.b = Joined(parts, sep)
                  /\ Len(Outcome.b) <= Outcome.size /\ Outcome.size <= 7 /\ (Outcome.box <=> Outcome.size > 2)
(* The bytes of a result are what its parts say, and what is written as a   *)
(* chunk, packed or in UTF-8 is read back.                                  *)
BytesRight == StringsRight /\ ChunksRound /\ PacksRight /\ EncodingRight
=============================================================================
