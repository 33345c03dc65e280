----------------------------- MODULE LuaNumbers -----------------------------
(***************************************************************************)
(* The arithmetic of integers and floats (lvm.c, lobject.c) with integers  *)
(* of a few bits and floats of fewer, so that integers overflow and not    *)
(* every integer is a float, as with 64 and 53 bits.  A float is <<h>>,    *)
(* twice its value; the infinities are large values.                       *)
(***************************************************************************)
EXTENDS Integers, Sequences, TLC

CONSTANTS NBITS,     \* bits of an integer
          NBM,       \* bits of the mantissa of a float
          MAX_LMEM,  \* the largest count of bytes
          error,     \* what a function that raises an error or fails returns
          skip       \* what 'forprep' returns when the loop is skipped

LUA_MAXINTEGER == 2 ^ (NBITS - 1) - 1
LUA_MININTEGER == -(2 ^ (NBITS - 1))
LuaIntegers == LUA_MININTEGER..LUA_MAXINTEGER
l_castS2U(i) == i % (2 ^ NBITS)
l_castU2S(u) == ((u + 2 ^ (NBITS - 1)) % (2 ^ NBITS)) - 2 ^ (NBITS - 1)
Wrap(i) == l_castU2S(l_castS2U(i))                       \* intop

NaN  == <<>>
HUGE == 2 ^ (NBITS + 2)
LuaFloats == {NaN, <<HUGE>>, <<-HUGE>>} \cup
             {<<s * m * 2 ^ e>> : s \in {1, -1}, m \in 0..2 ^ NBM, e \in 0..NBITS + 1 - NBM}
numlt(x, y) == x # NaN /\ y # NaN /\ x[1] < y[1]
numle(x, y) == x # NaN /\ y # NaN /\ x[1] <= y[1]
Zero == <<0>>
------------------------------------------------------------------------------
(* ---- conversions and comparisons ---- *)
lua_numbertointeger(f) ==
  IF f # NaN /\ f[1] >= 2 * LUA_MININTEGER /\ f[1] < -2 * LUA_MININTEGER
  THEN <<f[1] \div 2>> ELSE error
l_floor(f) == IF f = NaN \/ f[1] \in {HUGE, -HUGE} THEN f ELSE <<2 * (f[1] \div 2)>>
(* The integer that is f rounded as 'mode' says, in a sequence, or error. *)
luaV_flttointeger(f, mode) ==
  CASE f = l_floor(f) -> lua_numbertointeger(f)
    [] f # l_floor(f) /\ mode = "eq" -> error
    [] f # l_floor(f) /\ mode = "ceil" -> lua_numbertointeger(<<l_floor(f)[1] + 2>>)
    [] OTHER -> lua_numbertointeger(l_floor(f))

l_intfitsf(i) == l_castS2U(2 ^ NBM + l_castS2U(i)) <= 2 * 2 ^ NBM
cast_num(i) == <<2 * i>>       \* used for integers that fit

LTintfloat(i, f) ==
  LET fi == luaV_flttointeger(f, "ceil") IN
  CASE l_intfitsf(i) -> numlt(cast_num(i), f)
    [] ~l_intfitsf(i) /\ fi # error -> i < fi[1]
    [] OTHER -> numlt(Zero, f)
LEintfloat(i, f) ==
  LET fi == luaV_flttointeger(f, "floor") IN
  CASE l_intfitsf(i) -> numle(cast_num(i), f)
    [] ~l_intfitsf(i) /\ fi # error -> i <= fi[1]
    [] OTHER -> numlt(Zero, f)
LTfloatint(f, i) ==
  LET fi == luaV_flttointeger(f, "floor") IN
  CASE l_intfitsf(i) -> numlt(f, cast_num(i))
    [] ~l_intfitsf(i) /\ fi # error -> fi[1] < i
    [] OTHER -> numlt(f, Zero)
LEfloatint(f, i) ==
  LET fi == luaV_flttointeger(f, "ceil") IN
  CASE l_intfitsf(i) -> numle(f, cast_num(i))
    [] ~l_intfitsf(i) /\ fi # error -> fi[1] <= i
    [] OTHER -> numlt(f, Zero)
luaV_equalobj(i, f) == luaV_flttointeger(f, "eq") = <<i>>
------------------------------------------------------------------------------
(* ---- integer operations ---- *)
Abs(n) == IF n < 0 THEN -n ELSE n
Sign(n) == IF n < 0 THEN -1 ELSE 1
cdiv(m, n) == Sign(m) * Sign(n) * (Abs(m) \div Abs(n))        \* C truncates
crem(m, n) == Sign(m) * (Abs(m) % Abs(n))
opposite(m, n) == (m < 0) # (n < 0)                           \* (m ^ n) < 0

luaV_idiv(m, n) ==
  CASE n = -1 -> Wrap(-m)
    [] n # -1 /\ opposite(m, n) /\ crem(m, n) # 0 -> cdiv(m, n) - 1
    [] OTHER -> cdiv(m, n)
ModAlways(m, n) ==      \* corrects a remainder that is 0 too
  IF n = -1 THEN 0 ELSE IF opposite(crem(m, n), n) THEN crem(m, n) + n ELSE crem(m, n)
luaV_mod(m, n) ==
  LET r == crem(m, n) IN
  CASE n = -1 -> 0 [] n # -1 /\ r # 0 /\ opposite(r, n) -> r + n [] OTHER -> r

luaV_shiftl(x, y) ==
  CASE y <= -NBITS \/ y >= NBITS -> 0
    [] y \in 1 - NBITS..-1 -> l_castU2S(l_castS2U(x) \div 2 ^ (-y))
    [] OTHER -> Wrap(l_castS2U(x) * 2 ^ y)
------------------------------------------------------------------------------
(* ---- the numerical 'for' ---- *)
ForlimitClips(init, lim, step) ==      \* never skips a loop for its limit
  IF DOMAIN lim = {"int"} THEN <<lim.int>>
  ELSE IF luaV_flttointeger(lim.flt, "floor") # error THEN luaV_flttointeger(lim.flt, "floor")
  ELSE IF numlt(Zero, lim.flt) THEN <<LUA_MAXINTEGER>> ELSE <<LUA_MININTEGER>>
(* The limit as an integer, or skip; 'lim' is [int |-> i] or [flt |-> f]. *)
forlimit(init, lim, step) ==
  LET given == IF DOMAIN lim = {"int"} THEN <<lim.int>>
               ELSE luaV_flttointeger(lim.flt, IF step < 0 THEN "ceil" ELSE "floor")
      clipped == CASE given # error -> given
                   [] given = error /\ numlt(Zero, lim.flt) -> IF step < 0 THEN skip ELSE <<LUA_MAXINTEGER>>
                   [] OTHER -> IF step > 0 THEN skip ELSE <<LUA_MININTEGER>>
  IN IF clipped # skip /\ (IF step > 0 THEN init > clipped[1] ELSE init < clipped[1])
     THEN skip ELSE clipped

(* The number of iterations after the first, or skip. *)
forprep(init, lim, step) ==
  LET limit == forlimit(init, lim, step)
      count == IF step > 0
               THEN l_castS2U(l_castS2U(limit[1]) - l_castS2U(init)) \div l_castS2U(step)
               ELSE l_castS2U(l_castS2U(init) - l_castS2U(limit[1])) \div (l_castS2U(-(step + 1)) + 1)
  IN IF limit = skip THEN skip ELSE <<count>>

(* The values of the control variable, as FORLOOP computes them. *)
Iterations(init, lim, step) ==
  LET count == forprep(init, lim, step)
      idx[n \in Nat] == IF n = 0 THEN init ELSE Wrap(idx[n - 1] + step)
  IN IF count = skip THEN <<>> ELSE [n \in 1..count[1] + 1 |-> idx[n - 1]]
------------------------------------------------------------------------------
(* ---- numerals ---- *)
Digit == "0" :> 0 @@ "1" :> 1 @@ "7" :> 7 @@ "8" :> 8 @@ "a" :> 10
isneg(s) == s # <<>> /\ s[1] = "-"
MAXBY10  == LUA_MAXINTEGER \div 10
MAXLASTD == LUA_MAXINTEGER % 10
Hex(s) == Len(s) >= 2 /\ s[1] = "0" /\ s[2] = "x"

(* The integer that the characters s, without blanks around, denote. *)
l_str2int(s) ==
  LET neg == IF isneg(s) THEN 1 ELSE 0
      u   == SubSeq(s, neg + 1, Len(s))
      x   == SubSeq(u, 3, Len(u))
      hex[n \in 0..Len(u)] == IF n = 0 THEN 0 ELSE l_castS2U(hex[n - 1] * 16 + Digit[x[n]])
      dec[n \in 0..Len(u)] ==
        IF n = 0 THEN <<0>>
        ELSE LET d == Digit[u[n]] a == dec[n - 1] IN
             IF a = error \/ (a[1] >= MAXBY10 /\ (a[1] > MAXBY10 \/ d > MAXLASTD + neg)) THEN error
             ELSE <<a[1] * 10 + d>>
      Signed(a) == <<l_castU2S(IF neg = 1 THEN l_castS2U(-a) ELSE a)>>
      Digits(t, D) == t # <<>> /\ \A i \in DOMAIN t : t[i] \in D
  IN CASE Hex(u) -> IF Digits(x, DOMAIN Digit) THEN Signed(hex[Len(x)]) ELSE error
       [] ~Hex(u) /\ Digits(u, DOMAIN Digit \ {"a"}) ->
            IF dec[Len(u)] = error THEN error ELSE Signed(dec[Len(u)][1])
       [] OTHER -> error
------------------------------------------------------------------------------
(* ---- the pace of the collector ---- *)
Log2Up(n) == CHOOSE i \in 0..31 : 2 ^ i >= n /\ (i = 0 \/ 2 ^ (i - 1) < n)     \* luaO_ceillog2

luaO_codeparam(p) ==
  LET q   == (p * 128 + 99) \div 100
      log == Log2Up(q + 1) - 5
  IN CASE p >= (31 * 2 ^ 7) * 100 -> 255
       [] p < (31 * 2 ^ 7) * 100 /\ q < 16 -> q
       [] OTHER -> (q \div 2 ^ log) - 16 + (log + 1) * 16

luaO_applyparam(b, x) ==
  LET m == IF b >= 16 THEN (b % 16) + 16 ELSE b
      e == (IF b >= 16 THEN (b \div 16) - 1 ELSE 0) - 7
      limit == MAX_LMEM \div 31
  IN CASE e >= 0 -> IF x < limit \div 2 ^ e THEN x * m * 2 ^ e ELSE MAX_LMEM
       [] e < 0 /\ x < limit -> (x * m) \div 2 ^ (-e)
       [] e < 0 /\ x >= limit /\ x \div 2 ^ (-e) < limit -> (x \div 2 ^ (-e)) * m
       [] OTHER -> MAX_LMEM

(* Bytes in use and debt after a cycle that marked some. *)
luaE_setdebt(tb, debt) ==
  LET d == IF debt > MAX_LMEM - tb THEN MAX_LMEM - tb ELSE debt IN [GCtotalbytes |-> tb + d, GCdebt |-> d]
setpause(pause, marked, tb) ==
  LET debt == luaO_applyparam(luaO_codeparam(pause), marked) - tb
  IN luaE_setdebt(tb, IF debt < 0 THEN 0 ELSE debt)
=============================================================================
