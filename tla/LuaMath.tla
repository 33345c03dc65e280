------------------------------ MODULE LuaMath ------------------------------
(***************************************************************************)
(* The mathematical library (lmathlib.c) on the numbers of LuaNumbers: a   *)
(* number is [int |-> i] or [flt |-> f].  The functions that only call one *)
(* of the C library are left out; so are strings that convert to numbers.  *)
(* The state of the random generator is the numbers it will give.          *)
(***************************************************************************)
EXTENDS LuaNumbers, Bitwise

isinteger(x) == DOMAIN x = {"int"}
pushinteger(i) == [int |-> i]
pushnumber(f)  == [flt |-> f]
finite(f) == f # NaN /\ f[1] \notin {HUGE, -HUGE}
fabs(f) == IF f = NaN THEN f ELSE <<Abs(f[1])>>
ceil(f) == IF f = l_floor(f) THEN f ELSE <<l_floor(f)[1] + 2>>
(* The remainder of C, with the sign of x. *)
fmod(x, y) == CASE ~finite(x) \/ y = NaN \/ y = Zero -> NaN
                [] finite(x) /\ y \in {<<HUGE>>, <<-HUGE>>} -> x
                [] OTHER -> <<crem(x[1], y[1])>>
------------------------------------------------------------------------------
(* ---- conversions ---- *)
math_abs(x) == IF isinteger(x) THEN pushinteger(IF x.int < 0 THEN Wrap(-x.int) ELSE x.int)
               ELSE pushnumber(fabs(x.flt))
(* A number that is an integer, or skip. *)
math_toint(x) ==
  LET n == IF isinteger(x) THEN <<x.int>> ELSE luaV_flttointeger(x.flt, "eq")
  IN IF n = error THEN skip ELSE pushinteger(n[1])
pushnumint(d) == LET n == lua_numbertointeger(d) IN IF n = error THEN pushnumber(d) ELSE pushinteger(n[1])
math_floor(x) == IF isinteger(x) THEN x ELSE pushnumint(l_floor(x.flt))
math_ceil(x)  == IF isinteger(x) THEN x ELSE pushnumint(ceil(x.flt))
(* The integral part and the fractional part. *)
math_modf(x) ==
  LET n  == x.flt
      ip == IF numlt(n, Zero) THEN ceil(n) ELSE l_floor(n)
      frac == CASE n # NaN /\ n = ip -> Zero [] n = NaN -> NaN [] OTHER -> <<n[1] - ip[1]>>
  IN IF isinteger(x) THEN <<x, pushnumber(Zero)>> ELSE <<pushnumint(ip), pushnumber(frac)>>
------------------------------------------------------------------------------
(* ---- of two or more numbers ---- *)
tonumber(x) == IF isinteger(x) THEN cast_num(x.int) ELSE x.flt      \* used for integers that fit
math_fmod(x, y) ==
  CASE isinteger(x) /\ isinteger(y) /\ l_castS2U(l_castS2U(y.int) + 1) <= 1 ->
         IF y.int = 0 THEN error ELSE pushinteger(0)
    [] isinteger(x) /\ isinteger(y) /\ l_castS2U(l_castS2U(y.int) + 1) > 1 -> pushinteger(crem(x.int, y.int))
    [] OTHER -> pushnumber(fmod(tonumber(x), tonumber(y)))
math_ult(a, b) == l_castS2U(a) < l_castS2U(b)
LTnum(l, r) ==
  CASE isinteger(l) /\ isinteger(r) -> l.int < r.int
    [] isinteger(l) /\ ~isinteger(r) -> LTintfloat(l.int, r.flt)
    [] ~isinteger(l) /\ isinteger(r) -> LTfloatint(l.flt, r.int)
    [] OTHER -> numlt(l.flt, r.flt)
(* The first of the smallest and of the largest of the arguments. *)
math_min(args) ==
  LET imin[i \in 1..Len(args)] ==
        IF i = 1 THEN 1 ELSE IF LTnum(args[i], args[imin[i - 1]]) THEN i ELSE imin[i - 1]
  IN IF args = <<>> THEN error ELSE args[imin[Len(args)]]
math_max(args) ==
  LET imax[i \in 1..Len(args)] ==
        IF i = 1 THEN 1 ELSE IF LTnum(args[imax[i - 1]], args[i]) THEN i ELSE imax[i - 1]
  IN IF args = <<>> THEN error ELSE args[imax[Len(args)]]
------------------------------------------------------------------------------
(* ---- random integers ---- *)
Unsigned == 0..2 ^ NBITS - 1
(* A Mersenne number: the bits of n are spread to the right. *)
SpreadBits(n) ==
  LET spread[lim \in Unsigned, sh \in 1..2 * NBITS] ==
        IF lim & (lim + 1) = 0 THEN lim ELSE spread[lim | (lim \div 2 ^ sh), 2 * sh]
  IN spread[n, 1]
(* The first of the numbers 'rans' that falls in 0..n, or skip. *)
project(rans, n) ==
  LET inside == {i \in DOMAIN rans : rans[i] & SpreadBits(n) <= n}
  IN IF inside = {} THEN skip
     ELSE <<rans[CHOOSE i \in inside : \A j \in inside : i <= j] & SpreadBits(n)>>

(* The integer for the limits 'args', skip if 'rans' has not enough numbers. *)
math_random(args, rans) ==
  LET low == IF Len(args) = 1 THEN 1 ELSE args[1]
      up  == args[Len(args)]
      p   == project(rans, l_castS2U(l_castS2U(up) - l_castS2U(low)))
  IN CASE Len(args) > 2 -> error
       [] args = <<0>> -> <<l_castU2S(rans[1])>>
       [] Len(args) \in 1..2 /\ args # <<0>> /\ low > up -> error
       [] OTHER -> IF p = skip THEN skip ELSE <<l_castU2S(l_castS2U(p[1] + l_castS2U(low)))>>
=============================================================================
