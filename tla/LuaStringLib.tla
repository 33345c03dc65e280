---------------------------- MODULE LuaStringLib ----------------------------
(***************************************************************************)
(* The simple functions of the string library (lstrlib.c), the buffers     *)
(* that build their results (lauxlib.c), table.concat and tonumber with a  *)
(* base.  A string is a sequence of bytes or characters; lengths and       *)
(* positions are size_t and integers of a few bits.  No allocation fails.  *)
(***************************************************************************)
EXTENDS LuaNumbers, SequencesExt

CONSTANTS MAX_SIZE,          \* the largest length
          LUAL_BUFFERSIZE,   \* bytes of a buffer that is not in a box
          INT_MAX, UCHAR_MAX,
          freestack,         \* values that the stack can still take
          tolower, toupper   \* of each character
------------------------------------------------------------------------------
(* ---- buffers: the bytes, the size of the area, whether it is a box ---- *)
luaL_buffinit == [b |-> <<>>, size |-> LUAL_BUFFERSIZE, box |-> FALSE]
newbuffsize(B, sz) ==
  LET n == Len(B.b)
      grown == IF B.size <= (MAX_SIZE \div 3) * 2 THEN B.size + B.size \div 2 ELSE B.size
  IN IF sz >= MAX_SIZE - n THEN error ELSE Max({grown, n + sz + 1})
prepbuffsize(B, sz) ==
  IF B.size - Len(B.b) >= sz THEN B
  ELSE IF newbuffsize(B, sz) = error THEN error ELSE [B EXCEPT !.size = newbuffsize(B, sz), !.box = TRUE]
luaL_addlstring(B, s) ==
  LET P == IF s = <<>> THEN B ELSE prepbuffsize(B, Len(s))
  IN IF P = error THEN error ELSE [P EXCEPT !.b = @ \o s]
luaL_buffinitsize(sz) == prepbuffsize(luaL_buffinit, sz)
(* A result whose length is known when its buffer is made. *)
Sized(s) == IF luaL_buffinitsize(Len(s)) = error THEN error ELSE s

addfield(B, a, i) == IF a[i] = skip THEN error ELSE luaL_addlstring(B, a[i])
(* The buffer with the elements of a from i to 'last', or error. *)
tconcat(a, sep, i, last) ==
  FoldLeft(LAMBDA B, k :
             LET C == IF B = error THEN error ELSE addfield(B, a, k) IN
             IF C = error \/ k = last THEN C ELSE luaL_addlstring(C, sep),
           luaL_buffinit, [k \in 1..last - i + 1 |-> i + k - 1])
------------------------------------------------------------------------------
(* ---- positions ---- *)
posrelatI(pos, len) ==
  CASE pos > 0 -> pos
    [] pos = 0 \/ pos < -len -> 1
    [] OTHER -> l_castS2U(len + l_castS2U(pos) + 1)
getendpos(pos, len) ==
  CASE pos > len -> len
    [] pos \in 0..len -> pos
    [] pos < -len -> 0
    [] OTHER -> l_castS2U(len + l_castS2U(pos) + 1)
------------------------------------------------------------------------------
(* ---- functions ---- *)
str_sub(s, i, j) ==
  LET start == posrelatI(i, Len(s)) end == getendpos(j, Len(s)) IN
  IF start <= end THEN SubSeq(s, start, end) ELSE <<>>
str_reverse(s) == Sized([i \in 1..Len(s) |-> s[Len(s) - i + 1]])
str_lower(s) == Sized([i \in 1..Len(s) |-> tolower[s[i]]])
str_upper(s) == Sized([i \in 1..Len(s) |-> toupper[s[i]]])
str_rep(s, n, sep) ==
  CASE n <= 0 -> <<>>
    [] n > 0 /\ (Len(s) > MAX_SIZE - Len(sep) \/ Len(s) + Len(sep) > MAX_SIZE \div n) -> error
    [] OTHER -> Sized(FlattenSeq([k \in 1..2 * n - 1 |-> IF k % 2 = 1 THEN s ELSE sep]))
str_byte(s, i, j) ==
  LET posi == posrelatI(i, Len(s)) pose == getendpos(j, Len(s)) IN
  CASE posi > pose -> <<>>
    [] posi <= pose /\ (pose - posi >= INT_MAX \/ pose - posi + 1 > freestack) -> error
    [] OTHER -> [k \in 1..pose - posi + 1 |-> s[posi + k - 1]]
str_char(codes) ==
  IF \E k \in DOMAIN codes : l_castS2U(codes[k]) > UCHAR_MAX THEN error ELSE Sized(codes)
------------------------------------------------------------------------------
(* ---- tonumber with a base ---- *)
SPACECHARS == {" "}
CharAt(s, i) == IF i \in DOMAIN s THEN s[i] ELSE "\\0"
(* The first position from i on whose character is not one of C: strspn. *)
After(s, i, C) == Min({k \in i..Len(s) + 1 : CharAt(s, k) \notin C})
(* The integer and the position where the conversion ended, or error. *)
b_str2int(s, base) ==
  LET i == After(s, 1, SPACECHARS)
      j == IF CharAt(s, i) \in {"-", "+"} THEN i + 1 ELSE i
      k == After(s, j, DOMAIN Digit)
      n == FoldLeft(LAMBDA v, c : l_castS2U(v * base + Digit[c]), 0, SubSeq(s, j, k - 1))
  IN IF k = j \/ \E m \in j..k - 1 : Digit[s[m]] >= base THEN error
     ELSE [n |-> l_castU2S(IF CharAt(s, i) = "-" THEN l_castS2U(-n) ELSE n), next |-> After(s, k, SPACECHARS)]
(* The integer, skip if the string is no numeral. *)
luaB_tonumber(s, base) ==
  LET r == b_str2int(s, base) IN
  CASE base \notin 2..36 -> error
    [] base \in 2..36 /\ r # error /\ r.next = Len(s) + 1 -> <<r.n>>
    [] OTHER -> skip
=============================================================================
