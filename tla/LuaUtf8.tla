------------------------------ MODULE LuaUtf8 ------------------------------
(***************************************************************************)
(* The utf8 library (lutf8lib.c).  A string is a sequence of bytes; the    *)
(* byte after its end is zero; positions in these operators start at 1.    *)
(***************************************************************************)
EXTENDS Integers, Sequences, SequencesExt

CONSTANT error
MAXUNICODE == 1114111
MAXUTF == 2147483647
limits == <<MAXUTF, 128, 2048, 65536, 2097152, 67108864>>      \* by the number of continuation bytes, from 0
ByteAt(s, i) == IF i <= Len(s) THEN s[i] ELSE 0
iscont(c) == c \div 64 = 2
iscontp(s, i) == iscont(ByteAt(s, i))
u_posrelat(pos, len) == IF pos >= 0 THEN pos ELSE IF -pos > len THEN 0 ELSE len + pos + 1
------------------------------------------------------------------------------
(* ---- encoding: luaO_utf8esc; mfb is what fits in the first byte ---- *)
RECURSIVE EscFrom(_, _, _)
EscFrom(x, mfb, bytes) ==
  IF x <= mfb THEN <<(256 - 2 * (mfb + 1)) + x>> \o bytes
  ELSE EscFrom(x \div 64, mfb \div 2, <<128 + (x % 64)>> \o bytes)
luaO_utf8esc(x) == IF x < 128 THEN <<x>> ELSE EscFrom(x \div 64, 31, <<128 + (x % 64)>>)
pushutfchar(code) == IF code >= 0 /\ code <= MAXUTF THEN luaO_utf8esc(code) ELSE error
utfchar(codes) == IF \E i \in DOMAIN codes : pushutfchar(codes[i]) = error THEN error
                  ELSE FlattenSeq([i \in DOMAIN codes |-> pushutfchar(codes[i])])
------------------------------------------------------------------------------
(* ---- decoding: [next, code] of the sequence at i, next = 0 if invalid ---- *)
Invalid == [next |-> 0, code |-> 0]
Low(c, count) == ((c % 128) * 2 ^ count) % 128       \* (c << count) & 0x7F
NeedsMore(c, count) == (c \div 2 ^ (6 - count)) % 2 = 1        \* (c << count) & 0x40
RECURSIVE Continued(_, _)
Continued(c, count) == IF count < 7 /\ NeedsMore(c, count) THEN Continued(c, count + 1) ELSE count
Decoded(s, i, count, strict) ==
  LET res == Low(s[i], count) * 2 ^ (5 * count) + FoldLeft(LAMBDA r, cc : r * 64 + (cc % 64), 0, SubSeq(s, i + 1, i + count))
  IN IF res < limits[count + 1] \/ (strict /\ (res > MAXUNICODE \/ (55296 <= res /\ res <= 57343)))
     THEN Invalid ELSE [next |-> i + count + 1, code |-> res]
utf8_decode(s, i, strict) ==
  LET c == ByteAt(s, i) count == Continued(c, 0) IN
  IF c < 128 THEN [next |-> i + 1, code |-> c]
  ELSE IF count > 5 \/ \E k \in 1..count : ~iscontp(s, i + k) THEN Invalid
  ELSE Decoded(s, i, count, strict)
------------------------------------------------------------------------------
(* ---- the functions of the library; 'fail' is a nil result ---- *)
RECURSIVE CountFrom(_, _, _, _, _)
CountNext(s, i, last, lax, n, d) ==
  IF d = Invalid THEN [fail |-> i] ELSE CountFrom(s, d.next, last, lax, n + 1)
CountFrom(s, i, last, lax, n) ==
  IF i > last THEN [n |-> n] ELSE CountNext(s, i, last, lax, n, utf8_decode(s, i, ~lax))
utflen(s, i, j, lax) ==
  LET posi == u_posrelat(i, Len(s)) posj == u_posrelat(j, Len(s)) IN
  IF 1 <= posi /\ posi - 1 <= Len(s) /\ posj <= Len(s) THEN CountFrom(s, posi, posj, lax, 0) ELSE error

RECURSIVE CodesFrom(_, _, _, _, _)
CodesNext(s, pose, lax, list, d) == IF d = Invalid THEN error ELSE CodesFrom(s, d.next, pose, lax, Append(list, d.code))
CodesFrom(s, i, pose, lax, list) ==
  IF i > pose THEN list ELSE CodesNext(s, pose, lax, list, utf8_decode(s, i, ~lax))
codepoint(s, i, j, lax) ==
  LET posi == u_posrelat(i, Len(s)) pose == u_posrelat(j, Len(s)) IN
  IF posi < 1 \/ pose > Len(s) THEN error ELSE CodesFrom(s, posi, pose, lax, <<>>)

(* Steps over continuation bytes, backwards to 1 or forwards.               *)
RECURSIVE Back(_, _)
Back(s, i) == IF i > 1 /\ iscontp(s, i) THEN Back(s, i - 1) ELSE i
RECURSIVE Forward(_, _)
Forward(s, i) == IF iscontp(s, i) THEN Forward(s, i + 1) ELSE i
RECURSIVE Move(_, _, _)
Move(s, i, n) ==          \* where it gets and how many characters are left
  CASE n < 0 /\ i > 1      -> Move(s, Back(s, i - 1), n + 1)
    [] n > 0 /\ i <= Len(s) -> Move(s, Forward(s, i + 1), n - 1)
    [] OTHER -> <<i, n>>
Place(s, i, n) == IF n # 0 THEN <<>> ELSE IF iscontp(s, i) THEN error ELSE <<i, IF ByteAt(s, i) >= 128 THEN Forward(s, i + 1) - 1 ELSE i>>
byteoffset(s, n, i) ==
  LET posi == u_posrelat(i, Len(s)) IN
  CASE ~(1 <= posi /\ posi - 1 <= Len(s)) -> error
    [] 1 <= posi /\ posi - 1 <= Len(s) /\ n = 0 -> Place(s, Back(s, posi), 0)
    [] OTHER -> IF iscontp(s, posi) THEN error
                ELSE LET m == Move(s, posi, IF n > 0 THEN n - 1 ELSE n) IN Place(s, m[1], m[2])

(* The pairs of positions and codes that 'codes' goes through.              *)
RECURSIVE IterFrom(_, _, _, _)
IterNext(s, i, lax, list, d) ==
  IF d = Invalid \/ iscontp(s, d.next) THEN error ELSE IterFrom(s, i + 1, lax, Append(list, <<i, d.code>>))
IterFrom(s, from, lax, list) ==
  LET i == IF from <= Len(s) THEN Forward(s, from) ELSE from IN
  IF i > Len(s) THEN list ELSE IterNext(s, i, lax, list, utf8_decode(s, i, ~lax))
iter_codes(s, lax) == IF iscontp(s, 1) THEN error ELSE IterFrom(s, 1, lax, <<>>)
=============================================================================
