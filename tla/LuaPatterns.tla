---------------------------- MODULE LuaPatterns ----------------------------
(***************************************************************************)
(* Pattern matching (lstrlib.c): the backtracking matcher with its         *)
(* captures, which a failing attempt has to undo, and the loops of find,   *)
(* gmatch and gsub around it.  Strings are sequences of characters;        *)
(* beyond its end every string has a NUL.  A replacement refers to all     *)
(* captures.                                                               *)
(***************************************************************************)
EXTENDS Integers, Sequences, FiniteSets

CONSTANTS NUL,         \* the character 0
          Alphabet,    \* the characters in their order
          Classes,     \* the sets of characters of the letters a, d, ...
          Lower,       \* the lower-case letter of a class letter
          MAXCCALLS,   \* the depth of recursion of 'match'
          LUA_MAXCAPTURES

At(t, i) == IF i \in DOMAIN t THEN t[i] ELSE NUL
Chars == {Alphabet[i] : i \in DOMAIN Alphabet}
Ord(c) == CHOOSE i \in 0..Len(Alphabet) : IF c = NUL THEN i = 0 ELSE i > 0 /\ Alphabet[i] = c

CAP_UNFINISHED == -1
CAP_POSITION   == -2

(* What a match returns: the position after it, 0 for none (NULL) or -1    *)
(* for an error, and the captures, whose number is 'level'.                *)
Result(at, cap) == [at |-> at, cap |-> cap]
Failed(r) == r.at = 0
Error == Result(-1, <<>>)
------------------------------------------------------------------------------
(* ---- single characters ---- *)
RECURSIVE BracketEnd(_, _)
BracketEnd(P, p) ==        \* looks for a ']'
  LET q == IF P[p] = "%" /\ p < Len(P) THEN p + 2 ELSE p + 1
  IN CASE p > Len(P) -> 0 [] p <= Len(P) /\ At(P, q) = "]" -> q + 1 [] OTHER -> BracketEnd(P, q)
classend(P, p) ==
  CASE P[p] = "%" -> IF p = Len(P) THEN 0 ELSE p + 2
    [] P[p] = "[" -> BracketEnd(P, IF At(P, p + 1) = "^" THEN p + 2 ELSE p + 1)
    [] OTHER -> p + 1

match_class(c, cl) ==
  IF cl \notin DOMAIN Lower THEN cl = c
  ELSE IF Lower[cl] = cl THEN c \in Classes[cl] ELSE c \notin Classes[Lower[cl]]

RECURSIVE InBracket(_, _, _, _)
InBracket(c, P, p, ec) ==
  LET range == At(P, p + 1) = "-" /\ p + 2 < ec IN
  CASE p >= ec -> FALSE
    [] p < ec /\ P[p] = "%" -> match_class(c, At(P, p + 1)) \/ InBracket(c, P, p + 2, ec)
    [] p < ec /\ P[p] # "%" /\ range ->
         (Ord(P[p]) <= Ord(c) /\ Ord(c) <= Ord(P[p + 2])) \/ InBracket(c, P, p + 3, ec)
    [] OTHER -> P[p] = c \/ InBracket(c, P, p + 1, ec)
matchbracketclass(c, P, p, ec) ==
  IF At(P, p + 1) = "^" THEN ~InBracket(c, P, p + 2, ec) ELSE InBracket(c, P, p + 1, ec)

singlematch(S, P, s, p, ep) ==
  /\ s <= Len(S)
  /\ CASE P[p] = "." -> TRUE
       [] P[p] = "%" -> match_class(S[s], P[p + 1])
       [] P[p] = "[" -> matchbracketclass(S[s], P, p, ep - 1)
       [] OTHER -> P[p] = S[s]

RECURSIVE BalanceFrom(_, _, _, _, _)
BalanceFrom(S, s, b, e, cont) ==
  CASE s > Len(S) -> 0
    [] s <= Len(S) /\ S[s] = e -> IF cont = 1 THEN s + 1 ELSE BalanceFrom(S, s + 1, b, e, cont - 1)
    [] s <= Len(S) /\ S[s] # e /\ S[s] = b -> BalanceFrom(S, s + 1, b, e, cont + 1)
    [] OTHER -> BalanceFrom(S, s + 1, b, e, cont)
matchbalance(S, P, s, p) ==
  CASE p >= Len(P) -> -1
    [] p < Len(P) /\ At(S, s) # P[p] -> 0
    [] OTHER -> BalanceFrom(S, s + 1, P[p], P[p + 1], 1)
------------------------------------------------------------------------------
(* ---- captures ---- *)
Digits == <<"1", "2", "3", "4", "5", "6", "7", "8", "9">>
Level(c) == CHOOSE i \in 0..9 : IF c = "0" THEN i = 0 ELSE i > 0 /\ Digits[i] = c
check_capture(cap, l) == l \in DOMAIN cap /\ cap[l].len # CAP_UNFINISHED
capture_to_close(cap) ==
  LET open == {l \in DOMAIN cap : cap[l].len = CAP_UNFINISHED}
  IN IF open = {} THEN 0 ELSE CHOOSE l \in open : \A k \in open : k <= l

(* The text of capture l again at s; a position capture is not one: its    *)
(* length, as a size, is larger than any string.                           *)
match_capture(S, cap, s, l) ==
  LET len == cap[l].len IN
  CASE ~check_capture(cap, l) -> -1
    [] check_capture(cap, l) /\ len >= 0 /\ Len(S) + 1 - s >= len
         /\ SubSeq(S, cap[l].init, cap[l].init + len - 1) = SubSeq(S, s, s + len - 1) -> s + len
    [] OTHER -> 0
------------------------------------------------------------------------------
(* ---- the matcher: M is [S, P], d the calls of 'match' that are left ---- *)
RECURSIVE match(_, _, _, _, _), init(_, _, _, _, _), start_capture(_, _, _, _, _, _), end_capture(_, _, _, _, _),
          max_expand(_, _, _, _, _, _, _), min_expand(_, _, _, _, _, _), Default(_, _, _, _, _),
          Then(_, _, _, _, _), Frontier(_, _, _, _, _)
match(M, cap, s, p, d) == IF d = 0 THEN Error ELSE init(M, cap, s, p, d - 1)

start_capture(M, cap, s, p, what, d) ==
  LET r == match(M, Append(cap, [init |-> s, len |-> what]), s, p, d) IN
  CASE Len(cap) >= LUA_MAXCAPTURES -> Error
    [] Len(cap) < LUA_MAXCAPTURES /\ Failed(r) -> Result(0, SubSeq(r.cap, 1, Len(cap)))
    [] OTHER -> r

EndCaptureKept(M, cap, s, p, d) ==      \* does not undo the capture
  LET l == capture_to_close(cap) IN
  IF l = 0 THEN Error ELSE match(M, [cap EXCEPT ![l].len = s - cap[l].init], s, p, d)
end_capture(M, cap, s, p, d) ==
  LET l == capture_to_close(cap)
      r == match(M, [cap EXCEPT ![l].len = s - cap[l].init], s, p, d)
  IN CASE l = 0 -> Error
       [] l # 0 /\ Failed(r) -> Result(0, [r.cap EXCEPT ![l].len = CAP_UNFINISHED])
       [] OTHER -> r

Repetitions(M, s, p, ep) ==
  CHOOSE i \in 0..Len(M.S) : /\ \A j \in 0..i - 1 : singlematch(M.S, M.P, s + j, p, ep)
                             /\ ~singlematch(M.S, M.P, s + i, p, ep)
max_expand(M, cap, s, i, p, ep, d) ==
  LET r == match(M, cap, s + i, ep + 1, d) IN
  CASE i < 0 -> Result(0, cap)
    [] i >= 0 /\ ~Failed(r) -> r
    [] OTHER -> max_expand(M, r.cap, s, i - 1, p, ep, d)
min_expand(M, cap, s, p, ep, d) ==
  LET r == match(M, cap, s, ep + 1, d) IN
  CASE ~Failed(r) -> r
    [] Failed(r) /\ singlematch(M.S, M.P, s, p, ep) -> min_expand(M, r.cap, s + 1, p, ep, d)
    [] OTHER -> Result(0, r.cap)

(* A class with its suffix. *)
Default(M, cap, s, p, d) ==
  LET ep   == classend(M.P, p)
      suff == At(M.P, ep)
      once == singlematch(M.S, M.P, s, p, ep)
      r    == match(M, cap, s + 1, ep + 1, d)
  IN CASE ep = 0 -> Error
       [] ep # 0 /\ ~once -> IF suff \in {"*", "?", "-"} THEN init(M, cap, s, ep + 1, d) ELSE Result(0, cap)
       [] ep # 0 /\ once /\ suff = "?" -> IF Failed(r) THEN init(M, r.cap, s, ep + 1, d) ELSE r
       [] ep # 0 /\ once /\ suff = "+" -> max_expand(M, cap, s + 1, Repetitions(M, s + 1, p, ep), p, ep, d)
       [] ep # 0 /\ once /\ suff = "*" -> max_expand(M, cap, s, Repetitions(M, s, p, ep), p, ep, d)
       [] ep # 0 /\ once /\ suff = "-" -> min_expand(M, cap, s, p, ep, d)
       [] OTHER -> init(M, cap, s + 1, ep, d)

(* Goes on with the pattern at 'next' if a part of it took s to 'at'. *)
Then(M, cap, at, next, d) == IF at > 0 THEN init(M, cap, at, next, d) ELSE Result(at, cap)
Frontier(M, cap, s, p, d) ==
  LET ep == classend(M.P, p) IN
  CASE At(M.P, p) # "[" -> Error
    [] At(M.P, p) = "[" /\ ep = 0 -> Error
    [] OTHER -> IF ~matchbracketclass(At(M.S, s - 1), M.P, p, ep - 1) /\ matchbracketclass(At(M.S, s), M.P, p, ep - 1)
                THEN init(M, cap, s, ep, d) ELSE Result(0, cap)

init(M, cap, s, p, d) ==
  LET c == At(M.P, p) e == At(M.P, p + 1) IN
  CASE p > Len(M.P) -> Result(s, cap)
    [] p <= Len(M.P) /\ c = "(" -> IF e = ")" THEN start_capture(M, cap, s, p + 2, CAP_POSITION, d)
                                   ELSE start_capture(M, cap, s, p + 1, CAP_UNFINISHED, d)
    [] p <= Len(M.P) /\ c = ")" -> end_capture(M, cap, s, p + 1, d)
    [] p = Len(M.P) /\ c = "$" -> Result(IF s = Len(M.S) + 1 THEN s ELSE 0, cap)
    [] p <= Len(M.P) /\ c = "%" /\ e = "b" -> Then(M, cap, matchbalance(M.S, M.P, s, p + 2), p + 4, d)
    [] p <= Len(M.P) /\ c = "%" /\ e = "f" -> Frontier(M, cap, s, p + 2, d)
    [] p <= Len(M.P) /\ c = "%" /\ e \in {"0"} \cup {Digits[i] : i \in 1..9} ->
         Then(M, cap, match_capture(M.S, cap, s, Level(e)), p + 2, d)
    [] OTHER -> Default(M, cap, s, p, d)
------------------------------------------------------------------------------
(* ---- find, gmatch, gsub ---- *)
Anchored(P) == At(P, 1) = "^"
Pattern(P)  == IF Anchored(P) THEN SubSeq(P, 2, Len(P)) ELSE P
Unfinished(r) == \E i \in DOMAIN r.cap : r.cap[i].len = CAP_UNFINISHED
MatchAt(S, P, s) == match([S |-> S, P |-> P], <<>>, s, 1, MAXCCALLS)

(* The start of the first match from s on and the match; errors when a     *)
(* capture that is pushed was not closed.                                  *)
None == [from |-> 0, r |-> Result(0, <<>>)]
RECURSIVE FindFrom(_, _, _, _)
FindFrom(S, P, s, anchor) ==
  LET r == MatchAt(S, P, s) IN
  CASE ~Failed(r) -> IF Unfinished(r) THEN [from |-> s, r |-> Error] ELSE [from |-> s, r |-> r]
    [] Failed(r) /\ s <= Len(S) /\ ~anchor -> FindFrom(S, P, s + 1, anchor)
    [] OTHER -> None
(* Plain search. *)
lmemfind(S, P, first) ==
  LET at == {i \in first..Len(S) + 1 - Len(P) : SubSeq(S, i, i + Len(P) - 1) = P}
  IN IF at = {} THEN 0 ELSE CHOOSE i \in at : \A j \in at : i <= j
nospecials(P) == \A i \in DOMAIN P : P[i] \notin {"^", "$", "*", "+", "?", ".", "(", "[", "%", "-"}

str_find_aux(S, P, first, find, plain) ==
  LET at == lmemfind(S, P, first) IN
  CASE first > Len(S) + 1 -> None
    [] first <= Len(S) + 1 /\ find /\ (plain \/ nospecials(P)) ->
         IF at = 0 THEN None ELSE [from |-> at, r |-> Result(at + Len(P), <<>>)]
    [] OTHER -> FindFrom(S, Pattern(P), first, Anchored(P))

(* The matches <<from, after>> that gmatch iterates over. *)
RECURSIVE gmatch(_, _, _, _)
gmatch(S, P, src, lastmatch) ==
  LET r == MatchAt(S, P, src) IN
  CASE src > Len(S) + 1 -> <<>>
    [] src <= Len(S) + 1 /\ ~Failed(r) /\ r.at # lastmatch ->
         IF r.at = -1 \/ Unfinished(r) THEN <<<<-1, -1>>>> ELSE <<<<src, r.at>>>> \o gmatch(S, P, r.at, r.at)
    [] OTHER -> gmatch(S, P, src + 1, lastmatch)

(* Those that gsub replaces, at most max_s. *)
RECURSIVE GsubFrom(_, _, _, _, _, _)
GsubFrom(S, P, src, lastmatch, max_s, anchor) ==
  LET r == MatchAt(S, P, src)
      rest(at, last, n) == IF anchor THEN <<>> ELSE GsubFrom(S, P, at, last, n, anchor)
  IN CASE max_s = 0 -> <<>>
       [] max_s > 0 /\ ~Failed(r) /\ r.at # lastmatch ->
            IF r.at = -1 \/ Unfinished(r) THEN <<<<-1, -1>>>> ELSE <<<<src, r.at>>>> \o rest(r.at, r.at, max_s - 1)
       [] max_s > 0 /\ (Failed(r) \/ r.at = lastmatch) /\ src <= Len(S) -> rest(src + 1, lastmatch, max_s)
       [] OTHER -> <<>>
str_gsub(S, P, max_s) == GsubFrom(S, Pattern(P), 1, 0, max_s, Anchored(P))
=============================================================================
