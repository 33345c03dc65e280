----------------------------- MODULE LuaMatches -----------------------------
(***************************************************************************)
(* What a pattern means: the list of its matches from a position, in the   *)
(* order in which they are preferred, as a function of the items of the    *)
(* pattern.  There is nothing to undo: each match has captures of its own. *)
(***************************************************************************)
EXTENDS Integers, Sequences, FiniteSets

CONSTANT Ends      \* what stands before and after a string for a frontier

(* Items: [k |-> "class", set, suffix], [k |-> "open"], "pos", "close",    *)
(* "back" with n, "balance" with b and e, "frontier" with set, "end".      *)
Open  == -1
Place == -2
Wrong == <<[at |-> -1, cap |-> <<>>]>>      \* the pattern is in error here
Last(S) == CHOOSE x \in S : \A y \in S : y <= x

RECURSIVE All(_, _, _, _), Repeat(_, _, _, _, _, _)
(* The matches of the rest of the pattern after from, from + by, ... to     *)
(* repetitions.                                                             *)
Repeat(items, S, s, cap, from, to) ==
  IF from = to THEN All(items, S, s + from, cap)
  ELSE All(items, S, s + from, cap) \o Repeat(items, S, s, cap, IF from < to THEN from + 1 ELSE from - 1, to)

All(items, S, s, cap) ==
  LET x    == Head(items)
      rest == Tail(items)
      Fits(i) == i \in DOMAIN S /\ S[i] \in x.set
      most == CHOOSE n \in 0..Len(S) : (\A i \in s..s + n - 1 : Fits(i)) /\ ~Fits(s + n)
      open == {l \in DOMAIN cap : cap[l].len = Open}
      done == x.n \in DOMAIN cap /\ cap[x.n].len # Open
      again == SubSeq(S, cap[x.n].init, cap[x.n].init + cap[x.n].len - 1)
      Depth(i) == Cardinality({j \in s..i : S[j] = x.b /\ (j = s \/ x.b # x.e)})
                - Cardinality({j \in s + 1..i : S[j] = x.e})
      closed == {i \in s + 1..Len(S) : Depth(i) = 0 /\ \A j \in s..i - 1 : Depth(j) > 0}
      Around(i) == IF i \in DOMAIN S THEN S[i] ELSE Ends
  IN IF items = <<>> THEN <<[at |-> s, cap |-> cap]>>
     ELSE CASE x.k = "class" ->
                 (CASE x.suffix = ""  -> IF Fits(s) THEN All(rest, S, s + 1, cap) ELSE <<>>
                    [] x.suffix = "?" -> Repeat(rest, S, s, cap, IF Fits(s) THEN 1 ELSE 0, 0)
                    [] x.suffix = "*" -> Repeat(rest, S, s, cap, most, 0)
                    [] x.suffix = "+" -> IF most = 0 THEN <<>> ELSE Repeat(rest, S, s, cap, most, 1)
                    [] x.suffix = "-" -> Repeat(rest, S, s, cap, 0, most))
            [] x.k = "open"  -> All(rest, S, s, Append(cap, [init |-> s, len |-> Open]))
            [] x.k = "pos"   -> All(rest, S, s, Append(cap, [init |-> s, len |-> Place]))
            [] x.k = "close" -> IF open = {} THEN Wrong
                                ELSE All(rest, S, s, [cap EXCEPT ![Last(open)].len = s - cap[Last(open)].init])
            [] x.k = "back"  -> IF ~done THEN Wrong
                                ELSE IF /\ cap[x.n].len # Place /\ s + cap[x.n].len - 1 <= Len(S)
                                        /\ SubSeq(S, s, s + cap[x.n].len - 1) = again
                                THEN All(rest, S, s + cap[x.n].len, cap) ELSE <<>>
            [] x.k = "balance" -> IF s \in DOMAIN S /\ S[s] = x.b /\ closed # {}
                                  THEN All(rest, S, 1 + CHOOSE i \in closed : TRUE, cap) ELSE <<>>
            [] x.k = "frontier" -> IF Around(s - 1) \notin x.set /\ Around(s) \in x.set
                                   THEN All(rest, S, s, cap) ELSE <<>>
            [] x.k = "end"   -> IF s = Len(S) + 1 THEN All(rest, S, s, cap) ELSE <<>>

(* The match at s that is preferred: [at, cap], 'at' 0 for none, -1 if the  *)
(* pattern is in error.                                                     *)
Best(items, S, s) ==
  LET all == All(items, S, s, <<>>) IN IF all = <<>> THEN [at |-> 0, cap |-> <<>>] ELSE all[1]
=============================================================================
