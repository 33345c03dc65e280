----------------------------- MODULE MCLuaTable -----------------------------
(* Small tables for LuaTable: each kind has keys that collide.              *)
EXTENDS LuaTable, TLC
CONSTANTS alpha, beta, gamma

Kind(stored, weak, na, nh) ==
  [stored |-> stored, weak |-> weak, asize |-> na, nsize |-> nh,
   objects |-> {alpha, beta, gamma} \cap (DOMAIN stored \cup Range(stored))]
Hashes == alpha :> 0 @@ beta :> 3 @@ gamma :> 6
Plain(S) == [k \in S |-> 10 + (IF k = alpha THEN 1 ELSE IF k = beta THEN 2 ELSE IF k = gamma THEN 3 ELSE k + 5)]
Kinds ==
  { Kind(Plain({alpha, beta, gamma}), {}, 0, 0),
     Kind(Plain({2, 3, 6, 9}), {}, 0, 4),
     Kind(Plain({1, 2, 3, alpha}), {}, 0, 4),
     Kind(alpha :> beta @@ beta :> gamma @@ 2 :> 7, {"k"}, 0, 4),
     Kind(1 :> alpha @@ 6 :> beta @@ 9 :> gamma, {"v"}, 8, 0),
     Kind(Plain(1..6), {}, 8, 0),
     Kind(Plain({1, 2, 3, 5, 6}), {}, 2, 4),
     Kind(Plain({1, 2, 5, 10, 18}), {}, 0, 5) }
=============================================================================
