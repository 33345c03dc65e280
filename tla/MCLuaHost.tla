------------------------------ MODULE MCLuaHost ------------------------------
(***************************************************************************)
(* Instances of LuaHost for TLC.                                           *)
(***************************************************************************)
EXTENDS LuaHost, TLC

SomeArgs    == {<<"integer">>, <<"string", "unsupported">>}
SomeResults == {<<"Long">>, <<"String", "Long">>, <<"other">>}
SomeParams  == {<<>>, <<"long">>, <<"Boolean", "String">>}

(* No table is told apart from another but by the LuaTable made for it.   *)
TablesAlike == Permutations(Tables)
=============================================================================
