---------------------------- MODULE MCLuaStrings ----------------------------
(***************************************************************************)
(* Instances of LuaStrings for TLC: six strings, of which the first may   *)
(* live at two addresses; hashes that collide in a table of 2, of 4 and    *)
(* of 8 buckets.                                                           *)
(***************************************************************************)
EXTENDS LuaStrings

SomeObj     == 1..7
SomeContent == [o \in SomeObj |-> IF o = 7 THEN 1 ELSE o]
SomeHash    == [c \in 1..6 |-> CASE c = 1 -> 5 [] c = 2 -> 1 [] c = 3 -> 13
                                 [] c = 4 -> 2 [] c = 5 -> 7 [] c = 6 -> 10]
=============================================================================
