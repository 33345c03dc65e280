-------------------------- MODULE MCLuaGenerations --------------------------
(* The generational collector with the programs of GenerationPrograms.      *)
EXTENDS LuaGenerations, GenerationPrograms
=============================================================================
