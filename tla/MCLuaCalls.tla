----------------------------- MODULE MCLuaCalls -----------------------------
(* Small programs for LuaCalls. The main thread drives the coroutines; each *)
(* kind of program mixes the operations whose interplay is at stake.        *)
EXTENDS LuaCalls
CONSTANTS co1, co2

Kind(cos, ops, fuel, mainOps) == [cos |-> cos, ops |-> ops, fuel |-> fuel, mainOps |-> mainOps]
One == {co1}
Two == {co1, co2}

Kinds ==
  { Kind(One, {"xpcall", "error"}, 5, {"resume"}),
    Kind(One, {"tbc", "pcall", "yield", "error"}, 5, {"resume"}),
    Kind(One, {"tbc", "lua", "close", "yield", "meta"}, 3, {"resume", "wrap"}),
    Kind(One, {"tbc", "callk", "call", "pcall", "yield", "error"}, 3, {"resume"}),
    Kind(One, {"xpcall", "error", "meta", "yield"}, 4, {"resume"}),
    Kind(One, {"closeself", "tbc", "error", "yield", "status"}, 4, {"wrap", "close"}),
    Kind(One, {"yieldable", "call", "callk", "xpcall", "tbc"}, 3, {"resume"}),
    Kind(Two, {"resume", "wrap", "close", "yield", "error"}, 2, {"resume"}),
    Kind(Two, {"yield", "resume"}, 1, {"yield", "closeself", "resume", "status", "error"}) }

SelfClosing == { Kind(One, {"tbc", "error", "closeself"}, 4, {"resume", "close"}) }
==============================================================================
