------------------------- MODULE GenerationPrograms -------------------------
(***************************************************************************)
(* Objects and programs for LuaGenerations: besides the main thread and    *)
(* the registry a coroutine, an upvalue, a closure, a table and a table    *)
(* with weak values. Each program stores references of a few kinds.        *)
(***************************************************************************)
CONSTANTS mainth, reg, co, uv, cl, tb, wk

SomeObjects == {mainth, reg, co, uv, cl, tb, wk}
SomeTypes == [o \in SomeObjects |-> CASE o \in {mainth, co} -> "thread" [] o \in {reg, tb} -> "table"
                                      [] o = uv -> "upval" [] o = cl -> "closure" [] o = wk -> "weak"]
Program1(stores, finalizers, asks, joins) ==
  [stores |-> stores, finalizers |-> finalizers, asks |-> asks, joins |-> joins]
Uses(objects) == {mainth} \X objects
Sharing == Uses({co, cl, tb}) \cup {<<uv, tb>>, <<cl, uv>>}

SomePrograms ==
  { Program1(Sharing, {}, {}, FALSE),
    Program1(Uses({cl, tb}) \cup {<<tb, cl>>}, {tb}, {"full", "emergency"}, FALSE),
    Program1(Uses({tb}) \cup {<<reg, tb>>}, {tb}, {"full", "emergency", "major", "mode"}, FALSE),
    Program1(Uses({tb, wk}) \cup {<<reg, wk>>, <<wk, tb>>}, {tb}, {}, FALSE),
    Program1(Uses({cl, tb}) \cup {<<cl, tb>>}, {tb}, {}, FALSE),
    Program1(Uses({cl, tb}) \cup {<<reg, tb>>, <<tb, cl>>}, {}, {}, FALSE),
    Program1(Uses({cl, tb}) \cup {<<tb, cl>>}, {}, {"major"}, FALSE) }
Joining == {Program1(Sharing \cup {<<reg, cl>>}, {}, {}, TRUE)}
=============================================================================
