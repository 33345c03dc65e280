------------------------------ MODULE MCLuaGC ------------------------------
(***************************************************************************)
(* Instances of LuaGC for TLC.  Each scenario fixes the kinds of the       *)
(* objects a, b, c and what the program may store where; the main thread   *)
(* and the registry are always there.                                      *)
(***************************************************************************)
EXTENDS LuaGC, TLC

CONSTANTS main, reg, a, b, c, prim

Heap == {main, reg, a, b, c}
Kinds3(ka, kb, kc) ==
  main :> "thread" @@ reg :> "table" @@ a :> ka @@ b :> kb @@ c :> kc

Arr(S) == {prim} \X S                      \* array parts, stacks, upvalues
Stored(s, r, sa, sb, sc) == main :> s @@ reg :> r @@ a :> sa @@ b :> sb @@ c :> sc
None   == [o \in Heap |-> {}]

(* A coroutine, an upvalue that captures its variables, a closure over it. *)
UpvalKinds    == Kinds3("thread", "upval", "closure")
UpvalStores   == Stored(Arr({a, c}), {}, Arr({c}), Arr({a, c}), Arr({b}))

(* A table of any mode, its own metatable; an object with a finalizer and  *)
(* a string are its keys and values.                                       *)
WeakKinds     == Kinds3("table", "table", "string")
WeakStores    == Stored(Arr({a, b, c}), {}, {<<b, c>>, <<c, b>>}, {}, {})
WeakMetas     == [None EXCEPT ![a] = {a}, ![b] = {b}]
WeakModes     == [None EXCEPT ![a] = Modes \ {"strong"}]

(* A coroutine whose variable, captured by an upvalue, has a finalizer.    *)
LiveKinds     == Kinds3("thread", "upval", "table")
LiveStores    == Stored(Arr({a}), {}, Arr({c}), Arr({c}), {})
LiveMetas     == [None EXCEPT ![c] = {c}]
=============================================================================
