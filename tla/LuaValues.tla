----------------------------- MODULE LuaValues -----------------------------
(***************************************************************************)
(* Values of Lua as the compiler, the virtual machine and the semantics of *)
(* the language (LuaSemantics) see them, and the operations on values that *)
(* run no Lua code.  A value is a record whose only field tells its type,  *)
(* so that values of any two types can be compared:                        *)
(*   [con |-> "nil" | "true" | "false"]   [int |-> n]   [str |-> s]        *)
(*   [tab |-> n]   table number n         [fun |-> n]   closure number n   *)
(*   [ext |-> f]   function of the host   [obj |-> o]   host object whose  *)
(*                 metatable answers every event                           *)
(* Floats are left out: no operator that only makes floats is modelled.    *)
(***************************************************************************)
LOCAL INSTANCE Integers
LOCAL INSTANCE Sequences
LOCAL INSTANCE FiniteSets
LOCAL INSTANCE TLC

Nil   == [con |-> "nil"]
True  == [con |-> "true"]
False == [con |-> "false"]
Num(n) == [int |-> n]
Str(s) == [str |-> s]
Ext(f) == [ext |-> f]
Obj(o) == [obj |-> o]
Bool(b) == IF b THEN True ELSE False

ttisinteger(v) == DOMAIN v = {"int"}
ttisstring(v)  == DOMAIN v = {"str"}
ttistable(v)   == DOMAIN v = {"tab"}
l_isfalse(v)   == v \in {Nil, False}
\* numbers are converted to strings by the operation that needs one
cvt2str(v)     == ttisinteger(v) \/ ttisstring(v)
tostring(v)    == IF ttisinteger(v) THEN ToString(v.int) ELSE v.str

\* the operators that compute a value, and those that compare
ArithOps == {"add", "sub", "mul", "mod", "idiv", "band", "shl", "shr"}
OrderOps == {"lt", "le"}

RECURSIVE Pow2(_)
Pow2(n) == IF n = 0 THEN 1 ELSE 2 * Pow2(n - 1)

\* shifting by a negative amount shifts the other way, and far enough leaves
\* nothing; the operands that the programs shift are small and not negative
luaV_shiftl(x, y) == CASE y \in 0..24  -> x * Pow2(y)
                       [] y \in -24..-1 -> x \div Pow2(-y)
                       [] OTHER -> 0

RECURSIVE BitAnd(_, _)
BitAnd(x, y) == CASE x = 0 \/ y = 0 -> 0
                  [] x = -1 -> y
                  [] y = -1 -> x
                  [] OTHER -> (x % 2) * (y % 2) + 2 * BitAnd(x \div 2, y \div 2)

\* an operation on two integers; TLA+'s \div and % round as Lua's do for a
\* positive divisor, and the sign is moved into the dividend for a negative one
intarith(op, x, y) ==
    CASE op = "add"  -> x + y
      [] op = "sub"  -> x - y
      [] op = "mul"  -> x * y
      [] op = "idiv" -> IF y < 0 THEN (-x) \div (-y) ELSE x \div y
      [] op = "mod"  -> IF y < 0 THEN -((-x) % (-y)) ELSE x % y
      [] op = "band" -> BitAnd(x, y)
      [] op = "shl"  -> luaV_shiftl(x, y)
      [] op = "shr"  -> luaV_shiftl(x, -y)

\* the operations that need no error and no metamethod
luaO_rawarith(op, x, y) == Num(intarith(op, x.int, y.int))
validop(op, y) == op \in {"idiv", "mod"} => y.int # 0

\* the order of two values of the same type; for strings any total order would
\* do, it is that of their lengths
intorder(op, x, y) == IF op = "lt" THEN x < y ELSE x <= y
ordered(op, x, y)  == IF ttisinteger(x) THEN intorder(op, x.int, y.int)
                      ELSE intorder(op, Len(x.str), Len(y.str))

\* the sequence with Op(i) for its i-th element
Rewritten(s, Op(_)) == SubSeq([i \in DOMAIN s |-> Op(i)], 1, Len(s))

-----------------------------------------------------------------------------
(* Tables, as functions from the keys with a value, and the host *)

emptytable == [k \in {} |-> Nil]
luaH_get(t, key) == IF key \in DOMAIN t THEN t[key] ELSE Nil
luaH_set(t, key, v) ==
    IF v = Nil THEN [k \in DOMAIN t \ {key} |-> t[k]] ELSE (key :> v) @@ t
\* the programs measure only tables without holes
luaH_getn(t) == CHOOSE n \in 0..Cardinality(DOMAIN t) :
                    Num(n + 1) \notin DOMAIN t /\ \A i \in 1..n : Num(i) \in DOMAIN t

\* only objects of the host have metamethods, for every event
hastm(v) == DOMAIN v = {"obj"}
\* what a function of the host, or the metamethod for an event, answers: p its
\* arguments, it(s, c) counts c up to s
HostResults(f, args) ==
    CASE f = "p"  -> args
      [] f = "it" -> IF args[2].int < args[1].int THEN <<Num(args[2].int + 1), args[1]>> ELSE <<Nil>>
      [] f \in {"newindex", "close"} -> <<>>
      [] f = "index" -> <<Ext("p")>>
      [] f = "le"    -> <<Nil>>
      [] OTHER -> <<Str("mm")>>
\* a call of the host is seen with its arguments; identities are not
Shown(v) == CASE ttistable(v) -> [tab |-> 0] [] DOMAIN v = {"fun"} -> [fun |-> 0] [] OTHER -> v
HostEvent(f, args) == <<Ext(f)>> \o [i \in DOMAIN args |-> Shown(args[i])]
\* the global variables a program finds
HostGlobals == Str("p") :> Ext("p") @@ Str("it") :> Ext("it") @@ Str("o") :> Obj("o") @@ Str("q") :> Obj("q")
=============================================================================
