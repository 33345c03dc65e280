------------------------------ MODULE LuaHost ------------------------------
(***************************************************************************)
(* The Java binding (LuaInterpreter, LowLevelLua, LuaStack, LuaTable and   *)
(* LuaFunction): how its operations use the Lua stack of the main state,   *)
(* when Lua code calls back into Java and that Java code uses the binding  *)
(* again.                                                                  *)
(*                                                                         *)
(* What is abstracted.  A Lua value is its type, as the conversions tell   *)
(* types apart; what global variables, table fields, Lua functions and     *)
(* Java methods yield is any value.  The tables that LuaTables are made    *)
(* for are told apart: each is a table of its own.  Of the Lua stack only  *)
(* the frames of the host program and of the Java functions are kept: the  *)
(* frames of the Lua functions between them are out of the binding's       *)
(* sight.  Global variables and tables have no metamethods that run code.  *)
(***************************************************************************)
EXTENDS Integers, Sequences, SequencesExt, FiniteSetsExt

CONSTANTS
  Values,       \* the types of Lua values the program uses
  Tables,       \* bound: the tables that LuaTables are made for
  ArgLists,     \* what the host passes to a Lua function
  ResultLists,  \* the result types it asks for
  ParamLists,   \* the parameter types of the registered Java methods
  MaxFrames,    \* bound: the depth of nested calls into Java
  MaxArgs,      \* bound: the arguments of a call into Java
  MaxStack      \* bound: the values in a frame

(* "numeral" is a string that is a number, "float" has no integral value,  *)
(* "unsupported" stands for a Java object that pushObject rejects, "other" *)
(* for a Java type that toObject rejects, and "long" for the primitive     *)
(* type, which null cannot be passed for.                                  *)
LuaTypes  == {"nil", "boolean", "integer", "float", "numeral", "string",
              "table", "function", "thread"}
JavaTypes == {"Boolean", "Long", "long", "Double", "String", "other"}

ASSUME HostAssumption ==
  /\ {"nil", "string", "function", "thread"} \subseteq Values
  /\ Values \subseteq LuaTypes
  /\ Tables \cap LuaTypes = {}
  /\ ArgLists \subseteq Seq(Values \cup {"unsupported"})
  /\ ResultLists \subseteq Seq(JavaTypes) /\ ParamLists \subseteq Seq(JavaTypes)
  /\ MaxFrames \in Nat \ {0} /\ MaxArgs \in Nat /\ MaxStack \in Nat

VARIABLES
  frames,  \* the frames of the host program and of the running Java functions:
           \* the values 'stk' and, for the properties, 'fresh': the LuaTable
           \* (at most one) made in the frame that is still the latest and
           \* after which no operation has failed in a conversion
  made,    \* the LuaTables made so far, by the tables they were made for
  calls,   \* the lua_pcallk in progress: the height of the stack below the
           \* called function, the result types, and where it was 'before'
  last,    \* the operation that has just ended in the topmost frame: where it
           \* was 'before', and the number of values it 'gives' to keep there
  jvm      \* "up", "aborted" or "closed"

vars == <<frames, made, calls, last, jvm>>

Frame(stk) == [stk |-> stk, fresh |-> {}]
NoOp       == [outcome |-> "none", before |-> 0, gives |-> 0]

Depth == Len(frames)
Stk   == frames[Depth].stk

(* Either Java code runs, in the topmost frame, or Lua code above it.      *)
JavaRuns == jvm = "up" /\ Depth = Len(calls) + 1
LuaRuns  == jvm = "up" /\ Depth = Len(calls)

----------------------------------------------------------------------------
(***************************************************************************)
(* Conversions (LuaStack).                                                 *)
(***************************************************************************)

(* toInteger, toNumber, toString and toBoolean; the Lua API converts       *)
(* between strings and numbers.                                            *)
Fits(v, t) ==
  CASE t \in {"Long", "long"} -> v \in {"integer", "numeral"}
    [] t = "Double"           -> v \in {"integer", "float", "numeral"}
    [] t = "String"           -> v \in {"integer", "float", "numeral", "string"}
    [] t = "Boolean"          -> TRUE
    [] OTHER                  -> FALSE

(* toObject: nil is null for every type.                                   *)
ToObject(v, t) == v = "nil" \/ Fits(v, t)

Failure(t) == IF t = "other" THEN "UnsupportedOperationException" ELSE "LuaException"

(* Success, and the exception for an error of the Lua code.                *)
Clean == {"ok", "FunctionCallException"}

(* An operation that leaves 'stk' in the frame of the running Java code.   *)
Leaves(stk, fresh, outcome, before, gives) ==
  /\ Len(stk) <= MaxStack
  /\ frames' = [frames EXCEPT ![Depth] = [stk |-> stk, fresh |-> fresh]]
  /\ last' = [outcome |-> outcome, before |-> before, gives |-> gives]
  /\ UNCHANGED jvm

StillFresh(outcome) == IF outcome \in Clean THEN frames[Depth].fresh ELSE {}
Ends(stk, outcome, before) ==
  Leaves(stk, StillFresh(outcome), outcome, before, 0) /\ UNCHANGED made
Done(stk, outcome) == Ends(stk, outcome, Len(Stk)) /\ UNCHANGED calls

(* What lua_newstate makes, and nothing of what a program had.             *)
Empty(frs, tables, cs, op) ==
  frs = <<Frame(<<>>)>> /\ tables = {} /\ cs = <<>> /\ op = NoOp

(* The process ends: an exception leaves a Java function called by Lua, or *)
(* a Lua error finds no protected call below it but one across Java frames.*)
Abort == jvm' = "aborted" /\ Empty(frames', made', calls', last')

----------------------------------------------------------------------------
(***************************************************************************)
(* Operations on globals and tables.                                       *)
(***************************************************************************)

SetGlobal == JavaRuns /\ Done(Stk, "ok")

(* getGlobalString and its like: a value of the wrong type stays.          *)
GetGlobal(v, t) ==
  /\ JavaRuns
  /\ IF Fits(v, t) THEN Done(Stk, "ok")
                   ELSE Done(Append(Stk, v), "LuaException")

(* A table stays at index -1 for its new LuaTable; what is none stays too. *)
GetGlobalTable(t) ==
  /\ JavaRuns /\ t \in Tables \ made
  /\ Leaves(Append(Stk, t), {t}, "ok", Len(Stk), 1)
  /\ made' = made \cup {t}
  /\ UNCHANGED calls
GetGlobalNoTable(v) ==
  /\ JavaRuns /\ v # "table"
  /\ Done(Append(Stk, v), "LuaException")

FieldTypes(t) == CASE t = "String"            -> {"numeral", "string"}
                   [] t \in {"Long", "Double"} -> {"integer", "float"}
                   [] OTHER                    -> {"boolean"}

(* The receiver of every LuaTable: the value at index -1 of the frame that *)
(* runs.  Below an empty frame there is the running function itself, and   *)
(* nil below that of the host.                                             *)
Receiver == IF Stk # <<>> THEN Last(Stk) ELSE IF Depth = 1 THEN "nil" ELSE "function"

(* LuaTable.getString and its like for a field that holds v: a string has  *)
(* the string library's index, and anything else but a table raises an     *)
(* error outside of lua_pcallk.                                            *)
TableGet(t, v) ==
  /\ JavaRuns /\ made # {}
  /\ Receiver \in {"numeral", "string"} => v \in {"nil", "function"}
  /\ CASE Receiver \notin Tables \cup {"table", "numeral", "string"} -> Abort
       [] v \in FieldTypes(t) /\ Fits(v, t) -> Done(Stk, "ok")
       [] OTHER -> Done(Append(Stk, v), "LuaException")

----------------------------------------------------------------------------
(***************************************************************************)
(* Calls of Lua functions (LuaInterpreter.exec, LuaFunction.call).         *)
(***************************************************************************)

(* luaL_loadstring fails: checkStatus pops the message.                    *)
ExecFails == JavaRuns /\ Done(Stk, "FunctionCallException")

(* lua_pcallk(nargs, nresults) has pushed its function: Lua code runs.     *)
Enter(stk, types) ==
  /\ Len(stk) <= MaxStack
  /\ frames' = [frames EXCEPT ![Depth].stk = stk]
  /\ calls' = Append(calls, [base |-> Len(Stk), types |-> types])
  /\ last' = NoOp
  /\ UNCHANGED <<made, jvm>>

Exec == JavaRuns /\ Enter(Append(Stk, "function"), <<>>)

(* LuaFunction.call: the global's value v, then the arguments; what is not *)
(* a function is an error with a message, popped by checkStatus.           *)
Call(v, args, types) ==
  LET bad == {i \in 1..Len(args) : args[i] = "unsupported"}
      pushed == IF bad = {} THEN args ELSE SubSeq(args, 1, Min(bad) - 1)
      stk == Append(Stk, v) \o pushed
  IN  /\ JavaRuns
      /\ IF bad # {} THEN Done(stk, "IllegalArgumentException")
         ELSE IF v = "function" THEN Enter(stk, types)
         ELSE Done(Stk, "FunctionCallException")

(* What is in the frame below the running call.                            *)
Below == SubSeq(Stk, 1, Last(calls).base)

(* getResultValues: the results res are popped from the last one on, and   *)
(* popped as the first type, the second, ...                               *)
KeepResults(stk, res, types) == stk \o res    \* faulty: toObject for popObject
PopResults(stk, res, types) ==
  LET n   == Len(types)
      bad == {i \in 1..n : ~ToObject(res[n + 1 - i], types[i])}
  IN  stk \o SubSeq(res, 1, IF bad = {} THEN 0 ELSE n + 1 - Min(bad))

(* The function returns, its results adjusted to the types asked for.      *)
LuaReturns(res) ==
  LET types == Last(calls).types
      n     == Len(types)
      bad   == {i \in 1..n : ~ToObject(res[n + 1 - i], types[i])}
  IN  /\ LuaRuns /\ Len(res) = n
      /\ Ends(PopResults(Below, res, types),
              IF bad = {} THEN "ok" ELSE Failure(types[Min(bad)]), Last(calls).base)
      /\ calls' = Front(calls)

(* The function fails with error object e, never nil (luaG_errormsg):      *)
(* luaD_pcall restores the stack and checkStatus pops a message that may   *)
(* not be a string.                                                        *)
LuaFailsPeek(e) ==            \* faulty: the message is read, not popped
  /\ LuaRuns /\ e # "nil"
  /\ Ends(Append(Below, e),
          IF Fits(e, "String") THEN "FunctionCallException" ELSE "LuaException",
          Last(calls).base)
  /\ calls' = Front(calls)
LuaFails(e) ==
  /\ LuaRuns /\ e # "nil"
  /\ IF Fits(e, "String")
     THEN Ends(Below, "FunctionCallException", Last(calls).base)
     ELSE Ends(Append(Below, e), "LuaException", Last(calls).base)
  /\ calls' = Front(calls)

----------------------------------------------------------------------------
(***************************************************************************)
(* Java methods called from Lua (LuaInterpreter.invokeMethod).             *)
(***************************************************************************)

(* What index -k of a frame reads: below its values there is the function  *)
(* itself, and below that the frame of the caller.                         *)
ReadAt(stk, k) == IF k <= Len(stk) THEN {stk[Len(stk) + 1 - k]}
                  ELSE IF k = Len(stk) + 1 THEN {"function"}
                  ELSE Values

(* invokeMethod reads one value for each parameter from the top of 'stk'   *)
(* and calls the method, if it can.                                        *)
Invoke(stk, params) ==
  LET n == Len(params)
  IN  \E vals \in [1..n -> Values] :
        /\ \A i \in 1..n : vals[i] \in ReadAt(stk, n + 1 - i)
        /\ IF \A i \in 1..n : ToObject(vals[i], params[i])
                              /\ ~(vals[i] = "nil" /\ params[i] = "long")
           THEN /\ frames' = Append(frames, Frame(stk))
                /\ last' = NoOp
                /\ UNCHANGED <<made, calls, jvm>>
           ELSE Abort

(* Lua code of the main thread calls the function with the values args.    *)
Upcall(args, params) ==
  /\ LuaRuns /\ Depth < MaxFrames
  /\ Invoke(args, params)

(* In a coroutine the function has the coroutine's state, but stack() is   *)
(* still the main thread's: the frame of coroutine.resume, which holds the *)
(* coroutine, or of a function made by coroutine.wrap.                     *)
UpcallInCoroutine(stk, params) ==
  /\ LuaRuns /\ Depth < MaxFrames
  /\ Invoke(stk, params)

(* The method returns: its result is pushed (null for a void method, as    *)
(* its type is void.class) and Lua takes the top value.                    *)
JavaReturns(v) ==
  /\ JavaRuns /\ Depth > 1
  /\ IF v = "unsupported" THEN Abort
     ELSE /\ Len(Stk) < MaxStack
          /\ frames' = Front(frames)
          /\ last' = NoOp
          /\ UNCHANGED <<made, calls, jvm>>

(* The method throws: invokeMethod does not let Lua know.                  *)
JavaThrows == JavaRuns /\ Depth > 1 /\ Abort

(* LuaInterpreter.close, from the host program.                            *)
Close ==
  /\ JavaRuns /\ Depth = 1
  /\ jvm' = "closed"
  /\ Empty(frames', made', calls', last')

----------------------------------------------------------------------------
(* LuaInterpreter.create.                                                  *)
Init == jvm = "up" /\ Empty(frames, made, calls, last)

Getters == {"String", "Long", "Double", "Boolean"}
ValueLists(n) == [1..n -> Values]

Next ==
  \/ SetGlobal
  \/ \E v \in Values, t \in Getters : GetGlobal(v, t)
  \/ \E t \in Tables : GetGlobalTable(t)
  \/ \E v \in Values : GetGlobalNoTable(v)
  \/ \E v \in Values, t \in Getters : TableGet(t, v)
  \/ ExecFails
  \/ Exec
  \/ \E v \in Values, args \in ArgLists, types \in ResultLists : Call(v, args, types)
  \/ LuaRuns /\ \E res \in ValueLists(Len(Last(calls).types)) : LuaReturns(res)
  \/ \E e \in Values : LuaFails(e)
  \/ \E params \in ParamLists, args \in UNION {ValueLists(n) : n \in 0..MaxArgs} :
       Upcall(args, params)
  \/ \E params \in ParamLists, stk \in {<<>>, <<"thread">>} :
       UpcallInCoroutine(stk, params)
  \/ \E v \in Values \cup {"unsupported"} : JavaReturns(v)
  \/ JavaThrows
  \/ Close

Spec == Init /\ [][Next]_vars

----------------------------------------------------------------------------
(***************************************************************************)
(* Properties.                                                             *)
(***************************************************************************)

(* The frames and the calls in progress alternate, and a call returns to a *)
(* height that its frame still has.                                        *)
HostTypeOK ==
  /\ frames \in Seq([stk : Seq(Values \cup Tables), fresh : SUBSET Tables])
  /\ made \subseteq Tables
  /\ Depth \in {Len(calls), Len(calls) + 1} /\ Depth > 0
  /\ \A i \in 1..Len(calls) : calls[i].base < Len(frames[i].stk)
  /\ jvm \in {"up", "aborted", "closed"}

(* An operation that succeeds, or that fails with the error of the Lua     *)
(* code, leaves the stack of its frame as high as it found it, whatever    *)
(* Lua called in between; only getGlobalTable leaves its table.  One that  *)
(* fails in a conversion always leaves something above what it found.      *)
Balanced ==
  (JavaRuns /\ last.outcome # "none") =>
    IF last.outcome \in Clean
    THEN Len(Stk) = last.before + last.gives
    ELSE Len(Stk) > last.before

(* A LuaTable reads the very table it was made for just as long as it is   *)
(* the latest of the frame that runs and no operation of this frame has    *)
(* failed in a conversion since, whatever calls that fail, callbacks, and  *)
(* LuaTables and failures in other frames come in between.  Every other    *)
(* LuaTable, of a frame that waits or has ended, with a later LuaTable in  *)
(* the frame or after such a failure, reads something else.                *)
HandlesRead ==
  JavaRuns => \A t \in made : Receiver = t <=> t \in frames[Depth].fresh

=============================================================================
