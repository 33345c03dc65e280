--------------------------- MODULE LuaHostProofs ---------------------------
(***************************************************************************)
(* Proofs about LuaHost, for any values, argument lists, result types,     *)
(* Java methods and bounds: the operations of the binding leave the stack  *)
(* of their frame as high as they found it, and a LuaTable reads the table *)
(* it was made for just as long as nothing was left above it.              *)
(***************************************************************************)
EXTENDS LuaHost, WellFoundedInduction, TLAPS

Slots  == Values \cup Tables
Frames == [stk : Seq(Slots), fresh : SUBSET Tables]
Calls  == [base : Nat, types : Seq(JavaTypes)]

TypeInv == HostTypeOK /\ calls \in Seq(Calls)

(* Where the top of a frame will be when its Java code runs again, if the  *)
(* Lua code it has called does not fail in a conversion.                   *)
Height(i) == IF i <= Len(calls) THEN calls[i].base ELSE Len(frames[i].stk)

(* The table of the fresh LuaTable lies there, also in the frames below,   *)
(* and no table of another LuaTable does.                                  *)
LiesAt(stk, n, t) == n > 0 /\ stk[n] = t
Handles ==
  \A i \in 1..Depth, t \in Tables :
    t \in frames[i].fresh <=> LiesAt(frames[i].stk, Height(i), t)

IInv == TypeInv /\ Handles /\ Balanced

----------------------------------------------------------------------------
(* The library's Min of a set of numbers is the least of them.             *)
LEMMA MinIs ==
  ASSUME NEW S \in SUBSET Nat, S # {}
  PROVE  Min(S) \in S /\ \A y \in S : Min(S) <= y
<1> DEFINE less == {p \in Nat \X Nat : p[1] < p[2]}
<1>1. IsWellFoundedOn(less, Nat)
  BY NatLessThanWellFounded DEF OpToRel
<1>2. PICK x \in S : \A y \in S : <<y, x>> \notin less
  <2> HIDE DEF less
  <2> QED BY <1>1, WFMin
<1>3. ASSUME NEW y \in S PROVE x <= y
  <2>1. y \in Nat /\ x \in Nat /\ <<y, x>> \notin less
    BY <1>2
  <2>2. y < x => <<y, x>> \in less
    BY <2>1
  <2> HIDE DEF less
  <2> QED BY <2>1, <2>2
<1> QED BY <1>3 DEF Min

(* Cutting a sequence off.                                                 *)
LEMMA Cut ==
  ASSUME NEW S, NEW s \in Seq(S), NEW n \in 0..Len(s)
  PROVE  /\ SubSeq(s, 1, n) \in Seq(S)
         /\ Len(SubSeq(s, 1, n)) = n
         /\ \A i \in 1..n : SubSeq(s, 1, n)[i] = s[i]
OBVIOUS

LEMMA FrontIs ==
  ASSUME NEW S, NEW s \in Seq(S), s # <<>>
  PROVE  /\ Front(s) \in Seq(S) /\ Len(Front(s)) = Len(s) - 1
         /\ \A i \in 1..Len(s)-1 : Front(s)[i] = s[i]
         /\ Last(s) = s[Len(s)] /\ Last(s) \in S /\ Len(s) > 0
<1>1. Len(s) > 0 /\ Len(s) \in Nat /\ Len(s) - 1 \in 0..Len(s)
  OBVIOUS
<1>2. Last(s) = s[Len(s)] /\ Last(s) \in S
  BY <1>1 DEF Last
<1>3. Front(s) = SubSeq(s, 1, Len(s) - 1)
  BY DEF Front
<1> DEFINE m == Len(s) - 1
<1>4. m \in 0..Len(s)
  BY <1>1
<1> HIDE DEF m
<1>5. /\ SubSeq(s, 1, m) \in Seq(S)
      /\ Len(SubSeq(s, 1, m)) = m
      /\ \A i \in 1..m : SubSeq(s, 1, m)[i] = s[i]
  BY <1>4, Cut
<1> QED BY <1>1, <1>2, <1>3, <1>5 DEF m

LEMMA Join ==
  ASSUME NEW S, NEW s \in Seq(S), NEW t \in Seq(S)
  PROVE  s \o t \in Seq(S) /\ Len(s \o t) = Len(s) + Len(t)
OBVIOUS

LEMMA Push ==
  ASSUME NEW S, NEW s \in Seq(S), NEW e \in S
  PROVE  /\ Append(s, e) \in Seq(S) /\ Len(Append(s, e)) = Len(s) + 1
         /\ \A i \in 1..Len(s) : Append(s, e)[i] = s[i]
         /\ Append(s, e)[Len(s) + 1] = e
OBVIOUS

(* Values of the program on top of a frame: no table of a LuaTable.        *)
LEMMA Topped ==
  ASSUME NEW s \in Seq(Slots), NEW more \in Seq(Values), Len(more) > 0
  PROVE  /\ s \o more \in Seq(Slots) /\ Len(s \o more) > Len(s)
         /\ \A t \in Tables : ~LiesAt(s \o more, Len(s \o more), t)
<1>1. more \in Seq(Slots) /\ Len(more) \in Nat /\ Len(s) \in Nat
  BY DEF Slots
<1>2. s \o more \in Seq(Slots) /\ Len(s \o more) = Len(s) + Len(more)
  BY <1>1, Join
<1>3. (s \o more)[Len(s) + Len(more)] = more[Len(more)] /\ more[Len(more)] \in Values
  BY <1>1
<1>4. \A t \in Tables : more[Len(more)] # t
  BY <1>3, HostAssumption
<1> QED BY <1>1, <1>2, <1>3, <1>4 DEF LiesAt

LEMMA Update ==
  ASSUME NEW S, NEW s \in Seq(S), NEW n \in 1..Len(s), NEW e \in S
  PROVE  /\ [s EXCEPT ![n] = e] \in Seq(S) /\ Len([s EXCEPT ![n] = e]) = Len(s)
         /\ \A i \in 1..Len(s) : [s EXCEPT ![n] = e][i] = IF i = n THEN e ELSE s[i]
OBVIOUS

(* What holds where Java code runs, and where Lua code runs.               *)
LEMMA JavaFrame ==
  ASSUME IInv, JavaRuns
  PROVE  /\ Depth \in Nat \ {0} /\ Depth = Len(calls) + 1 /\ Len(calls) \in Nat
         /\ frames[Depth] \in Frames /\ Stk \in Seq(Slots) /\ Len(Stk) \in Nat
<1>1. frames \in Seq(Frames) /\ calls \in Seq(Calls) /\ Depth > 0 /\ Depth = Len(calls) + 1
  BY DEF IInv, TypeInv, HostTypeOK, Frames, Slots, JavaRuns
<1>2. Len(calls) \in Nat /\ Depth \in Nat \ {0} /\ frames[Depth] \in Frames
  BY <1>1 DEF Depth
<1> QED BY <1>1, <1>2 DEF Frames, Stk

LEMMA LuaFrame ==
  ASSUME IInv, LuaRuns
  PROVE  /\ Depth \in Nat \ {0} /\ Depth = Len(calls) /\ calls # <<>>
         /\ frames[Depth] \in Frames /\ Stk \in Seq(Slots)
         /\ Last(calls) = calls[Depth] /\ Last(calls) \in Calls
         /\ Last(calls).base \in 0..Len(Stk)-1
         /\ Below \in Seq(Slots) /\ Len(Below) = Last(calls).base
         /\ \A i \in 1..Len(Below) : Below[i] = Stk[i]
<1>0. /\ frames \in Seq(Frames) /\ calls \in Seq(Calls) /\ Depth > 0 /\ Depth = Len(calls)
      /\ \A i \in 1..Len(calls) : calls[i].base < Len(frames[i].stk)
  BY DEF IInv, TypeInv, HostTypeOK, Frames, Slots, LuaRuns
<1>5. Depth \in Nat \ {0} /\ calls # <<>> /\ frames[Depth] \in Frames /\ Depth \in 1..Len(calls)
  BY <1>0 DEF Depth
<1>1. /\ Depth \in Nat \ {0} /\ Depth = Len(calls) /\ calls # <<>>
      /\ frames[Depth] \in Frames /\ Stk \in Seq(Slots)
      /\ calls \in Seq(Calls) /\ calls[Depth].base < Len(Stk)
  BY <1>0, <1>5 DEF Frames, Stk
<1>2. Last(calls) = calls[Depth] /\ Last(calls) \in Calls
  BY <1>1, FrontIs
<1>3. Last(calls).base \in 0..Len(Stk)-1
  BY <1>1, <1>2 DEF Calls
<1>4. Last(calls).base \in 0..Len(Stk)
  BY <1>1, <1>3
<1> QED BY <1>1, <1>2, <1>3, <1>4, Cut DEF Below

----------------------------------------------------------------------------
(* An operation of Java code, or the end of a call, that leaves its frame  *)
(* as high as it says, with the table of its fresh LuaTable on top.        *)
LEMMA LeavesInv ==
  ASSUME IInv, NEW stk \in Seq(Slots), NEW fresh \in SUBSET Tables,
         NEW outcome, NEW before \in Nat, NEW gives,
         Leaves(stk, fresh, outcome, before, gives), made' \subseteq Tables,
         \/ JavaRuns /\ UNCHANGED calls
         \/ LuaRuns /\ calls' = Front(calls),
         outcome \in Clean => Len(stk) = before + gives,
         outcome \notin Clean => Len(stk) > before,
         \A t \in Tables : t \in fresh <=> LiesAt(stk, Len(stk), t)
  PROVE  IInv'
<1> DEFINE D == Depth
           f == [stk |-> stk, fresh |-> fresh]
<1>1. /\ D \in Nat \ {0} /\ D = Len(frames) /\ frames \in Seq(Frames) /\ calls \in Seq(Calls)
      /\ \A i \in 1..Len(calls) : calls[i].base < Len(frames[i].stk)
      /\ frames[D] \in Frames
  BY JavaFrame, LuaFrame DEF IInv, TypeInv, HostTypeOK, Frames, Slots, Depth
<1>2. frames' = [frames EXCEPT ![D] = f] /\ jvm' = jvm
      /\ last' = [outcome |-> outcome, before |-> before, gives |-> gives]
  BY DEF Leaves
<1>3. f \in Frames /\ f.stk = stk /\ f.fresh = fresh
  BY DEF Frames
<1> HIDE DEF f
<1>4. /\ frames' \in Seq(Frames) /\ Len(frames') = D
      /\ \A i \in 1..D : frames'[i] = IF i = D THEN f ELSE frames[i]
  <2> HIDE DEF D
  <2> QED BY <1>1, <1>2, <1>3
<1>5. /\ calls' \in Seq(Calls) /\ Len(calls') = D - 1
      /\ \A i \in 1..D-1 : calls'[i] = calls[i] /\ i \in 1..Len(calls)
  <2>1. CASE JavaRuns /\ UNCHANGED calls
    BY <1>1, <2>1, JavaFrame
  <2>2. CASE LuaRuns /\ calls' = Front(calls)
    BY <1>1, <2>2, LuaFrame, FrontIs
  <2> QED BY <2>1, <2>2
<1>6. TypeInv'
  <2>1. Depth' = D
    BY <1>4 DEF Depth
  <2>2. ASSUME NEW i \in 1..D-1 PROVE calls'[i].base < Len(frames'[i].stk)
    <3> HIDE DEF D
    <3>1. i \in 1..D /\ i # D /\ i \in 1..Len(calls) /\ calls'[i] = calls[i]
      BY <1>1, <1>5
    <3>2. frames'[i] = frames[i]
      BY <1>4, <3>1
    <3> QED BY <1>1, <3>1, <3>2
  <2>3. jvm' \in {"up", "aborted", "closed"}
    BY <1>2 DEF IInv, TypeInv, HostTypeOK
  <2> QED BY <1>1, <1>4, <1>5, <2>1, <2>2, <2>3 DEF TypeInv, HostTypeOK, Frames, Slots
<1>7. Handles'
  <2> SUFFICES ASSUME NEW i \in 1..D, NEW t \in Tables
               PROVE  t \in frames'[i].fresh <=> LiesAt(frames'[i].stk, Height(i)', t)
    BY <1>4 DEF Handles, Depth, LiesAt
  <2>1. CASE i = D
    <3>1. frames'[i] = f /\ Height(i)' = Len(stk)
      BY <1>1, <1>3, <1>4, <1>5, <2>1 DEF Height
    <3> QED BY <1>3, <3>1
  <2>2. CASE i # D
    <3>1. i \in 1..D-1
      BY <1>1, <2>2
    <3>2. frames'[i] = frames[i]
      BY <1>4, <2>2
    <3>3. i \in 1..Len(calls) /\ calls'[i] = calls[i] /\ i <= Len(calls) /\ i <= Len(calls')
      BY <1>1, <1>5, <3>1
    <3>4. Height(i)' = Height(i)
      BY <3>2, <3>3 DEF Height
    <3> QED BY <1>1, <3>2, <3>4 DEF IInv, Handles
  <2> QED BY <2>1, <2>2
<1>8. Balanced'
  <2>1. Stk' = stk /\ last'.outcome = outcome /\ last'.gives = gives /\ last'.before = before
    BY <1>1, <1>2, <1>3, <1>4 DEF Stk, Depth
  <2> QED BY <2>1 DEF Balanced
<1> QED BY <1>6, <1>7, <1>8 DEF IInv

(* What a LuaTable of the running Java code finds.                         *)
LEMMA TopHandle ==
  ASSUME IInv, JavaRuns, NEW t \in Tables
  PROVE  t \in frames[Depth].fresh <=> LiesAt(Stk, Len(Stk), t)
<1>1. Depth \in 1..Depth /\ Height(Depth) = Len(Stk)
  BY JavaFrame DEF Height, Stk
<1> QED BY <1>1 DEF IInv, Handles, Stk

(* An operation that leaves the stack as it found it, or with more on it   *)
(* after a failure.                                                        *)
LEMMA DoneInv ==
  ASSUME IInv, JavaRuns, NEW stk, NEW outcome, Done(stk, outcome),
         \/ outcome \in Clean /\ stk = Stk
         \/ /\ outcome \notin Clean
            /\ \E more \in Seq(Values) : Len(more) > 0 /\ stk = Stk \o more
  PROVE  IInv'
<1>1. /\ Leaves(stk, StillFresh(outcome), outcome, Len(Stk), 0)
      /\ UNCHANGED calls /\ made' = made /\ Len(Stk) \in Nat /\ Stk \in Seq(Slots)
      /\ frames[Depth].fresh \in SUBSET Tables
  BY JavaFrame DEF Done, Ends, Frames
<1>2. made' \subseteq Tables
  BY <1>1 DEF IInv, TypeInv, HostTypeOK
<1>3. CASE outcome \in Clean /\ stk = Stk
  <2>1. StillFresh(outcome) = frames[Depth].fresh
    BY <1>3 DEF StillFresh
  <2>2. \A t \in Tables : t \in StillFresh(outcome) <=> LiesAt(stk, Len(stk), t)
    BY <1>3, <2>1, TopHandle
  <2> QED BY <1>1, <1>2, <1>3, <2>1, <2>2, LeavesInv
<1>4. ASSUME outcome \notin Clean, NEW more \in Seq(Values), Len(more) > 0, stk = Stk \o more
      PROVE  IInv'
  <2>1. StillFresh(outcome) = {}
    BY <1>4 DEF StillFresh
  <2>2. /\ stk \in Seq(Slots) /\ Len(stk) > Len(Stk)
        /\ \A t \in Tables : ~LiesAt(stk, Len(stk), t)
    BY <1>1, <1>4, Topped
  <2>3. \A t \in Tables : t \in StillFresh(outcome) <=> LiesAt(stk, Len(stk), t)
    BY <2>1, <2>2
  <2> QED BY <1>1, <1>2, <1>4, <2>1, <2>2, <2>3, LeavesInv
<1> QED BY <1>3, <1>4

(* The state of a new interpreter, or what is left of one.                 *)
LEMMA EmptyInv ==
  ASSUME Empty(frames, made, calls, last), jvm \in {"up", "aborted", "closed"}
  PROVE  IInv
<1> DEFINE f == Frame(<<>>)
<1>1. f \in Frames /\ f.fresh = {} /\ f.stk = <<>>
  BY DEF Frame, Frames
<1>2. frames = <<f>> /\ made = {} /\ calls = <<>> /\ last = NoOp
  BY DEF Empty
<1> HIDE DEF f
<1>3. frames \in Seq(Frames) /\ calls \in Seq(Calls) /\ Depth = 1 /\ Len(calls) = 0 /\ frames[1] = f
  BY <1>1, <1>2 DEF Depth
<1>4. TypeInv
  BY <1>2, <1>3 DEF TypeInv, HostTypeOK, Frames, Slots
<1>5. Handles
  BY <1>1, <1>3 DEF Handles, Height, LiesAt
<1>6. Balanced
  BY <1>2 DEF Balanced, NoOp
<1> QED BY <1>4, <1>5, <1>6 DEF IInv

LEMMA EndInv == Abort \/ Close => IInv'
<1>1. Empty(frames, made, calls, last) /\ jvm \in {"up", "aborted", "closed"} => IInv
  BY EmptyInv
<1>2. (Empty(frames, made, calls, last) /\ jvm \in {"up", "aborted", "closed"})' => IInv'
  BY <1>1, PTL
<1> QED BY <1>2 DEF Abort, Close, Empty

LEMMA GlobalsInv ==
  ASSUME IInv, NEW v \in Values, NEW t \in Getters,
         SetGlobal \/ GetGlobal(v, t) \/ GetGlobalNoTable(v) \/ TableGet(t, v) \/ ExecFails
  PROVE  IInv'
<1>1. JavaRuns
  BY DEF SetGlobal, GetGlobal, GetGlobalNoTable, TableGet, ExecFails
<1>2. /\ Stk \in Seq(Slots) /\ <<v>> \in Seq(Values) /\ Len(<<v>>) > 0
      /\ Append(Stk, v) = Stk \o <<v>>
  BY <1>1, JavaFrame
<1>3. "ok" \in Clean /\ "FunctionCallException" \in Clean /\ "LuaException" \notin Clean
  BY DEF Clean
<1>4. \/ Done(Stk, "ok") \/ Done(Stk, "FunctionCallException")
      \/ Done(Append(Stk, v), "LuaException") \/ Abort
  BY DEF SetGlobal, GetGlobal, GetGlobalNoTable, TableGet, ExecFails
<1>5. CASE Done(Stk, "ok") \/ Done(Stk, "FunctionCallException")
  BY <1>1, <1>3, <1>5, DoneInv
<1>6. CASE Done(Append(Stk, v), "LuaException")
  <2>1. \E more \in Seq(Values) : Len(more) > 0 /\ Append(Stk, v) = Stk \o more
    BY <1>2
  <2> QED BY <1>1, <1>3, <1>6, <2>1, DoneInv
<1> QED BY <1>4, <1>5, <1>6, EndInv

(* A new LuaTable is the fresh one of its frame.                           *)
LEMMA GetGlobalTableInv ==
  ASSUME IInv, NEW t \in Tables, GetGlobalTable(t)
  PROVE  IInv'
<1> DEFINE stk == Append(Stk, t)
<1>1. /\ JavaRuns /\ Leaves(stk, {t}, "ok", Len(Stk), 1)
      /\ UNCHANGED calls /\ made' = made \cup {t}
  BY DEF GetGlobalTable
<1>2. Stk \in Seq(Slots) /\ Len(Stk) \in Nat /\ t \in Slots
  BY <1>1, JavaFrame DEF Slots
<1>3. stk \in Seq(Slots) /\ Len(stk) = Len(Stk) + 1 /\ stk[Len(stk)] = t
  BY <1>2, Push
<1> HIDE DEF stk
<1>4. \A u \in Tables : u \in {t} <=> LiesAt(stk, Len(stk), u)
  BY <1>2, <1>3 DEF LiesAt
<1>5. made' \subseteq Tables
  BY <1>1 DEF IInv, TypeInv, HostTypeOK
<1>6. "ok" \in Clean /\ {t} \in SUBSET Tables
  BY DEF Clean
<1> QED BY <1>1, <1>2, <1>3, <1>4, <1>5, <1>6, LeavesInv

----------------------------------------------------------------------------
(* Lua code starts: the frame keeps its values below the new ones.         *)
LEMMA EnterInv ==
  ASSUME IInv, JavaRuns, NEW more \in Seq(Values), Len(more) > 0, NEW types \in Seq(JavaTypes),
         Enter(Stk \o more, types)
  PROVE  IInv'
<1> DEFINE D == Depth
           stk == Stk \o more
           c == [base |-> Len(Stk), types |-> types]
<1>1. /\ D \in Nat \ {0} /\ D = Len(frames) /\ frames \in Seq(Frames) /\ calls \in Seq(Calls)
      /\ D = Len(calls) + 1 /\ frames[D] \in Frames /\ frames[D].stk = Stk
      /\ \A i \in 1..Len(calls) : calls[i].base < Len(frames[i].stk)
  BY JavaFrame DEF IInv, TypeInv, HostTypeOK, Frames, Slots, Depth, Stk
<1>2. /\ Stk \in Seq(Slots) /\ Len(Stk) \in Nat
      /\ stk \in Seq(Slots) /\ Len(stk) > Len(Stk)
      /\ \A i \in 1..Len(Stk) : stk[i] = Stk[i]
  <2>1. Stk \in Seq(Slots) /\ Len(Stk) \in Nat
    BY JavaFrame
  <2>2. \A i \in 1..Len(Stk) : stk[i] = Stk[i]
    BY <2>1
  <2> QED BY <2>1, <2>2, Topped
<1>3. frames' = [frames EXCEPT ![D].stk = stk] /\ calls' = Append(calls, c)
      /\ last' = NoOp /\ jvm' = jvm /\ made' = made
  BY DEF Enter
<1>4. c \in Calls /\ c.base = Len(Stk)
  BY <1>2 DEF Calls
<1> DEFINE f == [frames[D] EXCEPT !.stk = stk]
<1>5. /\ f \in Frames /\ f.stk = stk
      /\ f.fresh = frames[D].fresh
  BY <1>1, <1>2 DEF Frames
<1>6. frames' = [frames EXCEPT ![D] = f]
  BY <1>3
<1> HIDE DEF D, stk, c, f
<1>7. /\ frames' \in Seq(Frames) /\ Len(frames') = D
      /\ \A i \in 1..D : frames'[i] = IF i = D THEN f ELSE frames[i]
  <2>1. D \in 1..Len(frames) /\ Len(frames) = D
    BY <1>1
  <2>2. frames \in Seq(Frames) /\ f \in Frames
    BY <1>1, <1>5
  <2>3. /\ [frames EXCEPT ![D] = f] \in Seq(Frames) /\ Len([frames EXCEPT ![D] = f]) = Len(frames)
        /\ \A i \in 1..Len(frames) : [frames EXCEPT ![D] = f][i] = IF i = D THEN f ELSE frames[i]
    BY <2>1, <2>2, Update
  <2> QED BY <1>6, <2>1, <2>3
<1>8. /\ calls' \in Seq(Calls) /\ Len(calls') = D
      /\ \A i \in 1..Len(calls) : calls'[i] = calls[i]
      /\ calls'[D] = c
  BY <1>1, <1>3, <1>4, Push
<1>9. TypeInv'
  <2>1. Depth' = D
    BY <1>7 DEF Depth
  <2>2. ASSUME NEW i \in 1..D PROVE calls'[i].base < Len(frames'[i].stk)
    <3>1. CASE i = D
      BY <1>2, <1>4, <1>5, <1>7, <1>8, <3>1
    <3>2. CASE i # D
      <4>1. i \in 1..Len(calls)
        BY <1>1, <3>2
      <4>2. frames'[i] = frames[i] /\ calls'[i] = calls[i]
        BY <1>7, <1>8, <3>2, <4>1
      <4> QED BY <1>1, <4>1, <4>2
    <3> QED BY <3>1, <3>2
  <2>3. jvm' \in {"up", "aborted", "closed"}
    BY <1>3 DEF IInv, TypeInv, HostTypeOK
  <2>4. made' \subseteq Tables
    BY <1>3 DEF IInv, TypeInv, HostTypeOK
  <2> QED BY <1>1, <1>7, <1>8, <2>1, <2>2, <2>3, <2>4 DEF TypeInv, HostTypeOK, Frames, Slots
<1>10. Handles'
  <2> SUFFICES ASSUME NEW i \in 1..D, NEW t \in Tables
               PROVE  t \in frames'[i].fresh <=> LiesAt(frames'[i].stk, Height(i)', t)
    BY <1>7 DEF Handles, Depth, LiesAt
  <2>0. Height(i)' = calls'[i].base
    BY <1>1, <1>8 DEF Height
  <2>1. CASE i = D
    <3>1. frames'[i] = f /\ calls'[i] = c /\ Height(i)' = Len(Stk)
      BY <1>4, <1>7, <1>8, <2>0, <2>1
    <3>2. t \in f.fresh <=> LiesAt(Stk, Len(Stk), t)
      BY <1>5, TopHandle DEF D
    <3>3. LiesAt(Stk, Len(Stk), t) <=> LiesAt(stk, Len(Stk), t)
      BY <1>2 DEF LiesAt
    <3> QED BY <1>5, <3>1, <3>2, <3>3
  <2>2. CASE i # D
    <3>1. i \in 1..Len(calls) /\ i <= Len(calls)
      BY <1>1, <2>2
    <3>2. frames'[i] = frames[i] /\ calls'[i] = calls[i]
      BY <1>7, <1>8, <2>2, <3>1
    <3>3. Height(i) = calls[i].base /\ i \in 1..Depth
      BY <3>1 DEF Height, D
    <3> QED BY <2>0, <3>2, <3>3 DEF IInv, Handles
  <2> QED BY <2>1, <2>2
<1>11. Balanced'
  BY <1>3 DEF Balanced, NoOp
<1> QED BY <1>9, <1>10, <1>11 DEF IInv

LEMMA ExecInv ==
  ASSUME IInv, Exec
  PROVE  IInv'
<1>1. JavaRuns /\ Stk \in Seq(Slots) /\ Enter(Append(Stk, "function"), <<>>)
  BY JavaFrame DEF Exec
<1>2. <<"function">> \in Seq(Values) /\ Len(<<"function">>) > 0 /\ <<>> \in Seq(JavaTypes)
  BY HostAssumption
<1>3. Append(Stk, "function") = Stk \o <<"function">>
  BY <1>1
<1> DEFINE more == <<"function">>
<1>4. Enter(Stk \o more, <<>>)
  BY <1>1, <1>3
<1> HIDE DEF more
<1>5. more \in Seq(Values) /\ Len(more) > 0
  BY <1>2 DEF more
<1> QED BY <1>1, <1>2, <1>4, <1>5, EnterInv

LEMMA CallInv ==
  ASSUME IInv, NEW v \in Values, NEW args \in ArgLists, NEW types \in ResultLists,
         Call(v, args, types)
  PROVE  IInv'
<1> DEFINE bad == {i \in 1..Len(args) : args[i] = "unsupported"}
           pushed == IF bad = {} THEN args ELSE SubSeq(args, 1, Min(bad) - 1)
           stk == Append(Stk, v) \o pushed
<1>1. /\ JavaRuns /\ Stk \in Seq(Slots) /\ types \in Seq(JavaTypes)
      /\ args \in Seq(Values \cup {"unsupported"}) /\ Len(args) \in Nat
  BY JavaFrame, HostAssumption DEF Call
<1>2. pushed \in Seq(Values)
  <2>1. CASE bad = {}
    <3>1. \A i \in 1..Len(args) : args[i] \in Values
      BY <1>1, <2>1
    <3> QED BY <1>1, <2>1, <3>1
  <2>2. CASE bad # {}
    <3> DEFINE m == Min(bad) - 1
    <3>1. bad \in SUBSET Nat
      OBVIOUS
    <3>2. Min(bad) \in bad /\ \A i \in bad : Min(bad) <= i
      <4> HIDE DEF bad
      <4> QED BY <2>2, <3>1, MinIs
    <3>3. bad \subseteq 1..Len(args)
      OBVIOUS
    <3>4. m \in 0..Len(args) /\ \A i \in 1..m : i \in 1..Len(args) /\ i \notin bad
      <4> DEFINE b == Min(bad)
      <4>1. b \in 1..Len(args) /\ (\A i \in bad : b <= i) /\ m = b - 1
        BY <3>2, <3>3
      <4> HIDE DEF bad, b, m
      <4>2. m \in 0..Len(args)
        BY <1>1, <4>1
      <4>3. ASSUME NEW i \in 1..m PROVE i \in 1..Len(args) /\ i \notin bad
        BY <1>1, <4>1
      <4> QED BY <4>2, <4>3
    <3>5. \A i \in 1..m : args[i] \in Values
      BY <1>1, <3>4
    <3>6. SubSeq(args, 1, m) \in Seq(Values)
      <4> HIDE DEF m
      <4> QED BY <1>1, <3>4, <3>5
    <3> QED BY <2>2, <3>6
  <2> QED BY <2>1, <2>2
<1> DEFINE more == <<v>> \o pushed
<1>3. stk = Stk \o more /\ more \in Seq(Values) /\ Len(more) > 0
  <2> HIDE DEF pushed
  <2>1. Append(Stk, v) \o pushed = Stk \o (<<v>> \o pushed)
    BY <1>1, <1>2
  <2> QED BY <1>2, <2>1
<1>4. \/ Done(stk, "IllegalArgumentException")
      \/ Enter(stk, types)
      \/ Done(Stk, "FunctionCallException")
  BY DEF Call
<1>5. "IllegalArgumentException" \notin Clean /\ "FunctionCallException" \in Clean
  BY DEF Clean
<1> HIDE DEF more, stk
<1>6. CASE Done(stk, "IllegalArgumentException")
  BY <1>1, <1>3, <1>5, <1>6, DoneInv
<1>7. CASE Enter(stk, types)
  BY <1>1, <1>3, <1>7, EnterInv
<1>8. CASE Done(Stk, "FunctionCallException")
  BY <1>1, <1>5, <1>8, DoneInv
<1> QED BY <1>4, <1>6, <1>7, <1>8

(* The end of a call that leaves the frame as it was before the call, or   *)
(* higher after a failure.                                                 *)
LEMMA EndsInv ==
  ASSUME IInv, LuaRuns, NEW stk, NEW outcome,
         Ends(stk, outcome, Last(calls).base), calls' = Front(calls),
         \/ outcome \in Clean /\ stk = Below
         \/ /\ outcome \notin Clean
            /\ \E more \in Seq(Values) : Len(more) > 0 /\ stk = Below \o more
  PROVE  IInv'
<1> DEFINE base == Last(calls).base
<1>1. /\ base \in Nat /\ Len(Below) = base /\ Depth = Len(calls) /\ Depth \in Nat \ {0}
      /\ Last(calls) = calls[Depth] /\ Below \in Seq(Slots)
      /\ \A i \in 1..Len(Below) : Below[i] = Stk[i]
      /\ frames[Depth].fresh \in SUBSET Tables
  BY LuaFrame DEF Frames
<1>2. Height(Depth) = base /\ Depth \in 1..Depth
  BY <1>1 DEF Height
<1>3. Leaves(stk, StillFresh(outcome), outcome, base, 0) /\ made' = made
  BY DEF Ends
<1>4. made' \subseteq Tables
  BY <1>3 DEF IInv, TypeInv, HostTypeOK
<1> HIDE DEF base
<1>5. CASE outcome \in Clean /\ stk = Below
  <2>1. StillFresh(outcome) = frames[Depth].fresh
    BY <1>5 DEF StillFresh
  <2>2. ASSUME NEW t \in Tables  PROVE t \in StillFresh(outcome) <=> LiesAt(stk, Len(stk), t)
    <3>1. t \in frames[Depth].fresh <=> LiesAt(Stk, base, t)
      BY <1>2 DEF IInv, Handles, Stk
    <3>2. LiesAt(Stk, base, t) <=> LiesAt(Below, base, t)
      BY <1>1 DEF LiesAt
    <3> QED BY <1>1, <1>5, <2>1, <3>1, <3>2
  <2> QED BY <1>1, <1>3, <1>4, <1>5, <2>1, <2>2, LeavesInv
<1>6. ASSUME outcome \notin Clean, NEW more \in Seq(Values), Len(more) > 0, stk = Below \o more
      PROVE  IInv'
  <2>1. StillFresh(outcome) = {}
    BY <1>6 DEF StillFresh
  <2>2. /\ stk \in Seq(Slots) /\ Len(stk) > base
        /\ \A t \in Tables : ~LiesAt(stk, Len(stk), t)
    BY <1>1, <1>6, Topped
  <2>3. \A t \in Tables : t \in StillFresh(outcome) <=> LiesAt(stk, Len(stk), t)
    BY <2>1, <2>2
  <2> QED BY <1>1, <1>3, <1>4, <1>6, <2>1, <2>2, <2>3, LeavesInv
<1> QED BY <1>5, <1>6

LEMMA LuaReturnsInv ==
  ASSUME IInv, LuaRuns, NEW res \in ValueLists(Len(Last(calls).types)), LuaReturns(res)
  PROVE  IInv'
<1> DEFINE types == Last(calls).types
           n == Len(types)
           bad == {i \in 1..n : ~ToObject(res[n + 1 - i], types[i])}
           outcome == IF bad = {} THEN "ok" ELSE Failure(types[Min(bad)])
           stk == PopResults(Below, res, types)
<1>1. types \in Seq(JavaTypes) /\ n \in Nat /\ Below \in Seq(Slots)
  BY LuaFrame DEF Calls
<1>2. res \in Seq(Values) /\ Len(res) = n
  BY <1>1 DEF ValueLists
<1>3. Ends(stk, outcome, Last(calls).base) /\ calls' = Front(calls)
  BY DEF LuaReturns
<1> DEFINE left == IF bad = {} THEN 0 ELSE n + 1 - Min(bad)
<1>4. stk = Below \o SubSeq(res, 1, left)
  BY DEF PopResults
<1>5. left \in 0..n /\ (bad # {} => left > 0)
  <2>1. CASE bad # {}
    <3>1. bad \in SUBSET Nat
      BY <1>1
    <3>2. Min(bad) \in bad
      <4> HIDE DEF bad
      <4> QED BY <2>1, <3>1, MinIs
    <3>3. Min(bad) \in 1..n /\ left = n + 1 - Min(bad)
      BY <2>1, <3>2
    <3> QED BY <1>1, <3>3
  <2>2. CASE bad = {}
    <3>1. left = 0
      BY <2>2
    <3> HIDE DEF left, bad, n
    <3> QED BY <1>1, <2>2, <3>1
  <2> QED BY <2>1, <2>2
<1>6. SubSeq(res, 1, left) \in Seq(Values) /\ Len(SubSeq(res, 1, left)) = left
  <2> HIDE DEF left, n
  <2> QED BY <1>2, <1>5, Cut
<1>7. CASE bad = {}
  <2>1. left = 0 /\ outcome \in Clean
    BY <1>7 DEF Clean
  <2> HIDE DEF left, bad, stk, outcome
  <2>2. SubSeq(res, 1, left) = <<>>
    BY <1>2, <1>6, <2>1
  <2>3. stk = Below \o <<>>
    BY <1>4, <2>2
  <2>4. stk = Below
    BY <1>1, <2>3
  <2> QED BY <1>3, <2>1, <2>4, EndsInv
<1>8. CASE bad # {}
  <2>1. outcome \notin Clean
    BY <1>8 DEF Clean, Failure
  <2> HIDE DEF left, bad, stk, outcome
  <2>2. SubSeq(res, 1, left) \in Seq(Values) /\ Len(SubSeq(res, 1, left)) > 0
    BY <1>5, <1>6, <1>8
  <2> QED BY <1>3, <1>4, <2>1, <2>2, EndsInv
<1> QED BY <1>7, <1>8

LEMMA LuaFailsInv ==
  ASSUME IInv, NEW e \in Values, LuaFails(e)
  PROVE  IInv'
<1>1. LuaRuns /\ calls' = Front(calls)
  BY DEF LuaFails
<1>2. /\ Below \in Seq(Slots) /\ <<e>> \in Seq(Values) /\ Len(<<e>>) > 0
      /\ Append(Below, e) = Below \o <<e>>
  BY <1>1, LuaFrame
<1>3. "FunctionCallException" \in Clean /\ "LuaException" \notin Clean
  BY DEF Clean
<1>4. CASE Ends(Below, "FunctionCallException", Last(calls).base)
  BY <1>1, <1>3, <1>4, EndsInv
<1>5. CASE Ends(Append(Below, e), "LuaException", Last(calls).base)
  <2>1. \E more \in Seq(Values) : Len(more) > 0 /\ Append(Below, e) = Below \o more
    BY <1>2
  <2> QED BY <1>1, <1>3, <1>5, <2>1, EndsInv
<1> QED BY <1>4, <1>5 DEF LuaFails

----------------------------------------------------------------------------
(* A Java method starts in a frame of its own, or the process ends.        *)
LEMMA InvokeInv ==
  ASSUME IInv, LuaRuns, NEW stk \in Seq(Values), NEW params \in ParamLists,
         Invoke(stk, params)
  PROVE  IInv'
<1>1. CASE Abort
  BY <1>1, EndInv
<1>2. CASE /\ frames' = Append(frames, Frame(stk))
           /\ last' = NoOp
           /\ UNCHANGED <<made, calls, jvm>>
  <2> DEFINE D == Depth
             f == Frame(stk)
  <2>1. /\ D \in Nat \ {0} /\ D = Len(frames) /\ frames \in Seq(Frames) /\ calls \in Seq(Calls)
        /\ D = Len(calls)
        /\ \A i \in 1..Len(calls) : calls[i].base < Len(frames[i].stk)
    BY LuaFrame DEF IInv, TypeInv, HostTypeOK, Frames, Slots, Depth
  <2>2. /\ f \in Frames /\ f.fresh = {} /\ f.stk = stk
        /\ \A t \in Tables : ~LiesAt(stk, Len(stk), t)
    <3>1. f \in Frames /\ f.fresh = {} /\ f.stk = stk
      BY DEF Frame, Frames, Slots
    <3>2. \A t \in Tables : ~LiesAt(stk, Len(stk), t)
      BY HostAssumption DEF LiesAt
    <3> QED BY <3>1, <3>2
  <2> HIDE DEF D, f
  <2>3. /\ frames' \in Seq(Frames) /\ Len(frames') = D + 1
        /\ \A i \in 1..D : frames'[i] = frames[i]
        /\ frames'[D + 1] = f
    <3>1. frames' = Append(frames, f)
      BY <1>2 DEF f
    <3>2. frames \in Seq(Frames) /\ f \in Frames /\ Len(frames) = D
      BY <2>1, <2>2
    <3> QED BY <3>1, <3>2, Push
  <2>4. TypeInv'
    <3>1. Depth' = D + 1 /\ calls' = calls
      BY <1>2, <2>3 DEF Depth
    <3>2. \A i \in 1..Len(calls') : calls'[i].base < Len(frames'[i].stk)
      BY <2>1, <2>3, <3>1
    <3>3. jvm' \in {"up", "aborted", "closed"} /\ made' \subseteq Tables
      BY <1>2 DEF IInv, TypeInv, HostTypeOK
    <3> QED BY <2>1, <2>3, <3>1, <3>2, <3>3 DEF TypeInv, HostTypeOK, Frames, Slots
  <2>5. Handles'
    <3> SUFFICES ASSUME NEW i \in 1..D+1, NEW t \in Tables
                 PROVE  t \in frames'[i].fresh <=> LiesAt(frames'[i].stk, Height(i)', t)
      BY <2>3 DEF Handles, Depth, LiesAt
    <3>1. CASE i = D + 1
      <4>1. frames'[i] = f /\ Height(i)' = Len(stk)
        BY <1>2, <2>1, <2>2, <2>3, <3>1 DEF Height
      <4> QED BY <2>2, <4>1
    <3>2. CASE i # D + 1
      <4>1. i \in 1..D /\ frames'[i] = frames[i] /\ calls' = calls
        BY <1>2, <2>1, <2>3, <3>2
      <4>2. Height(i)' = Height(i) /\ i \in 1..Depth
        BY <4>1 DEF Height, D
      <4> QED BY <4>1, <4>2 DEF IInv, Handles
    <3> QED BY <3>1, <3>2
  <2>6. Balanced'
    BY <1>2 DEF Balanced, NoOp
  <2> QED BY <2>4, <2>5, <2>6 DEF IInv
<1> QED BY <1>1, <1>2 DEF Invoke

LEMMA UpcallsInv ==
  ASSUME IInv, NEW params \in ParamLists,
         NEW n \in Nat, NEW args \in ValueLists(n), NEW stk \in {<<>>, <<"thread">>},
         Upcall(args, params) \/ UpcallInCoroutine(stk, params)
  PROVE  IInv'
<1>1. args \in Seq(Values)
  BY DEF ValueLists
<1>2. stk \in Seq(Values)
  <2>1. "thread" \in Values
    BY HostAssumption
  <2>2. <<"thread">> \in Seq(Values) /\ <<>> \in Seq(Values)
    BY <2>1
  <2> QED BY <2>2
<1> QED BY <1>1, <1>2, InvokeInv DEF Upcall, UpcallInCoroutine

(* Its frame ends with it.                                                 *)
LEMMA JavaReturnsInv ==
  ASSUME IInv, NEW v, JavaReturns(v)
  PROVE  IInv'
<1>1. CASE Abort
  BY <1>1, EndInv
<1>2. CASE /\ frames' = Front(frames)
           /\ last' = NoOp
           /\ UNCHANGED <<made, calls, jvm>>
  <2> DEFINE D == Depth
  <2>1. /\ D \in Nat \ {0} /\ D > 1 /\ D = Len(frames) /\ frames \in Seq(Frames) /\ calls \in Seq(Calls)
        /\ D = Len(calls) + 1 /\ Len(calls) \in Nat /\ frames # <<>>
        /\ \A i \in 1..Len(calls) : calls[i].base < Len(frames[i].stk)
    <3>1. JavaRuns /\ D > 1
      BY DEF JavaReturns
    <3> QED BY <3>1, JavaFrame DEF IInv, TypeInv, HostTypeOK, Frames, Slots, Depth
  <2> HIDE DEF D
  <2>2. /\ frames' \in Seq(Frames) /\ Len(frames') = D - 1
        /\ \A i \in 1..D-1 : frames'[i] = frames[i]
    BY <1>2, <2>1, FrontIs
  <2>3. TypeInv'
    <3>1. Depth' = D - 1 /\ calls' = calls
      BY <1>2, <2>2 DEF Depth
    <3>2. \A i \in 1..Len(calls') : calls'[i].base < Len(frames'[i].stk)
      BY <2>1, <2>2, <3>1
    <3>3. jvm' \in {"up", "aborted", "closed"} /\ made' \subseteq Tables
      BY <1>2 DEF IInv, TypeInv, HostTypeOK
    <3> QED BY <2>1, <2>2, <3>1, <3>2, <3>3 DEF TypeInv, HostTypeOK, Frames, Slots
  <2>4. Handles'
    <3> SUFFICES ASSUME NEW i \in 1..D-1, NEW t \in Tables
                 PROVE  t \in frames'[i].fresh <=> LiesAt(frames'[i].stk, Height(i)', t)
      BY <2>2 DEF Handles, Depth, LiesAt
    <3>1. i \in 1..Depth /\ i <= Len(calls) /\ frames'[i] = frames[i] /\ calls' = calls
      BY <1>2, <2>1, <2>2 DEF D
    <3>2. Height(i)' = Height(i)
      BY <3>1 DEF Height
    <3> QED BY <3>1, <3>2 DEF IInv, Handles
  <2>5. Balanced'
    BY <1>2 DEF Balanced, NoOp
  <2> QED BY <2>3, <2>4, <2>5 DEF IInv
<1> QED BY <1>1, <1>2 DEF JavaReturns

----------------------------------------------------------------------------
LEMMA InitInv == Init => IInv
BY EmptyInv DEF Init

LEMMA NextInv == IInv /\ [Next]_vars => IInv'
<1> SUFFICES ASSUME IInv, [Next]_vars PROVE IInv'
  OBVIOUS
<1>1. CASE SetGlobal \/ ExecFails
  <2>1. "nil" \in Values /\ "String" \in Getters
    BY HostAssumption DEF Getters
  <2> QED BY <1>1, <2>1, GlobalsInv
<1>2. CASE \E v \in Values, t \in Getters : GetGlobal(v, t) \/ TableGet(t, v)
  BY <1>2, GlobalsInv
<1>3. CASE \E v \in Values : GetGlobalNoTable(v)
  <2>1. "String" \in Getters
    BY DEF Getters
  <2> QED BY <1>3, <2>1, GlobalsInv
<1>13. CASE \E t \in Tables : GetGlobalTable(t)
  BY <1>13, GetGlobalTableInv
<1>4. CASE Exec
  BY <1>4, ExecInv
<1>5. CASE \E v \in Values, args \in ArgLists, types \in ResultLists : Call(v, args, types)
  BY <1>5, CallInv
<1>6. CASE LuaRuns /\ \E res \in ValueLists(Len(Last(calls).types)) : LuaReturns(res)
  BY <1>6, LuaReturnsInv
<1>7. CASE \E e \in Values : LuaFails(e)
  BY <1>7, LuaFailsInv
<1>8. CASE \E params \in ParamLists, args \in UNION {ValueLists(n) : n \in 0..MaxArgs} :
             Upcall(args, params)
  <2>1. PICK params \in ParamLists, n \in 0..MaxArgs : \E args \in ValueLists(n) : Upcall(args, params)
    BY <1>8
  <2>2. n \in Nat /\ <<>> \in {<<>>, <<"thread">>}
    BY <2>1, HostAssumption
  <2> QED BY <2>1, <2>2, UpcallsInv
<1>9. CASE \E params \in ParamLists, stk \in {<<>>, <<"thread">>} : UpcallInCoroutine(stk, params)
  <2>1. 0 \in Nat /\ [i \in 1..0 |-> "nil"] \in ValueLists(0)
    BY DEF ValueLists
  <2> QED BY <1>9, <2>1, UpcallsInv
<1>10. CASE \E v \in Values \cup {"unsupported"} : JavaReturns(v)
  BY <1>10, JavaReturnsInv
<1>11. CASE JavaThrows \/ Close
  BY <1>11, EndInv DEF JavaThrows
<1>12. CASE UNCHANGED vars
  <2>1. UNCHANGED <<frames, made, calls, last, jvm>>
    BY <1>12 DEF vars
  <2> QED BY <2>1 DEF IInv, TypeInv, HostTypeOK, Handles, Balanced, Height, JavaRuns, Depth, Stk
<1> QED BY <1>1, <1>2, <1>3, <1>4, <1>5, <1>6, <1>7, <1>8, <1>9, <1>10, <1>11, <1>12, <1>13 DEF Next

(* The invariant: types, the tables of the handles in every frame, and the *)
(* height that each operation leaves.                                      *)
THEOREM Invariant == Spec => []IInv
<1>1. IInv /\ [Next]_vars => IInv'
  BY NextInv
<1> QED BY InitInv, <1>1, PTL DEF Spec

(* Frames and protected calls alternate, and a call that is in progress    *)
(* returns to a height that the frame below it still has.                  *)
THEOREM TypeCorrect == Spec => []HostTypeOK
<1>1. IInv => HostTypeOK
  BY DEF IInv, TypeInv
<1> QED BY Invariant, <1>1, PTL

(* An operation that succeeds, or that fails with the error of the Lua     *)
(* code, leaves the stack of its frame as high as it found it, or one      *)
(* higher when it is getGlobalTable, whatever Lua and Java have called in  *)
(* between; one that fails in a conversion leaves the stack higher.        *)
THEOREM OperationsBalance == Spec => []Balanced
<1>1. IInv => Balanced
  BY DEF IInv
<1> QED BY Invariant, <1>1, PTL

(* Which of all LuaTables made so far reads the table it was made for: the *)
(* latest of the frame that runs, unless a conversion in this frame has    *)
(* failed since, and no other, whatever calls and callbacks were made.     *)
THEOREM FreshTableRead == Spec => []HandlesRead
<1>1. IInv => HandlesRead
  <2> SUFFICES ASSUME IInv, JavaRuns, NEW t \in made
               PROVE  Receiver = t <=> t \in frames[Depth].fresh
    BY DEF HandlesRead
  <2>1. t \in Tables /\ Stk \in Seq(Slots)
    BY JavaFrame DEF IInv, TypeInv, HostTypeOK
  <2>2. t \in frames[Depth].fresh <=> LiesAt(Stk, Len(Stk), t)
    BY <2>1, TopHandle
  <2>3. t \notin {"nil", "function"}
    BY <2>1, HostAssumption DEF LuaTypes
  <2>4. Receiver = t <=> LiesAt(Stk, Len(Stk), t)
    BY <2>1, <2>3 DEF Receiver, LiesAt, Last
  <2> QED BY <2>2, <2>4
<1> QED BY Invariant, <1>1, PTL

=============================================================================
