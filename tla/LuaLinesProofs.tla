--------------------------- MODULE LuaLinesProofs ---------------------------
(***************************************************************************)
(* Proofs about LuaLines, for differences of any size, any distance of the *)
(* absolute lines and any source: each instruction has its line.           *)
(***************************************************************************)
EXTENDS LuaLines, WellFoundedInduction, TLAPS

Absolute == [pc : Nat, line : Int]
FuncState == [lineinfo : Seq(Int), abslineinfo : Seq(Absolute), previousline : Int, iwthabs : Nat]

(* The line before position p, and the place of the last absolute line.    *)
Before(ls, p) == IF p = 1 THEN linedefined ELSE ls[p - 1]
LastAbs(f) == IF f.abslineinfo = <<>> THEN 0 ELSE f.abslineinfo[Len(f.abslineinfo)].pc

(* The differences and the absolute lines are those of the lines 'ls'.     *)
Differences(f, ls) ==
  \A p \in 1..Len(ls) :
    IF f.lineinfo[p] = ABSLINEINFO
    THEN \E i \in 1..Len(f.abslineinfo) : f.abslineinfo[i].pc = p - 1
    ELSE ls[p] = Before(ls, p) + f.lineinfo[p]
Absolutes(f, ls) ==
  \A i \in 1..Len(f.abslineinfo) :
    LET a == f.abslineinfo[i] IN
    /\ a.pc < Len(ls) /\ f.lineinfo[a.pc + 1] = ABSLINEINFO /\ a.line = ls[a.pc + 1]
    /\ \A j \in 1..i - 1 : f.abslineinfo[j].pc < a.pc
(* Absolute lines are near enough to each other for the estimate.          *)
Near(f, ls) ==
  /\ \A i \in 1..Len(f.abslineinfo) : f.abslineinfo[i].pc <= MAXIWTHABS * i
  /\ Len(ls) <= MAXIWTHABS * (Len(f.abslineinfo) + 1)

(* What holds before an instruction is saved: the next line is forced to   *)
(* be absolute, or the last line and the distance are known.               *)
Ready(f, ls) ==
  /\ f \in FuncState /\ ls \in Seq(Int) /\ Len(f.lineinfo) = Len(ls)
  /\ Differences(f, ls) /\ Absolutes(f, ls) /\ Near(f, ls)
  /\ \/ f.iwthabs = MAXIWTHABS + 1
     \/ f.previousline = Before(ls, Len(ls) + 1) /\ f.iwthabs = Len(ls) - LastAbs(f)
(* What holds between the steps of the code generator.                     *)
Saved(f, ls) ==
  /\ Ready(f, ls)
  /\ f.previousline = Before(ls, Len(ls) + 1) /\ f.iwthabs = Len(ls) - LastAbs(f)

LinesInv == Saved(fs, lines) /\ lastline \in Int
----------------------------------------------------------------------------
LEMMA AppendIs ==
  ASSUME NEW S, NEW s \in Seq(S), NEW e \in S
  PROVE  /\ Append(s, e) \in Seq(S) /\ Len(Append(s, e)) = Len(s) + 1
         /\ \A i \in 1..Len(s) : Append(s, e)[i] = s[i]
         /\ Append(s, e)[Len(s) + 1] = e
OBVIOUS

LEMMA FrontIs ==
  ASSUME NEW S, NEW s \in Seq(S), s # <<>>
  PROVE  /\ Front(s) \in Seq(S) /\ Len(Front(s)) = Len(s) - 1
         /\ \A i \in 1..Len(s) - 1 : Front(s)[i] = s[i]
         /\ Last(s) = s[Len(s)] /\ Last(s) \in S /\ Len(s) > 0
<1>1. Len(s) > 0 /\ Len(s) \in Nat /\ Len(s) - 1 \in 0..Len(s)
  OBVIOUS
<1>2. Last(s) = s[Len(s)] /\ Last(s) \in S
  BY <1>1 DEF Last
<1>3. Front(s) = SubSeq(s, 1, Len(s) - 1)
  BY DEF Front
<1> DEFINE m == Len(s) - 1
<1>4. m \in 0..Len(s)
  BY <1>1
<1> HIDE DEF m
<1>5. /\ SubSeq(s, 1, m) \in Seq(S) /\ Len(SubSeq(s, 1, m)) = m
      /\ \A i \in 1..m : SubSeq(s, 1, m)[i] = s[i]
  BY <1>4
<1> QED BY <1>1, <1>2, <1>3, <1>5 DEF m

(* What an appended line does not change, and where it is.                 *)
LEMMA Longer ==
  ASSUME NEW ls \in Seq(Int), NEW line \in Int
  PROVE  /\ Append(ls, line) \in Seq(Int) /\ Len(Append(ls, line)) = Len(ls) + 1
         /\ \A p \in 1..Len(ls) : Append(ls, line)[p] = ls[p] /\ Before(Append(ls, line), p) = Before(ls, p)
         /\ Append(ls, line)[Len(ls) + 1] = line
         /\ Before(Append(ls, line), Len(ls) + 1) = Before(ls, Len(ls) + 1)
         /\ Before(Append(ls, line), Len(ls) + 2) = line
<1> DEFINE new == Append(ls, line)
           n == Len(ls)
<1>1. /\ new \in Seq(Int) /\ Len(new) = n + 1 /\ n \in Nat
      /\ \A p \in 1..n : new[p] = ls[p]
      /\ new[n + 1] = line
  BY AppendIs
<1> HIDE DEF new, n
<1>2. ASSUME NEW p \in 1..n + 1 PROVE Before(new, p) = Before(ls, p)
  <2>1. p # 1 => p - 1 \in 1..n
    BY <1>1
  <2> QED BY <1>1, <2>1 DEF Before
<1>3. Before(new, n + 2) = line
  <2>1. n + 2 # 1 /\ n + 2 - 1 = n + 1
    BY <1>1
  <2> QED BY <1>1, <2>1 DEF Before
<1>4. \A p \in 1..n : p \in 1..n + 1
  BY <1>1
<1>5. n + 1 \in 1..n + 1
  BY <1>1
<1> QED BY <1>1, <1>2, <1>3, <1>4, <1>5 DEF new, n

(* Where the difference is missing there is an absolute line.              *)
LEMMA AbsoluteListed ==
  ASSUME NEW f, NEW ls, Ready(f, ls), NEW p \in 1..Len(ls), f.lineinfo[p] = ABSLINEINFO
  PROVE  \E i \in 1..Len(f.abslineinfo) : f.abslineinfo[i].pc = p - 1
BY DEF Ready, Differences

(* What is known of an absolute line.                                      *)
LEMMA AbsoluteAt ==
  ASSUME NEW f, NEW ls, Ready(f, ls), NEW i \in 1..Len(f.abslineinfo)
  PROVE  /\ f.abslineinfo[i].pc \in Nat /\ f.abslineinfo[i].pc < Len(ls)
         /\ f.abslineinfo[i].pc + 1 \in 1..Len(ls)
         /\ f.lineinfo[f.abslineinfo[i].pc + 1] = ABSLINEINFO
         /\ f.abslineinfo[i].line = ls[f.abslineinfo[i].pc + 1]
         /\ \A j \in 1..i - 1 : f.abslineinfo[j].pc < f.abslineinfo[i].pc
<1> DEFINE abs == f.abslineinfo
           x == abs[i].pc
<1>1. abs \in Seq(Absolute) /\ Len(ls) \in Nat
  BY DEF Ready, FuncState
<1>2. abs[i] \in Absolute
  <2> HIDE DEF abs
  <2>1. i \in 1..Len(abs)
    BY DEF abs
  <2> QED BY <1>1, <2>1
<1>3. x \in Nat
  <2> HIDE DEF abs
  <2> QED BY <1>2 DEF Absolute
<1>4. /\ x < Len(ls) /\ f.lineinfo[x + 1] = ABSLINEINFO /\ abs[i].line = ls[x + 1]
      /\ \A j \in 1..i - 1 : abs[j].pc < x
  BY DEF Ready, Absolutes
<1> HIDE DEF x
<1>5. x + 1 \in 1..Len(ls)
  BY <1>1, <1>3, <1>4
<1> QED BY <1>3, <1>4, <1>5 DEF x

LEMMA LastAbsNat ==
  ASSUME NEW f, NEW ls, Ready(f, ls)
  PROVE  /\ LastAbs(f) \in Nat
         /\ LastAbs(f) <= MAXIWTHABS * Len(f.abslineinfo)
<1> DEFINE abs == f.abslineinfo
           k == Len(abs)
<1>1. /\ abs \in Seq(Absolute) /\ (abs = <<>> => k = 0) /\ (abs # <<>> => k \in 1..k)
      /\ \A i \in 1..k : abs[i].pc <= MAXIWTHABS * i
  BY DEF Ready, FuncState, Near
<1>2. CASE abs = <<>>
  <2>1. LastAbs(f) = 0 /\ MAXIWTHABS * 0 = 0
    BY <1>2, LinesAssumption DEF LastAbs
  <2> QED BY <1>1, <1>2, <2>1
<1>3. CASE abs # <<>>
  <2>1. LastAbs(f) = abs[k].pc
    BY <1>3 DEF LastAbs
  <2>2. abs[k].pc \in Nat
    BY <1>1, <1>3, AbsoluteAt
  <2> QED BY <1>1, <1>3, <2>1, <2>2
<1> QED BY <1>2, <1>3

(* Saving a line.                                                          *)
LEMMA SaveRight ==
  ASSUME NEW f, NEW ls, NEW line \in Int, Ready(f, ls)
  PROVE  Saved(savelineinfo(f, line), Append(ls, line))
<1> DEFINE new == Append(ls, line)
           g == savelineinfo(f, line)
           n == Len(ls)
           k == Len(f.abslineinfo)
           a == [pc |-> n, line |-> line]
<1>1. /\ f \in FuncState /\ ls \in Seq(Int) /\ Len(f.lineinfo) = n /\ n \in Nat /\ k \in Nat
      /\ f.lineinfo \in Seq(Int) /\ f.abslineinfo \in Seq(Absolute) /\ f.previousline \in Int
      /\ f.iwthabs \in Nat /\ a \in Absolute /\ ABSLINEINFO \in Int
  BY LinesAssumption DEF Ready, FuncState, Absolute, ABSLINEINFO
<1>2. /\ new \in Seq(Int) /\ Len(new) = n + 1
      /\ \A p \in 1..n : new[p] = ls[p] /\ Before(new, p) = Before(ls, p)
      /\ new[n + 1] = line /\ Before(new, n + 1) = Before(ls, n + 1) /\ Before(new, n + 2) = line
  BY <1>1, Longer
<1>3. CASE Distance(line, f.previousline) >= LIMLINEDIFF \/ f.iwthabs >= MAXIWTHABS
  <2>1. g = [lineinfo |-> Append(f.lineinfo, ABSLINEINFO), previousline |-> line, iwthabs |-> 1,
             abslineinfo |-> Append(f.abslineinfo, a)]
    BY <1>1, <1>3 DEF savelineinfo
  <2>2. /\ g.lineinfo \in Seq(Int) /\ Len(g.lineinfo) = n + 1
        /\ \A p \in 1..n : g.lineinfo[p] = f.lineinfo[p]
        /\ g.lineinfo[n + 1] = ABSLINEINFO
    BY <1>1, <2>1, AppendIs
  <2>3. /\ g.abslineinfo \in Seq(Absolute) /\ Len(g.abslineinfo) = k + 1
        /\ \A i \in 1..k : g.abslineinfo[i] = f.abslineinfo[i]
        /\ g.abslineinfo[k + 1] = a
    BY <1>1, <2>1, AppendIs
  <2>4. g \in FuncState /\ g.previousline = line /\ g.iwthabs = 1
    BY <1>1, <2>1, <2>2, <2>3 DEF FuncState
  <2> HIDE DEF new, g, n, k
  <2>5. Differences(g, new)
    <3>1. ASSUME NEW p \in 1..n + 1, g.lineinfo[p] = ABSLINEINFO
          PROVE  \E i \in 1..k + 1 : g.abslineinfo[i].pc = p - 1
      <4>1. CASE p = n + 1
        <5>1. g.abslineinfo[k + 1].pc = p - 1 /\ k + 1 \in 1..k + 1
          BY <1>1, <2>3, <4>1 DEF n
        <5> QED BY <5>1
      <4>2. CASE p \in 1..n
        <5>1. f.lineinfo[p] = ABSLINEINFO
          BY <2>2, <3>1, <4>2
        <5>2. PICK i \in 1..k : f.abslineinfo[i].pc = p - 1
          BY <5>1, <4>2 DEF Ready, Differences, n, k
        <5>3. i \in 1..k + 1 /\ g.abslineinfo[i].pc = p - 1
          BY <1>1, <5>2, <2>3, SMTT(30)
        <5> QED BY <5>3
      <4> QED BY <1>1, <4>1, <4>2
    <3>2. ASSUME NEW p \in 1..n + 1, g.lineinfo[p] # ABSLINEINFO
          PROVE  new[p] = Before(new, p) + g.lineinfo[p]
      <4>1. p \in 1..n
        BY <1>1, <2>2, <3>2
      <4>2. f.lineinfo[p] # ABSLINEINFO
        BY <2>2, <3>2, <4>1
      <4>3. ls[p] = Before(ls, p) + f.lineinfo[p]
        BY <4>1, <4>2 DEF Ready, Differences, n
      <4> QED BY <4>1, <4>3, <1>2, <2>2
    <3> QED BY <3>1, <3>2, <1>2, <2>3 DEF Differences
  <2>6. Absolutes(g, new)
    <3>1. ASSUME NEW i \in 1..k
          PROVE  /\ f.abslineinfo[i].pc \in Nat /\ f.abslineinfo[i].pc < n
                 /\ f.abslineinfo[i].pc + 1 \in 1..n
                 /\ f.lineinfo[f.abslineinfo[i].pc + 1] = ABSLINEINFO
                 /\ f.abslineinfo[i].line = ls[f.abslineinfo[i].pc + 1]
                 /\ \A j \in 1..i - 1 : f.abslineinfo[j].pc < f.abslineinfo[i].pc
      BY AbsoluteAt DEF n, k
    <3>2. ASSUME NEW i \in 1..k + 1
          PROVE  /\ g.abslineinfo[i].pc < n + 1 /\ g.lineinfo[g.abslineinfo[i].pc + 1] = ABSLINEINFO
                 /\ g.abslineinfo[i].line = new[g.abslineinfo[i].pc + 1]
                 /\ \A j \in 1..i - 1 : g.abslineinfo[j].pc < g.abslineinfo[i].pc
      <4>1. CASE i \in 1..k
        <5> DEFINE x == f.abslineinfo[i].pc
        <5>1. /\ x \in Nat /\ x < n /\ x + 1 \in 1..n /\ f.lineinfo[x + 1] = ABSLINEINFO
              /\ f.abslineinfo[i].line = ls[x + 1] /\ \A j \in 1..i - 1 : f.abslineinfo[j].pc < x
          BY <3>1, <4>1
        <5>0. g.abslineinfo[i] = f.abslineinfo[i]
          BY <2>3, <4>1
        <5> HIDE DEF x
        <5>2. \A j \in 1..i - 1 : j \in 1..k
          BY <1>1, <4>1
        <5>3. \A j \in 1..i - 1 : g.abslineinfo[j].pc < g.abslineinfo[i].pc
          BY <5>1, <5>2, <5>0, <2>3 DEF x
        <5>4. g.lineinfo[x + 1] = ABSLINEINFO /\ g.abslineinfo[i].line = new[x + 1]
          BY <5>1, <5>0, <2>2, <1>2
        <5>5. x < n + 1
          BY <5>1, <1>1
        <5> QED BY <5>0, <5>3, <5>4, <5>5 DEF x
      <4>2. CASE i = k + 1
        <5>1. g.abslineinfo[i].pc = n /\ g.abslineinfo[i].line = line
          BY <2>3, <4>2
        <5>2. \A j \in 1..k : g.abslineinfo[j].pc < n
          BY <3>1, <2>3, <1>1
        <5>3. \A j \in 1..i - 1 : g.abslineinfo[j].pc < n
          BY <5>2, <4>2, <1>1
        <5> DEFINE x == g.abslineinfo[i].pc
        <5>4. x = n /\ n < n + 1
          BY <5>1, <1>1
        <5>5. g.abslineinfo[i].line = line
          BY <5>1
        <5> HIDE DEF x
        <5>6. x < n + 1 /\ g.lineinfo[x + 1] = ABSLINEINFO /\ new[x + 1] = line
          BY <5>4, <2>2, <1>2
        <5>7. \A j \in 1..i - 1 : g.abslineinfo[j].pc < x
          BY <5>3, <5>4
        <5> QED BY <5>5, <5>6, <5>7 DEF x
      <4> QED BY <4>1, <4>2, <1>1
    <3> QED BY <3>2, <1>2, <2>3 DEF Absolutes
  <2>7. Near(g, new)
    <3>1. n <= MAXIWTHABS * (k + 1) /\ \A i \in 1..k : f.abslineinfo[i].pc <= MAXIWTHABS * i
      BY DEF Ready, Near, n, k
    <3>2. n + 1 <= MAXIWTHABS * (k + 1 + 1)
      <4>1. MAXIWTHABS * (k + 1 + 1) = MAXIWTHABS * (k + 1) + MAXIWTHABS
        BY <1>1, LinesAssumption
      <4>2. MAXIWTHABS >= 1 /\ MAXIWTHABS * (k + 1) \in Int
        BY <1>1, LinesAssumption
      <4> QED BY <1>1, <3>1, <4>1, <4>2, LinesAssumption
    <3>3. ASSUME NEW i \in 1..k + 1 PROVE g.abslineinfo[i].pc <= MAXIWTHABS * i
      <4>1. CASE i \in 1..k
        BY <4>1, <3>1, <2>3
      <4>2. CASE i = k + 1
        BY <4>2, <3>1, <2>3
      <4> QED BY <1>1, <4>1, <4>2
    <3> QED BY <3>2, <3>3, <1>2, <2>3 DEF Near
  <2>8. LastAbs(g) = n
    <3>1. g.abslineinfo # <<>>
      BY <2>3, <1>1
    <3> QED BY <3>1, <2>3 DEF LastAbs
  <2>9. g.iwthabs = Len(new) - LastAbs(g) /\ g.previousline = Before(new, Len(new) + 1)
    BY <1>1, <1>2, <2>4, <2>8
  <2>10. Len(g.lineinfo) = Len(new)
    BY <1>2, <2>2
  <2> QED BY <1>2, <2>4, <2>5, <2>6, <2>7, <2>9, <2>10 DEF Saved, Ready, new, g
<1>4. CASE ~(Distance(line, f.previousline) >= LIMLINEDIFF \/ f.iwthabs >= MAXIWTHABS)
  <2> DEFINE d == line - f.previousline
  <2>1. g = [lineinfo |-> Append(f.lineinfo, d), previousline |-> line, iwthabs |-> f.iwthabs + 1,
             abslineinfo |-> f.abslineinfo]
    BY <1>1, <1>4 DEF savelineinfo
  <2>2. d \in Int /\ d # ABSLINEINFO /\ f.iwthabs < MAXIWTHABS
    BY <1>1, <1>4, LinesAssumption DEF Distance, ABSLINEINFO
  <2>3. /\ g.lineinfo \in Seq(Int) /\ Len(g.lineinfo) = n + 1
        /\ \A p \in 1..n : g.lineinfo[p] = f.lineinfo[p]
        /\ g.lineinfo[n + 1] = d
    BY <1>1, <2>1, <2>2, AppendIs
  <2>4. g \in FuncState /\ g.previousline = line /\ g.iwthabs = f.iwthabs + 1 /\ g.abslineinfo = f.abslineinfo
    BY <1>1, <2>1, <2>3 DEF FuncState
  <2>5. f.previousline = Before(ls, n + 1) /\ f.iwthabs = n - LastAbs(f)
    BY <1>1, <2>2, LinesAssumption DEF Ready
  <2> HIDE DEF new, g, n, k
  <2>6. Differences(g, new)
    <3>1. ASSUME NEW p \in 1..n + 1, g.lineinfo[p] = ABSLINEINFO
          PROVE  \E i \in 1..k : g.abslineinfo[i].pc = p - 1
      <4>1. p \in 1..n
        BY <1>1, <2>2, <2>3, <3>1
      <4>2. f.lineinfo[p] = ABSLINEINFO
        BY <2>3, <3>1, <4>1
      <4> QED BY <4>1, <4>2, <2>4 DEF Ready, Differences, n, k
    <3>2. ASSUME NEW p \in 1..n + 1, g.lineinfo[p] # ABSLINEINFO
          PROVE  new[p] = Before(new, p) + g.lineinfo[p]
      <4>1. CASE p \in 1..n
        <5>1. f.lineinfo[p] # ABSLINEINFO
          BY <2>3, <3>2, <4>1
        <5>2. ls[p] = Before(ls, p) + f.lineinfo[p]
          BY <4>1, <5>1 DEF Ready, Differences, n
        <5> QED BY <4>1, <5>2, <1>2, <2>3
      <4>2. CASE p = n + 1
        BY <4>2, <1>1, <1>2, <2>2, <2>3, <2>5
      <4> QED BY <1>1, <4>1, <4>2
    <3>3. Len(g.abslineinfo) = k
      BY <2>4 DEF k
    <3> QED BY <3>1, <3>2, <3>3, <1>2 DEF Differences
  <2>7. Absolutes(g, new)
    <3>1. ASSUME NEW i \in 1..k
          PROVE  /\ f.abslineinfo[i].pc \in Nat /\ f.abslineinfo[i].pc < n
                 /\ f.abslineinfo[i].pc + 1 \in 1..n
                 /\ f.lineinfo[f.abslineinfo[i].pc + 1] = ABSLINEINFO
                 /\ f.abslineinfo[i].line = ls[f.abslineinfo[i].pc + 1]
                 /\ \A j \in 1..i - 1 : f.abslineinfo[j].pc < f.abslineinfo[i].pc
      BY AbsoluteAt DEF n, k
    <3>2. ASSUME NEW i \in 1..k
          PROVE  /\ f.abslineinfo[i].pc < n + 1 /\ g.lineinfo[f.abslineinfo[i].pc + 1] = ABSLINEINFO
                 /\ f.abslineinfo[i].line = new[f.abslineinfo[i].pc + 1]
      <4> DEFINE x == f.abslineinfo[i].pc
      <4>1. /\ x \in Nat /\ x < n /\ x + 1 \in 1..n /\ f.lineinfo[x + 1] = ABSLINEINFO
            /\ f.abslineinfo[i].line = ls[x + 1]
        BY <3>1
      <4> HIDE DEF x
      <4>2. x < n + 1
        BY <4>1, <1>1
      <4>3. g.lineinfo[x + 1] = ABSLINEINFO
        BY <4>1, <2>3
      <4>4. f.abslineinfo[i].line = new[x + 1]
        BY <4>1, <1>2
      <4> QED BY <4>2, <4>3, <4>4 DEF x
    <3>3. Len(g.abslineinfo) = k
      BY <2>4 DEF k
    <3> QED BY <3>1, <3>2, <3>3, <2>4, <1>2 DEF Absolutes
  <2>8. Near(g, new)
    <3>1. \A i \in 1..k : f.abslineinfo[i].pc <= MAXIWTHABS * i
      BY DEF Ready, Near, n, k
    <3>2. LastAbs(f) \in Nat /\ LastAbs(f) <= MAXIWTHABS * k
      BY LastAbsNat DEF k
    <3>3. n + 1 <= MAXIWTHABS * (k + 1)
      <4>1. MAXIWTHABS * (k + 1) = MAXIWTHABS * k + MAXIWTHABS /\ MAXIWTHABS * k \in Int
        BY <1>1, LinesAssumption
      <4> QED BY <1>1, <3>2, <4>1, <2>2, <2>5, LinesAssumption
    <3> QED BY <3>1, <3>3, <2>4, <1>2 DEF Near, k
  <2>9. g.iwthabs = Len(new) - LastAbs(g) /\ g.previousline = Before(new, Len(new) + 1)
    <3>1. LastAbs(g) = LastAbs(f)
      BY <2>4 DEF LastAbs
    <3>2. LastAbs(f) \in Nat
      BY LastAbsNat
    <3> QED BY <1>1, <1>2, <2>4, <2>5, <3>1, <3>2
  <2>10. Len(g.lineinfo) = Len(new)
    BY <1>2, <2>3
  <2> QED BY <1>2, <2>4, <2>6, <2>7, <2>8, <2>9, <2>10 DEF Saved, Ready, new, g
<1> QED BY <1>3, <1>4

(* Removing a line.                                                        *)
LEMMA RemoveReady ==
  ASSUME NEW f, NEW ls, Saved(f, ls), ls # <<>>
  PROVE  Ready(removelastlineinfo(f), Front(ls))
<1> DEFINE old == Front(ls)
           g == removelastlineinfo(f)
           n == Len(ls)
           k == Len(f.abslineinfo)
<1>1. /\ Ready(f, ls) /\ f \in FuncState /\ ls \in Seq(Int) /\ Len(f.lineinfo) = n /\ n \in Nat /\ k \in Nat
      /\ f.lineinfo \in Seq(Int) /\ f.abslineinfo \in Seq(Absolute) /\ f.previousline \in Int
      /\ f.iwthabs \in Nat /\ f.previousline = Before(ls, n + 1) /\ f.iwthabs = n - LastAbs(f)
      /\ n \in 1..n /\ n > 0 /\ MAXIWTHABS \in Nat
  BY LinesAssumption DEF Saved, Ready, FuncState
<1>2. /\ old \in Seq(Int) /\ Len(old) = n - 1
      /\ \A p \in 1..n - 1 : old[p] = ls[p]
  BY <1>1, FrontIs
<1>3. \A p \in 1..n : Before(old, p) = Before(ls, p)
  <2> HIDE DEF old, n
  <2>1. ASSUME NEW p \in 1..n PROVE Before(old, p) = Before(ls, p)
    <3>1. p # 1 => p - 1 \in 1..n - 1
      BY <1>1
    <3> QED BY <3>1, <1>2 DEF Before
  <2> QED BY <2>1
<1>4. /\ Front(f.lineinfo) \in Seq(Int) /\ Len(Front(f.lineinfo)) = n - 1
      /\ \A p \in 1..n - 1 : Front(f.lineinfo)[p] = f.lineinfo[p]
      /\ Last(f.lineinfo) = f.lineinfo[n] /\ Last(f.lineinfo) \in Int
  <2>1. f.lineinfo # <<>>
    BY <1>1
  <2> QED BY <1>1, <2>1, FrontIs
<1>5. CASE Last(f.lineinfo) = ABSLINEINFO
  <2>1. g = [lineinfo |-> Front(f.lineinfo), previousline |-> f.previousline,
             iwthabs |-> MAXIWTHABS + 1, abslineinfo |-> Front(f.abslineinfo)]
    BY <1>5 DEF removelastlineinfo
  <2>2. PICK i \in 1..k : f.abslineinfo[i].pc = n - 1
    BY <1>1, <1>4, <1>5 DEF Ready, Differences
  <2>3. k \in 1..k /\ f.abslineinfo # <<>>
    BY <1>1, <2>2
  <2>4. f.abslineinfo[k].pc = n - 1
    <3> HIDE DEF n, k
    <3>1. /\ f.abslineinfo[k].pc \in Nat /\ f.abslineinfo[k].pc < n
          /\ \A j \in 1..k - 1 : f.abslineinfo[j].pc < f.abslineinfo[k].pc
      BY <1>1, <2>3, AbsoluteAt DEF n, k
    <3>2. CASE i = k
      BY <2>2, <3>2
    <3>3. CASE i # k
      <4>1. i \in 1..k - 1
        BY <1>1, <3>3
      <4>2. n - 1 < f.abslineinfo[k].pc
        BY <2>2, <3>1, <4>1
      <4>3. n \in Nat
        BY <1>1
      <4> QED BY <4>2, <4>3, <3>1
    <3> QED BY <3>2, <3>3
  <2>5. /\ g.abslineinfo \in Seq(Absolute) /\ Len(g.abslineinfo) = k - 1
        /\ \A j \in 1..k - 1 : g.abslineinfo[j] = f.abslineinfo[j]
    <3> DEFINE abs == f.abslineinfo
    <3>1. abs \in Seq(Absolute) /\ abs # <<>>
      BY <1>1, <2>3
    <3> HIDE DEF abs
    <3>2. /\ Front(abs) \in Seq(Absolute) /\ Len(Front(abs)) = Len(abs) - 1
          /\ \A j \in 1..Len(abs) - 1 : Front(abs)[j] = abs[j]
      BY <3>1, FrontIs
    <3> QED BY <2>1, <3>2 DEF abs
  <2>6. g \in FuncState /\ g.lineinfo = Front(f.lineinfo) /\ g.iwthabs = MAXIWTHABS + 1
    BY <1>1, <1>4, <2>1, <2>5 DEF FuncState
  <2> HIDE DEF old, g, n, k
  <2>7. Differences(g, old)
    <3>1. ASSUME NEW p \in 1..n - 1, g.lineinfo[p] = ABSLINEINFO
          PROVE  \E j \in 1..k - 1 : g.abslineinfo[j].pc = p - 1
      <4>0. p \in 1..n
        BY <1>1
      <4>1. f.lineinfo[p] = ABSLINEINFO /\ p \in 1..n
        BY <4>0, <1>4, <2>6, <3>1
      <4>2. PICK j \in 1..k : f.abslineinfo[j].pc = p - 1
        BY <1>1, <4>1 DEF Ready, Differences, n, k
      <4>3. j # k
        BY <1>1, <2>4, <4>2
      <4>4. j \in 1..k - 1
        BY <1>1, <4>2, <4>3
      <4> QED BY <2>5, <4>2, <4>4
    <3>2. ASSUME NEW p \in 1..n - 1, g.lineinfo[p] # ABSLINEINFO
          PROVE  old[p] = Before(old, p) + g.lineinfo[p]
      <4>0. p \in 1..n
        BY <1>1
      <4>1. f.lineinfo[p] # ABSLINEINFO /\ p \in 1..n /\ g.lineinfo[p] = f.lineinfo[p]
        BY <4>0, <1>4, <2>6, <3>2
      <4>2. ls[p] = Before(ls, p) + f.lineinfo[p]
        BY <1>1, <4>1 DEF Ready, Differences, n
      <4> QED BY <4>1, <4>2, <1>2, <1>3
    <3> QED BY <3>1, <3>2, <1>2, <2>5 DEF Differences
  <2>8. Absolutes(g, old)
    <3>1. ASSUME NEW j \in 1..k - 1
          PROVE  /\ g.abslineinfo[j].pc < n - 1 /\ g.lineinfo[g.abslineinfo[j].pc + 1] = ABSLINEINFO
                 /\ g.abslineinfo[j].line = old[g.abslineinfo[j].pc + 1]
                 /\ \A m \in 1..j - 1 : g.abslineinfo[m].pc < g.abslineinfo[j].pc
      <4> DEFINE x == f.abslineinfo[j].pc
      <4>1. j \in 1..k /\ g.abslineinfo[j] = f.abslineinfo[j]
        BY <1>1, <2>5, SMTT(30)
      <4>2. /\ x \in Nat /\ f.lineinfo[x + 1] = ABSLINEINFO /\ f.abslineinfo[j].line = ls[x + 1]
            /\ \A m \in 1..j - 1 : f.abslineinfo[m].pc < x
        BY <1>1, <4>1, AbsoluteAt DEF k
      <4>3. x < n - 1
        BY <1>1, <2>3, <2>4, AbsoluteAt DEF k
      <4> HIDE DEF x
      <4>4. x + 1 \in 1..n - 1
        BY <1>1, <4>2, <4>3, SMTT(30)
      <4>5. \A m \in 1..j - 1 : m \in 1..k - 1
        BY <1>1, <4>1
      <4>6. \A m \in 1..j - 1 : g.abslineinfo[m].pc < x
        BY <2>5, <4>2, <4>5
      <4>7. g.lineinfo[x + 1] = ABSLINEINFO
        BY <1>4, <2>6, <4>2, <4>4
      <4>8. f.abslineinfo[j].line = old[x + 1]
        BY <1>2, <4>2, <4>4
      <4> QED BY <4>1, <4>3, <4>6, <4>7, <4>8 DEF x
    <3> QED BY <3>1, <1>2, <2>5 DEF Absolutes
  <2>9. Near(g, old)
    <3>1. \A j \in 1..k : f.abslineinfo[j].pc <= MAXIWTHABS * j
      BY <1>1 DEF Ready, Near, k
    <3>2. n - 1 <= MAXIWTHABS * k /\ k - 1 + 1 = k
      BY <1>1, <2>3, <2>4, <3>1
    <3>3. \A j \in 1..k - 1 : j \in 1..k
      BY <1>1
    <3> QED BY <1>2, <2>5, <3>1, <3>2, <3>3 DEF Near
  <2>10. Len(g.lineinfo) = Len(old)
    BY <1>2, <1>4, <2>6
  <2> QED BY <1>2, <2>6, <2>7, <2>8, <2>9, <2>10 DEF Ready, old, g
<1>6. CASE Last(f.lineinfo) # ABSLINEINFO
  <2>1. g = [lineinfo |-> Front(f.lineinfo), previousline |-> f.previousline - Last(f.lineinfo),
             iwthabs |-> f.iwthabs - 1, abslineinfo |-> f.abslineinfo]
    BY <1>6 DEF removelastlineinfo, RemovedRelative
  <2>2. LastAbs(f) \in Nat /\ LastAbs(f) < n
    <3>1. CASE f.abslineinfo = <<>>
      BY <1>1, <3>1 DEF LastAbs
    <3>2. CASE f.abslineinfo # <<>>
      <4>1. k \in 1..k
        BY <1>1, <3>2
      <4>2. f.abslineinfo[k].pc \in Nat /\ f.abslineinfo[k].pc < n
        BY <1>1, <4>1, AbsoluteAt
      <4> QED BY <3>2, <4>2 DEF LastAbs
    <3> QED BY <3>1, <3>2
  <2>3. f.iwthabs - 1 \in Nat /\ f.iwthabs - 1 = n - 1 - LastAbs(f)
    BY <1>1, <2>2, SMTT(30)
  <2>4. /\ g \in FuncState /\ g.lineinfo = Front(f.lineinfo) /\ g.abslineinfo = f.abslineinfo
        /\ g.iwthabs = f.iwthabs - 1 /\ g.previousline = f.previousline - f.lineinfo[n]
    BY <1>1, <1>4, <2>1, <2>3 DEF FuncState
  <2> HIDE DEF old, g, n, k
  <2>5. g.previousline = Before(old, n)
    <3>1. Before(ls, n + 1) = ls[n]
      BY <1>1 DEF Before
    <3>2. ls[n] = Before(ls, n) + f.lineinfo[n]
      BY <1>1, <1>4, <1>6 DEF Ready, Differences, n
    <3>3. Before(ls, n) \in Int
      <4>1. n # 1 => n - 1 \in 1..n
        BY <1>1
      <4>2. \A p \in 1..n : ls[p] \in Int
        BY <1>1 DEF n
      <4> QED BY <4>1, <4>2, LinesAssumption DEF Before
    <3> QED BY <1>1, <1>3, <1>4, <2>4, <3>1, <3>2, <3>3, SMTT(30)
  <2>6. Differences(g, old)
    <3>1. ASSUME NEW p \in 1..n - 1, g.lineinfo[p] = ABSLINEINFO
          PROVE  \E j \in 1..k : g.abslineinfo[j].pc = p - 1
      <4>0. p \in 1..n
        BY <1>1
      <4>1. f.lineinfo[p] = ABSLINEINFO /\ p \in 1..n
        BY <4>0, <1>4, <2>4, <3>1
      <4> QED BY <1>1, <2>4, <4>1 DEF Ready, Differences, n, k
    <3>2. ASSUME NEW p \in 1..n - 1, g.lineinfo[p] # ABSLINEINFO
          PROVE  old[p] = Before(old, p) + g.lineinfo[p]
      <4>0. p \in 1..n
        BY <1>1
      <4>1. f.lineinfo[p] # ABSLINEINFO /\ p \in 1..n /\ g.lineinfo[p] = f.lineinfo[p]
        BY <4>0, <1>4, <2>4, <3>2
      <4>2. ls[p] = Before(ls, p) + f.lineinfo[p]
        BY <1>1, <4>1 DEF Ready, Differences, n
      <4> QED BY <4>1, <4>2, <1>2, <1>3
    <3>3. Len(g.abslineinfo) = k
      BY <2>4 DEF k
    <3> QED BY <3>1, <3>2, <3>3, <1>2 DEF Differences
  <2>7. Absolutes(g, old)
    <3>1. ASSUME NEW j \in 1..k
          PROVE  /\ f.abslineinfo[j].pc < n - 1 /\ g.lineinfo[f.abslineinfo[j].pc + 1] = ABSLINEINFO
                 /\ f.abslineinfo[j].line = old[f.abslineinfo[j].pc + 1]
                 /\ \A m \in 1..j - 1 : f.abslineinfo[m].pc < f.abslineinfo[j].pc
      <4> DEFINE x == f.abslineinfo[j].pc
      <4>1. /\ x \in Nat /\ x + 1 \in 1..n /\ f.lineinfo[x + 1] = ABSLINEINFO
            /\ f.abslineinfo[j].line = ls[x + 1]
            /\ \A m \in 1..j - 1 : f.abslineinfo[m].pc < x
        BY <1>1, AbsoluteAt DEF n, k
      <4> HIDE DEF x
      <4>2. x + 1 # n
        BY <1>4, <1>6, <4>1
      <4>3. x < n - 1 /\ x + 1 \in 1..n - 1
        BY <1>1, <4>1, <4>2
      <4>4. g.lineinfo[x + 1] = ABSLINEINFO
        BY <1>4, <2>4, <4>1, <4>3
      <4>5. f.abslineinfo[j].line = old[x + 1]
        BY <1>2, <4>1, <4>3
      <4> QED BY <4>1, <4>3, <4>4, <4>5 DEF x
    <3>2. Len(g.abslineinfo) = k
      BY <2>4 DEF k
    <3> QED BY <3>1, <3>2, <2>4, <1>2 DEF Absolutes
  <2>8. Near(g, old)
    <3>1. (\A j \in 1..k : f.abslineinfo[j].pc <= MAXIWTHABS * j) /\ n <= MAXIWTHABS * (k + 1)
      BY <1>1 DEF Ready, Near, k, n
    <3>2. MAXIWTHABS * (k + 1) \in Int
      BY <1>1
    <3>3. n - 1 <= MAXIWTHABS * (k + 1)
      BY <1>1, <3>1, <3>2
    <3> QED BY <1>2, <2>4, <3>1, <3>3 DEF Near, k
  <2>9. g.iwthabs = Len(old) - LastAbs(g)
    <3>1. LastAbs(g) = LastAbs(f)
      BY <2>4 DEF LastAbs
    <3> QED BY <1>2, <2>3, <2>4, <3>1
  <2>10. Len(g.lineinfo) = Len(old) /\ Len(old) + 1 = n
    BY <1>1, <1>2, <1>4, <2>4
  <2> QED BY <1>2, <2>4, <2>5, <2>6, <2>7, <2>8, <2>9, <2>10 DEF Ready, old, g
<1> QED BY <1>5, <1>6
----------------------------------------------------------------------------
(* The line information is right between the steps of the code generator:  *)
(* the strengthening from which the lookups are shown to be right.         *)
THEOREM Invariant == LinesSpec => []LinesInv
<1>1. LinesInit => LinesInv
  <2> SUFFICES ASSUME LinesInit PROVE LinesInv
    OBVIOUS
  <2>1. /\ fs = [lineinfo |-> <<>>, previousline |-> linedefined, iwthabs |-> 0, abslineinfo |-> <<>>]
        /\ lines = <<>> /\ lastline \in Int /\ MAXIWTHABS * (0 + 1) >= 0
    BY LinesAssumption DEF LinesInit
  <2>2. fs \in FuncState /\ lines \in Seq(Int) /\ Len(lines) = 0 /\ Len(fs.lineinfo) = 0 /\ Len(fs.abslineinfo) = 0
    BY <2>1, LinesAssumption DEF FuncState
  <2>3. Differences(fs, lines) /\ Absolutes(fs, lines) /\ Near(fs, lines)
    BY <2>1, <2>2 DEF Differences, Absolutes, Near
  <2>4. fs.previousline = Before(lines, Len(lines) + 1) /\ fs.iwthabs = Len(lines) - LastAbs(fs)
    BY <2>1, <2>2 DEF Before, LastAbs
  <2> QED BY <2>1, <2>2, <2>3, <2>4 DEF LinesInv, Saved, Ready
<1>2. LinesInv /\ [LinesNext]_linevars => LinesInv'
  <2> SUFFICES ASSUME LinesInv, [LinesNext]_linevars PROVE LinesInv'
    OBVIOUS
  <2>0. Saved(fs, lines) /\ Ready(fs, lines) /\ lastline \in Int /\ lines \in Seq(Int)
    BY DEF LinesInv, Saved, Ready
  <2>1. CASE NextLine
    BY <2>0, <2>1 DEF NextLine, LinesInv, Saved, Ready, Differences, Absolutes, Near, LastAbs, Before
  <2>2. CASE luaK_code
    <3>1. Saved(savelineinfo(fs, lastline), Append(lines, lastline))
      BY <2>0, SaveRight
    <3>2. Saved(fs', lines')
      BY <3>1, <2>2 DEF luaK_code
    <3>3. lastline' \in Int
      BY <2>0, <2>2 DEF luaK_code
    <3> QED BY <3>2, <3>3 DEF LinesInv, Saved, Ready, Differences, Absolutes, Near, LastAbs, Before
  <2>3. CASE luaK_fixline
    <3>1. PICK line \in linedefined..lastline :
            /\ lines # <<>> /\ fs' = savelineinfo(removelastlineinfo(fs), line)
            /\ lines' = Append(Front(lines), line) /\ lastline' = lastline
      BY <2>3 DEF luaK_fixline
    <3>2. Ready(removelastlineinfo(fs), Front(lines))
      BY <2>0, <3>1, RemoveReady
    <3>3. line \in Int
      BY <2>0, LinesAssumption
    <3>4. Saved(savelineinfo(removelastlineinfo(fs), line), Append(Front(lines), line))
      BY <3>2, <3>3, SaveRight
    <3>5. Saved(fs', lines') /\ lastline' \in Int
      BY <3>1, <3>4, <2>0
    <3> QED BY <3>5 DEF LinesInv, Saved, Ready, Differences, Absolutes, Near, LastAbs, Before
  <2>4. CASE jumponcond
    <3> DEFINE f1 == removelastlineinfo(fs)
               l1 == Front(lines)
               f2 == savelineinfo(f1, lastline)
               l2 == Append(l1, lastline)
    <3>1. fs' = savelineinfo(f2, lastline) /\ lines' = Append(l2, lastline) /\ lines # <<>> /\ lastline' = lastline
      BY <2>4 DEF jumponcond
    <3>2. Ready(f1, l1)
      BY <2>0, <3>1, RemoveReady
    <3> HIDE DEF f1, l1
    <3>3. Saved(f2, l2)
      BY <2>0, <3>2, SaveRight
    <3>4. Ready(f2, l2)
      BY <3>3 DEF Saved
    <3> HIDE DEF f2, l2
    <3>5. Saved(savelineinfo(f2, lastline), Append(l2, lastline))
      BY <2>0, <3>4, SaveRight
    <3>6. Saved(fs', lines') /\ lastline' \in Int
      BY <3>1, <3>5, <2>0
    <3> QED BY <3>6 DEF LinesInv, Saved, Ready, Differences, Absolutes, Near, LastAbs, Before
  <2>5. CASE UNCHANGED linevars
    BY <2>5 DEF linevars, LinesInv, Saved, Ready, Differences, Absolutes, Near, LastAbs, Before
  <2> QED BY <2>1, <2>2, <2>3, <2>4, <2>5 DEF LinesNext
<1> QED BY <1>1, <1>2, PTL DEF LinesSpec
----------------------------------------------------------------------------
(* A set of numbers has a least one.                                       *)
LEMMA Least ==
  ASSUME NEW S \in SUBSET Nat, S # {}
  PROVE  \E m \in S : \A y \in S : m <= y
<1> DEFINE less == {p \in Nat \X Nat : p[1] < p[2]}
<1>1. IsWellFoundedOn(less, Nat)
  BY NatLessThanWellFounded DEF OpToRel
<1>2. PICK x \in S : \A y \in S : <<y, x>> \notin less
  <2> HIDE DEF less
  <2> QED BY <1>1, WFMin
<1>3. ASSUME NEW y \in S PROVE x <= y
  <2>1. y \in Nat /\ x \in Nat /\ <<y, x>> \notin less
    BY <1>2
  <2>2. y < x => <<y, x>> \in less
    BY <2>1
  <2> HIDE DEF less
  <2> QED BY <2>1, <2>2
<1> QED BY <1>3

(* The walk over differences adds up what they are the differences of.     *)
Sums(f, start, from, n, want) ==
  /\ from \in Int /\ n \in Nat /\ want \in [0..n -> Int] /\ want[0] = start
  /\ \A k \in 1..n : want[k] = want[k - 1] + LineInfo(f, from + k)

LEMMA WalkRight ==
  ASSUME NEW f, NEW start, NEW from, NEW n, NEW want, Sums(f, start, from, n, want)
  PROVE  Walk(f, start, from, n) = want[n]
<1>0. /\ from \in Int /\ n \in Nat /\ want \in [0..n -> Int] /\ want[0] = start
      /\ \A k \in 1..n : want[k] = want[k - 1] + LineInfo(f, from + k)
  BY DEF Sums
<1> USE <1>0
<1> DEFINE Eq(g) == [k \in 0..n |-> IF k = 0 THEN start ELSE g[k - 1] + LineInfo(f, from + k)]
           line == CHOOSE g : g = Eq(g)
           bad == {k \in 0..n : line[k] # want[k]}
<1>1. want = Eq(want)
  <2>1. \A k \in 0..n : want[k] = Eq(want)[k]
    <3> SUFFICES ASSUME NEW k \in 0..n PROVE want[k] = Eq(want)[k]
      OBVIOUS
    <3>1. k # 0 => k \in 1..n
      OBVIOUS
    <3> QED BY <3>1
  <2> DEFINE e == Eq(want)
  <2>2. e = [k \in 0..n |-> e[k]]
    OBVIOUS
  <2>3. \A k \in 0..n : want[k] = e[k]
    BY <2>1
  <2> HIDE DEF e
  <2>4. want = e
    BY <2>2, <2>3
  <2> QED BY <2>4 DEF e
<1>2. line = Eq(line)
  <2>1. \E g : g = Eq(g)
    BY <1>1
  <2> HIDE DEF Eq
  <2> QED BY <2>1
<1>3. line[0] = start /\ \A k \in 1..n : line[k] = line[k - 1] + LineInfo(f, from + k)
  <2> HIDE DEF line
  <2>1. 0 \in 0..n /\ \A k \in 1..n : k \in 0..n /\ k # 0
    OBVIOUS
  <2> QED BY <1>2, <2>1
<1>4. bad = {}
  <2> SUFFICES ASSUME bad # {} PROVE FALSE
    OBVIOUS
  <2> HIDE DEF line
  <2>1. bad \in SUBSET Nat
    OBVIOUS
  <2>2. PICK m \in bad : \A y \in bad : m <= y
    <3> HIDE DEF bad
    <3> QED BY <2>1, Least
  <2>3. m \in 0..n /\ line[m] # want[m]
    BY <2>2
  <2>4. m # 0
    BY <1>3, <2>3
  <2>5. m \in 1..n /\ m - 1 \in 0..n
    BY <2>3, <2>4
  <2>6. m - 1 \notin bad
    <3> HIDE DEF bad
    <3> QED BY <2>2, <2>5
  <2>7. line[m - 1] = want[m - 1]
    BY <2>5, <2>6
  <2> QED BY <1>3, <2>3, <2>5, <2>7
<1>5. Walk(f, start, from, n) = line[n]
  BY DEF Walk
<1>6. n \in 0..n
  OBVIOUS
<1> QED
  <2> HIDE DEF line
  <2> QED BY <1>4, <1>5, <1>6

(* The difference of an instruction.                                       *)
LEMMA DifferenceAt ==
  ASSUME NEW f, NEW ls, Ready(f, ls), NEW q \in Nat, q < Len(ls), LineInfo(f, q) # ABSLINEINFO
  PROVE  Before(ls, q + 2) = Before(ls, q + 1) + LineInfo(f, q)
<1>1. q + 1 \in 1..Len(ls) /\ q + 2 # 1 /\ q + 2 - 1 = q + 1
  BY DEF Ready
<1>2. ls[q + 1] = Before(ls, q + 1) + LineInfo(f, q)
  BY <1>1 DEF Ready, Differences, LineInfo
<1>3. Before(ls, q + 2) = ls[q + 1]
  BY <1>1 DEF Before
<1> QED BY <1>2, <1>3

LEMMA BeforeIs ==
  ASSUME NEW ls, NEW q \in Nat
  PROVE  Before(ls, q + 2) = ls[q + 1]
<1>1. q + 2 # 1 /\ q + 2 - 1 = q + 1
  OBVIOUS
<1> QED BY <1>1 DEF Before

LEMMA Quotient ==
  ASSUME NEW a \in Nat, NEW b \in Nat, b > 0
  PROVE  a \div b \in Nat /\ b * (a \div b) <= a
<1>1. a \div b \in Int /\ a % b \in 0..b - 1 /\ a = b * (a \div b) + (a % b)
  BY SMTT(30)
<1> DEFINE q == a \div b
           r == a % b
<1>2. q \in Int /\ r \in Nat /\ r < b /\ a = b * q + r
  BY <1>1
<1> HIDE DEF q, r
<1>3. b * q \in Int /\ b * q <= a
  BY <1>2
<1>4. q >= 0
  <2> SUFFICES ASSUME q <= -1 PROVE FALSE
    BY <1>2
  <2>1. b * q <= b * (-1)
    BY <1>2
  <2> QED BY <1>2, <1>3, <2>1
<1> QED BY <1>2, <1>3, <1>4 DEF q

(* Where a search starts: an absolute line at or before the instruction,   *)
(* or the beginning, with no absolute line in between.                     *)
LEMMA BaseRight ==
  ASSUME NEW f, NEW ls, Ready(f, ls), NEW pc \in 0..Len(ls) - 1
  PROVE  /\ LowEstimate(f, pc)
         /\ getbaseline(f, pc).pc \in Int /\ -1 <= getbaseline(f, pc).pc /\ getbaseline(f, pc).pc <= pc
         /\ getbaseline(f, pc).line = Before(ls, getbaseline(f, pc).pc + 2)
         /\ \A q \in getbaseline(f, pc).pc + 1..pc : LineInfo(f, q) # ABSLINEINFO
<1> DEFINE abs == f.abslineinfo
           k == Len(abs)
           n == Len(ls)
           e == Estimate(pc)
<1>1. /\ abs \in Seq(Absolute) /\ k \in Nat /\ n \in Nat /\ pc \in Nat /\ pc < n
      /\ (abs = <<>> <=> k = 0) /\ MAXIWTHABS \in Nat /\ MAXIWTHABS > 0
      /\ ls \in Seq(Int)
  BY LinesAssumption DEF Ready, FuncState
<1>2. (\A i \in 1..k : abs[i].pc <= MAXIWTHABS * i) /\ n <= MAXIWTHABS * (k + 1)
  BY DEF Ready, Near
<1>3. e \in Nat /\ MAXIWTHABS * e <= pc
  <2> HIDE DEF k, n
  <2> QED BY <1>1, Quotient DEF Estimate
<1>4. \A i \in 1..k : abs[i].pc \in Nat /\ \A j \in 1..i - 1 : abs[j].pc < abs[i].pc
  BY AbsoluteAt
<1>5. e <= k
  <2> SUFFICES ASSUME k + 1 <= e PROVE FALSE
    BY <1>1, <1>3
  <2> HIDE DEF e, k, n
  <2>1. PICK d \in Nat : e = k + 1 + d
    <3>1. e - (k + 1) \in Nat /\ e = k + 1 + (e - (k + 1))
      BY <1>1, <1>3
    <3> QED BY <3>1
  <2>2. MAXIWTHABS * e = MAXIWTHABS * (k + 1) + MAXIWTHABS * d /\ MAXIWTHABS * d \in Nat
    BY <1>1, <2>1
  <2> DEFINE A == MAXIWTHABS * (k + 1)
             B == MAXIWTHABS * d
             C == MAXIWTHABS * e
  <2>3. A \in Int /\ B \in Nat /\ C = A + B /\ C <= pc /\ n <= A
    BY <1>1, <1>2, <1>3, <2>2
  <2> HIDE DEF A, B, C
  <2> QED BY <1>1, <2>3
<1>6. e > 0 => e \in 1..k /\ abs[e].pc <= pc
  <2> SUFFICES ASSUME e > 0 PROVE e \in 1..k /\ abs[e].pc <= pc
    OBVIOUS
  <2> HIDE DEF e, k, n, abs
  <2>1. e \in 1..k
    BY <1>1, <1>3, <1>5
  <2>2. abs[e].pc <= MAXIWTHABS * e /\ abs[e].pc \in Nat /\ MAXIWTHABS * e \in Nat
    BY <1>1, <1>2, <1>4, <2>1
  <2> QED BY <1>1, <1>3, <2>1, <2>2
<1>7. LowEstimate(f, pc)
  BY <1>6 DEF LowEstimate
<1>8. ASSUME NEW q \in 0..pc, LineInfo(f, q) = ABSLINEINFO
      PROVE  \E i \in 1..k : abs[i].pc = q
  <2>1. q + 1 \in 1..n /\ q + 1 - 1 = q
    BY <1>1
  <2>2. f.lineinfo[q + 1] = ABSLINEINFO
    BY <1>8 DEF LineInfo
  <2>3. PICK i \in 1..k : abs[i].pc = (q + 1) - 1
    BY <2>1, <2>2, AbsoluteListed
  <2> HIDE DEF abs, k, n, e
  <2> QED BY <2>1, <2>3
<1>9. CASE abs = <<>> \/ pc < abs[1].pc
  <2>1. getbaseline(f, pc) = [pc |-> -1, line |-> linedefined]
    BY <1>9 DEF getbaseline
  <2>2. \A i \in 1..k : pc < abs[i].pc
    <3> HIDE DEF abs, k, n, e
    <3> SUFFICES ASSUME NEW i \in 1..k PROVE pc < abs[i].pc
      OBVIOUS
    <3>1. pc < abs[1].pc
      BY <1>1, <1>9
    <3>2. CASE i = 1
      BY <3>1, <3>2
    <3>3. CASE i # 1
      <4>1. 1 \in 1..i - 1 /\ 1 \in 1..k
        BY <1>1, <3>3
      <4>2. abs[1].pc < abs[i].pc /\ abs[1].pc \in Nat /\ abs[i].pc \in Nat
        BY <1>4, <4>1
      <4> QED BY <1>1, <3>1, <4>2
    <3> QED BY <3>2, <3>3
  <2>3. \A q \in 0..pc : LineInfo(f, q) # ABSLINEINFO
    <3> SUFFICES ASSUME NEW q \in 0..pc, LineInfo(f, q) = ABSLINEINFO PROVE FALSE
      OBVIOUS
    <3>1. PICK i \in 1..k : abs[i].pc = q
      BY <1>8
    <3>2. pc < q
      BY <2>2, <3>1
    <3> QED BY <1>1, <3>2
  <2>4. Before(ls, -1 + 2) = linedefined /\ -1 + 1 = 0 /\ -1 \in Int /\ -1 <= pc
    BY <1>1 DEF Before
  <2> HIDE DEF abs, k, n, e
  <2> QED BY <1>7, <2>1, <2>3, <2>4
<1>10. CASE ~(abs = <<>> \/ pc < abs[1].pc)
  <2> DEFINE Stops(i) == i = k \/ pc < abs[i + 1].pc
             Found(i) == Stops(i) /\ \A j \in e..i - 1 : pc >= abs[j + 1].pc
             S == {i \in e..k : Stops(i)}
             c == CHOOSE i \in e..k : Found(i)
  <2>1. getbaseline(f, pc) = abs[c]
    BY <1>10 DEF getbaseline
  <2> HIDE DEF abs, k, n, e
  <2>2. S \in SUBSET Nat /\ k \in S
    BY <1>1, <1>3, <1>5
  <2>3. PICK m \in S : \A y \in S : m <= y
    <3> HIDE DEF S
    <3> QED BY <2>2, Least
  <2>4. m \in e..k /\ Stops(m)
    BY <2>3
  <2>5. ASSUME NEW j \in e..m - 1 PROVE pc >= abs[j + 1].pc
    <3>1. j \in e..k /\ j \notin S /\ j # k
      BY <1>1, <1>3, <2>2, <2>3, <2>4
    <3>2. ~Stops(j)
      BY <3>1
    <3>3. j + 1 \in 1..k
      BY <1>1, <1>3, <3>1
    <3>4. abs[j + 1].pc \in Nat
      BY <1>4, <3>3
    <3> QED BY <1>1, <3>2, <3>4
  <2>6. c \in e..k /\ Found(c)
    <3>1. Found(m)
      BY <2>4, <2>5
    <3> HIDE DEF Found
    <3> QED BY <2>4, <3>1
  <2> HIDE DEF c
  <2>7. c \in Nat /\ c <= k /\ e <= c
    BY <1>1, <1>3, <2>6
  <2>8. c \in 1..k /\ abs[c].pc <= pc
    <3>1. CASE c = e /\ e > 0
      BY <1>6, <3>1
    <3>2. CASE c = e /\ e = 0
      <4>1. FALSE
        BY <1>1, <1>10, <2>6, <3>2
      <4> QED BY <4>1
    <3>3. CASE c # e
      <4>1. c - 1 \in e..c - 1 /\ c - 1 + 1 = c /\ c \in 1..k
        BY <1>1, <1>3, <2>7, <3>3
      <4>2. pc >= abs[c].pc
        BY <2>6, <4>1
      <4> QED BY <1>1, <1>4, <4>1, <4>2
    <3> QED BY <1>3, <3>1, <3>2, <3>3
  <2>9. /\ abs[c].pc \in Nat /\ abs[c].pc < n /\ abs[c].line = ls[abs[c].pc + 1]
    BY <2>8, AbsoluteAt DEF abs, k, n
  <2>10. \A i \in 1..k : i <= c \/ pc < abs[i].pc
    <3> SUFFICES ASSUME NEW i \in 1..k, ~(i <= c) PROVE pc < abs[i].pc
      OBVIOUS
    <3>1. c # k /\ c + 1 \in 1..k
      BY <1>1, <2>7
    <3>2. pc < abs[c + 1].pc /\ abs[c + 1].pc \in Nat
      BY <1>4, <2>6, <3>1
    <3>3. CASE i = c + 1
      BY <3>2, <3>3
    <3>4. CASE i # c + 1
      <4>1. c + 1 \in 1..i - 1
        BY <2>7, <3>4
      <4>2. abs[c + 1].pc < abs[i].pc /\ abs[i].pc \in Nat
        BY <1>4, <4>1
      <4> QED BY <1>1, <3>2, <4>2
    <3> QED BY <3>3, <3>4
  <2>11. \A q \in abs[c].pc + 1..pc : LineInfo(f, q) # ABSLINEINFO
    <3> SUFFICES ASSUME NEW q \in abs[c].pc + 1..pc, LineInfo(f, q) = ABSLINEINFO PROVE FALSE
      OBVIOUS
    <3>1. q \in 0..pc /\ abs[c].pc < q /\ q <= pc
      BY <1>1, <2>9, SMTT(30)
    <3>2. PICK i \in 1..k : abs[i].pc = q
      BY <1>8, <3>1
    <3>3. i <= c
      BY <1>1, <2>10, <3>1, <3>2
    <3>4. i = c \/ i \in 1..c - 1
      BY <2>7, <3>3
    <3>5. abs[i].pc <= abs[c].pc
      BY <1>4, <2>8, <3>4
    <3>6. q <= abs[c].pc /\ abs[c].pc < q
      BY <3>1, <3>2, <3>5
    <3> DEFINE x == abs[c].pc
    <3>7. x \in Int /\ q \in Int /\ q <= x /\ x < q
      BY <1>1, <2>9, <3>6
    <3> HIDE DEF x
    <3> QED BY <3>7
  <2>12. Before(ls, abs[c].pc + 2) = abs[c].line
    <3> DEFINE x == abs[c].pc
    <3>1. x \in Nat /\ abs[c].line = ls[x + 1]
      BY <2>9
    <3> HIDE DEF x
    <3>3. Before(ls, x + 2) = ls[x + 1]
      BY <3>1, BeforeIs
    <3> QED BY <3>1, <3>3 DEF x
  <2> QED BY <1>1, <1>7, <2>1, <2>8, <2>9, <2>11, <2>12
<1> QED BY <1>9, <1>10

LEMMA FunclineRight ==
  ASSUME NEW f, NEW ls, Ready(f, ls), NEW pc \in 0..Len(ls) - 1
  PROVE  luaG_getfuncline(f, pc) = ls[pc + 1]
<1> DEFINE base == getbaseline(f, pc)
           n == pc - base.pc
           want == [k \in 0..n |-> Before(ls, base.pc + k + 2)]
<1>1. /\ base.pc \in Int /\ -1 <= base.pc /\ base.pc <= pc /\ base.line = Before(ls, base.pc + 2)
      /\ \A q \in base.pc + 1..pc : LineInfo(f, q) # ABSLINEINFO
      /\ pc \in Nat /\ pc < Len(ls) /\ Len(ls) \in Nat
  <2>1. Len(ls) \in Nat
    BY DEF Ready
  <2> HIDE DEF base
  <2> QED BY <2>1, BaseRight DEF base
<1> HIDE DEF base
<1>2. n \in Nat /\ base.pc + n = pc /\ 0 \in 0..n /\ n \in 0..n /\ base.pc + 0 + 2 = base.pc + 2
  BY <1>1
<1>3. want[0] = base.line /\ want \in [0..n -> Int]
  <2>1. want[0] = base.line
    BY <1>1, <1>2
  <2>2. ASSUME NEW k \in 0..n PROVE Before(ls, base.pc + k + 2) \in Int
    <3> DEFINE q == base.pc + k + 2
    <3>1. q \in Int /\ (q = 1 \/ q - 1 \in 1..Len(ls))
      BY <1>1, <1>2, SMTT(30)
    <3> HIDE DEF q
    <3>2. ls \in Seq(Int) /\ linedefined \in Int
      BY LinesAssumption DEF Ready
    <3>3. CASE q = 1
      BY <3>2, <3>3 DEF Before, q
    <3>4. CASE q # 1
      <4>1. ls[q - 1] \in Int
        BY <3>1, <3>2, <3>4
      <4> QED BY <3>4, <4>1 DEF Before, q
    <3> QED BY <3>3, <3>4
  <2> QED BY <2>1, <2>2
<1>4. ASSUME NEW k \in 1..n PROVE want[k] = want[k - 1] + LineInfo(f, base.pc + k)
  <2> DEFINE q == base.pc + k
  <2>1. /\ q \in Nat /\ q < Len(ls) /\ q \in base.pc + 1..pc
        /\ k \in 0..n /\ k - 1 \in 0..n
        /\ base.pc + k + 2 = q + 2 /\ base.pc + (k - 1) + 2 = q + 1
    BY <1>1, <1>2, SMTT(30)
  <2>2. want[k] = Before(ls, q + 2) /\ want[k - 1] = Before(ls, q + 1)
    BY <2>1
  <2> HIDE DEF q, want
  <2>3. Before(ls, q + 2) = Before(ls, q + 1) + LineInfo(f, q)
    BY <1>1, <2>1, DifferenceAt
  <2> QED BY <2>2, <2>3 DEF q
<1>5. want[n] = Before(ls, pc + 2)
  BY <1>2
<1>6. luaG_getfuncline(f, pc) = Walk(f, base.line, base.pc, n)
  BY DEF luaG_getfuncline, base
<1> HIDE DEF want, n
<1>7. Walk(f, base.line, base.pc, n) = want[n]
  <2> DEFINE from == base.pc
             start == base.line
  <2>1. from \in Int /\ n \in Nat /\ want \in [0..n -> Int] /\ want[0] = start
    BY <1>1, <1>2, <1>3
  <2>2. \A k \in 1..n : want[k] = want[k - 1] + LineInfo(f, from + k)
    BY <1>4
  <2>3. Sums(f, start, from, n, want)
    <3> HIDE DEF from, start
    <3> QED BY <2>1, <2>2 DEF Sums
  <2> HIDE DEF from, start
  <2>4. Walk(f, start, from, n) = want[n]
    BY <2>3, WalkRight
  <2> QED BY <2>4 DEF from, start
<1> QED BY <1>1, <1>5, <1>6, <1>7, BeforeIs

LEMMA NextlineRight ==
  ASSUME NEW f, NEW ls, Ready(f, ls), NEW pc \in 1..Len(ls) - 1
  PROVE  nextline(f, ls[pc], pc) = ls[pc + 1]
<1>1. pc \in 0..Len(ls) - 1 /\ pc \in Nat /\ pc < Len(ls) /\ pc - 1 \in Nat /\ pc - 1 + 2 = pc + 1 /\ pc - 1 + 1 = pc
  BY DEF Ready
<1>2. CASE LineInfo(f, pc) = ABSLINEINFO
  BY <1>1, <1>2, FunclineRight DEF nextline
<1>3. CASE LineInfo(f, pc) # ABSLINEINFO
  <2>1. Before(ls, pc + 2) = Before(ls, pc + 1) + LineInfo(f, pc)
    BY <1>1, <1>3, DifferenceAt
  <2>2. Before(ls, pc + 2) = ls[pc + 1]
    BY <1>1, BeforeIs
  <2>3. Before(ls, pc + 1) = ls[pc]
    <3>1. pc + 1 # 1 /\ pc + 1 - 1 = pc
      BY <1>1
    <3> QED BY <3>1 DEF Before
  <2> QED BY <1>3, <2>1, <2>2, <2>3 DEF nextline
<1> QED BY <1>2, <1>3

LEMMA ChangedlineRight ==
  ASSUME NEW f, NEW ls, Ready(f, ls), NEW pc \in 0..Len(ls) - 1, NEW oldpc \in 0..pc - 1
  PROVE  changedline(f, oldpc, pc) <=> ls[oldpc + 1] # ls[pc + 1]
<1> DEFINE Close == /\ pc - oldpc < MAXIWTHABS \div 2
                    /\ \A q \in oldpc + 1..pc : LineInfo(f, q) # ABSLINEINFO
           n == pc - oldpc
           want == [k \in 0..n |-> Before(ls, oldpc + k + 2) - ls[oldpc + 1]]
<1>1. /\ Len(ls) \in Nat /\ pc \in Nat /\ oldpc \in Nat /\ oldpc < pc /\ pc < Len(ls) /\ oldpc \in 0..Len(ls) - 1
      /\ n \in Nat /\ 0 \in 0..n /\ n \in 0..n /\ oldpc + n = pc /\ oldpc + 0 + 2 = oldpc + 2 /\ oldpc + n + 2 = pc + 2
  BY DEF Ready
<1>0. \A p \in 0..Len(ls) - 1 : ls[p + 1] \in Int
  <2>1. \A p \in 0..Len(ls) - 1 : p + 1 \in 1..Len(ls)
    BY <1>1
  <2> QED BY <2>1 DEF Ready
<1>2. CASE Close
  <2>1. changedline(f, oldpc, pc) <=> Walk(f, 0, oldpc, n) # 0
    BY <1>2 DEF changedline
  <2>2. want \in [0..n -> Int]
    <3>1. ASSUME NEW k \in 0..n PROVE Before(ls, oldpc + k + 2) - ls[oldpc + 1] \in Int
      <4> DEFINE q == oldpc + k
      <4>1. q \in Nat /\ q \in 0..Len(ls) - 1 /\ oldpc + k + 2 = q + 2
        BY <1>1
      <4> HIDE DEF q
      <4>2. Before(ls, q + 2) = ls[q + 1]
        BY <4>1, BeforeIs
      <4> QED BY <1>0, <1>1, <4>1, <4>2
    <3> QED BY <3>1
  <2>3. want[0] = 0
    <3>1. Before(ls, oldpc + 2) = ls[oldpc + 1] /\ ls[oldpc + 1] \in Int
      BY <1>0, <1>1, BeforeIs
    <3>2. want[0] = Before(ls, oldpc + 2) - ls[oldpc + 1]
      BY <1>1
    <3> QED BY <3>1, <3>2
  <2>4. ASSUME NEW k \in 1..n PROVE want[k] = want[k - 1] + LineInfo(f, oldpc + k)
    <3> DEFINE q == oldpc + k
    <3>1. /\ q \in Nat /\ q < Len(ls) /\ q \in oldpc + 1..pc /\ q - 1 \in Nat
          /\ k \in 0..n /\ k - 1 \in 0..n
          /\ oldpc + k + 2 = q + 2 /\ oldpc + (k - 1) + 2 = q + 1
          /\ q \in 0..Len(ls) - 1 /\ q - 1 \in 0..Len(ls) - 1 /\ q - 1 + 2 = q + 1 /\ q - 1 + 1 = q
      BY <1>1
    <3>2. want[k] = Before(ls, q + 2) - ls[oldpc + 1] /\ want[k - 1] = Before(ls, q + 1) - ls[oldpc + 1]
      BY <3>1
    <3> HIDE DEF q, want
    <3>3. LineInfo(f, q) # ABSLINEINFO
      BY <1>2, <3>1
    <3>4. Before(ls, q + 2) = Before(ls, q + 1) + LineInfo(f, q)
      BY <1>1, <3>1, <3>3, DifferenceAt
    <3>5. Before(ls, q + 1) \in Int
      <4>1. Before(ls, q - 1 + 2) = ls[q - 1 + 1]
        BY <3>1, BeforeIs
      <4>2. ls[q - 1 + 1] \in Int
        BY <1>0, <3>1
      <4> QED BY <3>1, <4>1, <4>2
    <3>6. LineInfo(f, q) \in Int
      <4>1. q + 1 \in 1..Len(f.lineinfo) /\ f.lineinfo \in Seq(Int)
        BY <1>1, <3>1 DEF Ready, FuncState
      <4> QED BY <4>1 DEF LineInfo
    <3>7. ls[oldpc + 1] \in Int
      BY <1>0, <1>1
    <3> QED BY <3>2, <3>4, <3>5, <3>6, <3>7 DEF q
  <2>5. want[n] = ls[pc + 1] - ls[oldpc + 1]
    <3>1. want[n] = Before(ls, pc + 2) - ls[oldpc + 1]
      BY <1>1
    <3>2. Before(ls, pc + 2) = ls[pc + 1]
      BY <1>1, BeforeIs
    <3> QED BY <3>1, <3>2
  <2> HIDE DEF want, n
  <2>6. Walk(f, 0, oldpc, n) = want[n]
    <3>1. oldpc \in Int /\ n \in Nat
      BY <1>1
    <3>2. \A k \in 1..n : want[k] = want[k - 1] + LineInfo(f, oldpc + k)
      BY <2>4
    <3>3. Sums(f, 0, oldpc, n, want)
      BY <2>2, <2>3, <3>1, <3>2 DEF Sums
    <3> QED BY <3>3, WalkRight
  <2>7. ls[pc + 1] \in Int /\ ls[oldpc + 1] \in Int
    BY <1>0, <1>1
  <2> QED BY <2>1, <2>5, <2>6, <2>7
<1>3. CASE ~Close
  <2>1. changedline(f, oldpc, pc) <=> luaG_getfuncline(f, oldpc) # luaG_getfuncline(f, pc)
    BY <1>3 DEF changedline
  <2>2. luaG_getfuncline(f, oldpc) = ls[oldpc + 1] /\ luaG_getfuncline(f, pc) = ls[pc + 1]
    BY <1>1, FunclineRight
  <2> QED BY <2>1, <2>2
<1> QED BY <1>2, <1>3

(* The debug information gives each instruction its line, whatever the     *)
(* source, the size of a difference and the distance of absolute lines     *)
(* (ldebug.c:62, 85, 284, 881).                                            *)
THEOREM LinesLookedUp == LinesSpec => []LinesRight
<1>1. LinesInv => LinesRight
  <2> SUFFICES ASSUME LinesInv, NEW pc \in Instructions
               PROVE  /\ LowEstimate(fs, pc)
                      /\ luaG_getfuncline(fs, pc) = lines[pc + 1]
                      /\ pc > 0 => nextline(fs, lines[pc], pc) = lines[pc + 1]
                      /\ \A oldpc \in 0..pc - 1 : changedline(fs, oldpc, pc) <=> lines[oldpc + 1] # lines[pc + 1]
    BY DEF LinesRight
  <2>1. Ready(fs, lines) /\ pc \in 0..Len(lines) - 1
    BY DEF LinesInv, Saved, Instructions
  <2>2. pc > 0 => pc \in 1..Len(lines) - 1
    BY <2>1
  <2>3. LowEstimate(fs, pc)
    BY <2>1, BaseRight
  <2>4. luaG_getfuncline(fs, pc) = lines[pc + 1]
    BY <2>1, FunclineRight
  <2>5. pc > 0 => nextline(fs, lines[pc], pc) = lines[pc + 1]
    BY <2>1, <2>2, NextlineRight
  <2>6. \A oldpc \in 0..pc - 1 : changedline(fs, oldpc, pc) <=> lines[oldpc + 1] # lines[pc + 1]
    BY <2>1, ChangedlineRight
  <2> QED BY <2>3, <2>4, <2>5, <2>6
<1> QED BY <1>1, Invariant, PTL
=============================================================================
