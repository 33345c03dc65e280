------------------------------ MODULE LuaLines ------------------------------
(***************************************************************************)
(* The lines of instructions (lcode.c, ldebug.c). The code generator keeps *)
(* for each instruction the difference to the line of the one before, and, *)
(* where that does not fit in a byte or after MAXIWTHABS instructions, an  *)
(* absolute line in another list. It changes and removes the last one.     *)
(* Instructions are counted from 0, the sequences start at 1.              *)
(***************************************************************************)
EXTENDS Integers, Sequences, SequencesExt

CONSTANTS LIMLINEDIFF,   \* the first difference that does not fit
          MAXIWTHABS,    \* the most instructions without an absolute line
          linedefined,   \* the line where the function begins
          LastLine,      \* the largest line of the source
          MaxCode        \* bound on the length of the code
ASSUME LinesAssumption == /\ LIMLINEDIFF \in Nat \ {0} /\ MAXIWTHABS \in Nat \ {0}
                          /\ linedefined \in Nat /\ LastLine \in Nat /\ MaxCode \in Nat

VARIABLES fs,         \* line information of the function that is compiled
          lastline,   \* line of the last token that was read
          lines       \* the line that each instruction was given last
linevars == <<fs, lastline, lines>>

ABSLINEINFO == -LIMLINEDIFF       \* no difference
Distance(a, b) == IF a < b THEN b - a ELSE a - b
------------------------------------------------------------------------------
(* ---- the code generator ---- *)
savelineinfo(f, line) ==
  LET linedif == line - f.previousline
      absolute == Distance(line, f.previousline) >= LIMLINEDIFF \/ f.iwthabs >= MAXIWTHABS
  IN IF absolute
     THEN [lineinfo |-> Append(f.lineinfo, ABSLINEINFO), previousline |-> line, iwthabs |-> 1,
           abslineinfo |-> Append(f.abslineinfo, [pc |-> Len(f.lineinfo), line |-> line])]
     ELSE [lineinfo |-> Append(f.lineinfo, linedif), previousline |-> line, iwthabs |-> f.iwthabs + 1,
           abslineinfo |-> f.abslineinfo]

RemovedRelative(f) ==
  [lineinfo |-> Front(f.lineinfo), previousline |-> f.previousline - Last(f.lineinfo),
   iwthabs |-> f.iwthabs - 1, abslineinfo |-> f.abslineinfo]
RemovedNotForced(f) ==      \* after an absolute line the next one may be relative
  IF Last(f.lineinfo) # ABSLINEINFO THEN RemovedRelative(f)
  ELSE [f EXCEPT !.lineinfo = Front(@), !.abslineinfo = Front(@)]
removelastlineinfo(f) ==
  IF Last(f.lineinfo) # ABSLINEINFO THEN RemovedRelative(f)
  ELSE [lineinfo |-> Front(f.lineinfo), previousline |-> f.previousline,
        iwthabs |-> MAXIWTHABS + 1, abslineinfo |-> Front(f.abslineinfo)]

LinesInit == /\ fs = [lineinfo |-> <<>>, previousline |-> linedefined, iwthabs |-> 0, abslineinfo |-> <<>>]
             /\ lastline = linedefined /\ lines = <<>>

NextLine == lastline < LastLine /\ lastline' = lastline + 1 /\ UNCHANGED <<fs, lines>>

luaK_code == /\ Len(lines) < MaxCode /\ UNCHANGED lastline
             /\ fs' = savelineinfo(fs, lastline)
             /\ lines' = Append(lines, lastline)

luaK_fixline == \E line \in linedefined..lastline :
  /\ lines # <<>> /\ UNCHANGED lastline
  /\ fs' = savelineinfo(removelastlineinfo(fs), line)
  /\ lines' = Append(Front(lines), line)

(* The last instruction is an OP_NOT: it is removed, and a test and a jump  *)
(* are coded.                                                               *)
jumponcond ==
  /\ lines # <<>> /\ Len(lines) < MaxCode /\ UNCHANGED lastline
  /\ fs' = savelineinfo(savelineinfo(removelastlineinfo(fs), lastline), lastline)
  /\ lines' = Append(Append(Front(lines), lastline), lastline)

LinesNext == NextLine \/ luaK_code \/ luaK_fixline \/ jumponcond
LinesSpec == LinesInit /\ [][LinesNext]_linevars
------------------------------------------------------------------------------
(* ---- the debug information ---- *)
LineInfo(f, pc) == f.lineinfo[pc + 1]

(* The absolute line from which the search for that of 'pc' starts; it must *)
(* not be beyond 'pc'.                                                      *)
Estimate(pc) == pc \div MAXIWTHABS
LowEstimate(f, pc) == Estimate(pc) > 0 => /\ Estimate(pc) <= Len(f.abslineinfo)
                                          /\ f.abslineinfo[Estimate(pc)].pc <= pc

getbaseline(f, pc) ==
  IF f.abslineinfo = <<>> \/ pc < f.abslineinfo[1].pc
  THEN [pc |-> -1, line |-> linedefined]
  ELSE f.abslineinfo[CHOOSE i \in Estimate(pc)..Len(f.abslineinfo) :
         /\ i = Len(f.abslineinfo) \/ pc < f.abslineinfo[i + 1].pc
         /\ \A j \in Estimate(pc)..i - 1 : pc >= f.abslineinfo[j + 1].pc]

(* 'start' and the differences of the n instructions after 'from'. *)
Walk(f, start, from, n) ==
  LET line[k \in 0..n] == IF k = 0 THEN start ELSE line[k - 1] + LineInfo(f, from + k)
  IN line[n]

luaG_getfuncline(f, pc) ==
  LET base == getbaseline(f, pc) IN Walk(f, base.line, base.pc, pc - base.pc)

changedline(f, oldpc, newpc) ==
  IF /\ newpc - oldpc < MAXIWTHABS \div 2
     /\ \A pc \in oldpc + 1..newpc : LineInfo(f, pc) # ABSLINEINFO
  THEN Walk(f, 0, oldpc, newpc - oldpc) # 0
  ELSE luaG_getfuncline(f, oldpc) # luaG_getfuncline(f, newpc)

nextline(f, currentline, pc) ==
  IF LineInfo(f, pc) # ABSLINEINFO THEN currentline + LineInfo(f, pc) ELSE luaG_getfuncline(f, pc)
------------------------------------------------------------------------------
(* ---- properties ---- *)
Instructions == 0..Len(lines) - 1

(* The debug information gives each instruction the line that the code      *)
(* generator gave it, in the three ways that ldebug.c reads it, although it *)
(* was changed and removed; the search starts at or before the instruction, *)
(* as getbaseline asserts (ldebug.c:70).                                    *)
LinesRight ==
  \A pc \in Instructions :
    /\ LowEstimate(fs, pc)
    /\ luaG_getfuncline(fs, pc) = lines[pc + 1]
    /\ pc > 0 => nextline(fs, lines[pc], pc) = lines[pc + 1]
    /\ \A oldpc \in 0..pc - 1 : changedline(fs, oldpc, pc) <=> lines[oldpc + 1] # lines[pc + 1]
=============================================================================
