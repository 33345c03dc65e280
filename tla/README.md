# Verification of luava: the Lua core and its Java binding

luava embeds Lua into Java: a small binding (`src/src/main/java`) over the
sources of Lua 5.5.0 (`src/lua/src`), which are part of the repository. This
directory holds TLA+ modules that model the parts of both whose correctness
depends on the order of events, or on an algorithm that is easily wrong at its
boundaries, TLC configurations that check them on small instances, and TLAPS
proofs for instances of any size.

Paths below are short for `src/lua/src/...` (C) and
`src/src/main/java/org/itsallcode/luava/...` (Java).

## 1. Inventory

| Component | State | Operations | Interacts with | What makes it correct |
|---|---|---|---|---|
| incremental collector (`lgc.c`) | colors, two whites, `gcstate`, lists `allgc`/`finobj`/`tobefnz`, `gray`/`grayagain`, `twups`, sweep position | `singlestep`, `luaC_fullgc`, barriers, finalizers, `luaC_freeallobjects` | every module that writes a reference calls a barrier; `lmem.c` starts emergency collections; finalizers run Lua code | nothing reachable is freed; garbage is; finalizers run once, before the object is freed; weak tables lose garbage only |
| generational collector (`lgc.c`) | ages, `survival`, `old1`, `reallyold`, `firstold1` and those of `finobj` | `youngcollection`, `fullgen`, `entergen`, `minor2inc` | as above; `checkSizes` | an old object never hides a young one; the sublists hold what they must |
| upvalues, to-be-closed variables (`lfunc.c`) | `openupval`, `twups`, `tbclist` | find, close, close with errors | stacks (`ldo.c`), collector | closures share one variable; every variable is closed once, innermost first |
| string table (`lstring.c`) | buckets, `size`, `nuse`, API cache | intern, resize, remove | collector removes; `lmem.c` fails | equal short strings are one object |
| state (`lstate.c`), memory (`lmem.c`) | `global_State`, `GCdebt`, `gcstopem` | new, close, `luaM_realloc_` with a retry | collector | a failed allocation leaves things as they were |
| calls, errors, coroutines (`ldo.c`, `lcorolib.c`) | stack, `CallInfo` list, `nCcalls`, `errorJmp`, status | call, return, `luaD_throw`, `luaD_pcall`, resume, yield, close | upvalues, hooks, collector | an error or a yield leaves frames, counters and variables as the language says |
| tables (`ltable.c`) | array part, nodes, `lastfree` | get, set, `rehash`, `luaH_next`, `luaH_getn` | collector (dead keys, weak entries) | a map; traversal visits every key once; border |
| virtual machine (`lvm.c`) | registers | opcodes | all of the above | a program does what the manual says |
| compiler (`llex.c`, `lparser.c`, `lcode.c`) | blocks, active variables, pending gotos, jump lists, lines | scopes, goto, patching | `Proto` | jumps land in scope and close what they leave; registers hold what they should |
| precompiled chunks (`ldump.c`, `lundump.c`) | saved strings | dump, load | readers and writers | what is loaded is what was dumped |
| C API (`lapi.c`), `lauxlib.c` | stack frame of a C function; buffers | push, pop, set, `luaL_ref`, `luaL_addlstring` | barriers | stack discipline |
| standard libraries | mostly none; state of the random generator | `sort`, patterns, `pack`, `utf8`, `math`, ... | C API | results, and no access out of bounds |
| Java binding (`LuaInterpreter`, `LowLevelLua`, `LuaStack`, `LuaTable`, `LuaFunction`) | the Lua stack of the main state | globals, calls, callbacks, conversions | C API; Lua calls back into Java | balanced stack, handles that read the table they were made for, errors reported as what they are |
| `lua.c`, `luac.c`, messages of `ldebug.c`, build | none of their own | I/O | | |

There is one operating-system thread. The concurrency of this code is inside of
it: the collector takes a step at any allocation of the program, an allocation
may fail and run a whole collection, finalizers and callbacks run in the middle
of operations, coroutines interleave, an error or a yield jumps over C functions
that wait. The list of what is hard to test is `hazards` in `PROJECT.json`, each
with its line and the properties that cover it.

## 2. Modules

| Module | What it is |
|---|---|
| `LuaGC`, `MCLuaGC` | the incremental collector and all mutator operations it depends on; three scenarios |
| `LuaGenerations`, `GenerationPrograms`, `MCLuaGenerations` | the generational collector; the objects and programs it is checked with |
| `LuaStrings`, `MCLuaStrings` | the string table under failing allocations and both collectors |
| `MCLuaModes` | the two modules above as two parts of one instance: what the generational mode changes |
| `LuaCalls`, `MCLuaCalls` | calls, errors, to-be-closed variables and coroutines, with the C stack |
| `LuaCoroutines` | what these promise to a program, without a C stack; `LuaCalls` implements it |
| `LuaTable`, `MCLuaTable` | a table: array, nodes, rehash, traversal, length |
| `LuaMap` | the map that a table promises to be; `LuaTable` implements it |
| `LuaCode`, `LuaParser`, `LuaVM`, `MCLuaVM` | the code generator, the parser's actions, the virtual machine; the programs |
| `LuaSemantics`, `LuaValues` | the meaning of programs, without registers and jumps; values |
| `LuaNumbers` | integer loops, arithmetic, comparisons, numerals, the collector's pause |
| `LuaMath` | the mathematical library: conversions, `fmod`, minima, random integers |
| `LuaTableLib` | insert, remove, move, unpack, sort; `select`; `luaL_ref` |
| `LuaStringLib` | buffers, `table.concat`, the simple string functions, `tonumber` with a base |
| `LuaPatterns`, `LuaMatches` | the pattern matcher; what a pattern means |
| `LuaChunks`, `LuaPack`, `LuaUtf8` | precompiled chunks, `string.pack`, the utf8 library |
| `LuaLines` | the lines of instructions: code generator and debug information |
| `LuaLibrary`, `MCLuaLibrary` | a program that uses `LuaTable`, `LuaLines` and the pure functions above |
| `LuaHost`, `MCLuaHost` | the Java binding |
| `LuaGCProofs`, `LuaGCInvariant`, `LuaGCWeakProofs` | proofs about `LuaGC` |
| `LuaCallsProofs`, `LuaStringsProofs`, `LuaTableProofs`, `LuaHostProofs`, `LuaLinesProofs` | proofs about the modules they are named for |

Definitions marked "faulty" or "mutant" are variants of the code with one
plausible mistake; they are used only to see that each property notices it.

### 2.1 LuaGC

An object is an address with a type. Its references are sets: `slots` (stack of
a thread, upvalues of a closure, value of an upvalue, user values), `meta`
(metatable), `entries` (key and value pairs of a table), `owner` (the threads
in whose `openupval` list an upvalue is). The collector's lists are sets as
well (`list`, `gray`, `grayagain`, `tosweep`, `twups`): membership is kept, order
is not, so the collector takes some element where the code takes the first.

- *Mutator* actions are the functions that allocate or write references, with
  the barrier that each calls: `NewObject` (`luaC_newobj`), `SetEntry`
  (`aux_rawset`, back barrier), `SetUserValue`, `SetReference` (upvalue of a
  closure), `FindUpval`, `SetUpval`, `CloseUpval` (`lfunc.c`), `SetMetatable`
  (`lua_setmetatable` with `luaC_checkfinalizer`; setting the same metatable again
  registers a finalized object once more, but not while the state is closed, as
  `gcstp` says), `SetMode` (`__mode` of a
  metatable), `InternString` (resurrects a dead string), `CachedString`. The
  mutator can only name what it can reach (`Accessible`).
- *Collector* actions are the cases of `singlestep`: `Restart`, `PropagateMark`,
  `FinishPropagate`, `Atomic`, `SweepOne`, `SweepNext`, `CallFinalizer`, `FinishCycle`.
  `Atomic` is the whole of `atomic()`: remaining gray objects, `remarkupvals`,
  ephemerons to their fixed point, the two clearings of weak values, the
  separation and marking of objects to be finalized, the clearing of keys, the
  flip of the white. What marking reaches is a least fixed point (`Converged`),
  which is what the loops of `propagateall` and `convergeephemerons` compute.
- `GCTM` puts the object back into `allgc`, whitens it if the sweep has passed, and
  starts its finalizer, during which the mutator runs and the collector does
  not; `EndFinalizer` ends it.
- `FullGC` and `FullNext` are `luaC_fullgc`, requested or emergency, started at any
  time, including inside a finalizer; `CloseState`, `CloseFinalizer` and `FreeAll` are
  `lua_close`.

### 2.2 LuaGenerations

`g` is `global_State` with the objects: color, age, references, and the lists
`allgc`, `finobj` and `tobefnz` as sequences, since the sublists (`survival`,
`old1`, `reallyold`, `firstold1`) are pointers into them. A young collection is
one step, as in the code (`markold`, `atomic`, `sweepgen`, `correctgraylists`); it
ends in minor mode or, as sizes may decide, in major mode, whose sweep is
incremental. `waits` says what the program waits for between the steps of one
operation: `"finalizers"` that the collection calls, or `"entergen"` after the first
half of `fullgen` or of a change of mode. An emergency collection may come inside
of a finalizer. Barriers (`luaC_barrier`, `luaC_barrierback`) are those of both
modes. The marking of a major cycle is one step, since `LuaGC` has its steps;
ephemerons and tables with weak keys are there as well, not here.

### 2.3 LuaStrings

Buckets are sets; `Rehash` is `tablerehash`. An operation that allocates is split
where the allocation may fail (`op.at` is `"grow"`, `"create"` or `"shrink"`), and there
`Emergency` frees all garbage through `luaS_remove`. `StopEm` is `gcstopem`: set by
`singlestep`, and not set around `youngcollection` and `entergen`. `lost` says that
`luaS_remove` looked for a string in a chain that does not hold it, which in the
code is a walk past the end of the chain. Strings that may live at two
addresses make it possible that equal strings become two objects.

### 2.4 LuaCalls and LuaCoroutines

`th` are the Lua threads (values, call infos, `tbclist`, counters, handler),
`cstack` is the one C stack: a record for each C function that waits for a call
(`luaV_execute`, `luaD_rawrunprotected`, `luaD_pcall`, `lua_resume`, `luaF_close`, a
library function, ...), and `ret` what the last one returned. An action is what
the function on the top does until it calls or returns. `luaD_throw` cuts the C
stack at the thread's `errorJmp` and does what the catcher does with the status;
a yield cuts it in the same way, and `unroll` finishes from the call infos what
was cut off (`luaV_finishOp`, `finishCcall`). The two counts in `nCcalls` are `nC` and
`nny`. Lua functions do anything: their steps are chosen freely from the
operations that a kind of program has.

`LuaCoroutines` sees only activations, variables and errors being raised, one
stack for each thread: an error unwinds to the nearest protected call, closing
variables innermost first, each once and with the latest error, and a yield
leaves the stack as it is. `Items` is the refinement mapping; `items` records its
value, and `KeepsPromise` is `LuaCoroutines`' specification.

### 2.5 LuaTable and LuaMap

`t` has the array with its size, the nodes with `next`, dead keys, `lastfree` and
the hint for the length. `Set` is `luaH_set` with the free pointer, the move of a
colliding node and `rehash`; a resize waits where it allocates (`AllocNodes`,
`AllocArray`) and may fail there. Between steps the collector clears weak entries
(`Marked` is the least set that the roots and the entries require, where the value
of a weak key counts if its key is in the set) and the program forgets objects and
creates them again at the same address. A
traversal takes its next key by `luaH_next`. `LuaMap` is a map with a traversal that
visits each entry once unless one is added; `KeepsMap` is its specification.

### 2.6 The compiler, the virtual machine and LuaSemantics

`LuaParser` has an operator for each grammar rule, on syntax trees in place of
tokens, over the state of `LuaCode`: code, registers, expression descriptors with
their jump lists, blocks, variables, pending gotos. `LuaVM` runs the code, one
instruction in a step, with frames, upvalues open in the stack, to-be-closed
positions and calls of the host that may yield. `LuaSemantics` interprets the same
trees with an environment and a store. A program's results, errors and
calls of the host must be the same (`Agrees`), and the compiler must refuse what
the semantics of scopes refuses (`ScopesMatch`).

### 2.7 LuaLibrary and LuaLines

`LuaLibrary` calls each pure function with every argument of a set and compares
the result with a definition that does not use its algorithm: a list of all
matches of a pattern in the order of preference (`LuaMatches`), the
mathematical value of a numeral, a sorted permutation, an equal share of the
random numbers for each integer of an interval. `Ref` and `Unref` are
sequences of calls of `luaL_ref` and `luaL_unref`. `LuaLines` is a state machine of
its own: `luaK_code` appends an instruction with the line of the last token,
`luaK_fixline` changes the last line, `jumponcond` removes an instruction and codes
two; the three readers of `ldebug.c` (`luaG_getfuncline`, `changedline`, `nextline`)
are operators on the result.

### 2.8 LuaHost

`frames` are the Lua stack frames that Java code sees: that of the host program and
one for each callback; `calls` are the `lua_pcallk` in progress. Values are their types,
which decide whether a conversion succeeds, except for the tables that LuaTables
are made for: `Tables` has an identity for each, `made` collects them. Every LuaTable has
index -1, so that `Receiver`, the object that each of them reads, is the top of the
frame that runs, whichever frame and table it was made for. The field `fresh` of a
frame is for the properties: the LuaTable that was made last in it, as long as no
conversion has failed since. `Call`/`Exec` enter Lua, `LuaReturns`
and `LuaFails` come back, `Upcall` and `UpcallInCoroutine` are `invokeMethod`,
`JavaReturns` and `JavaThrows` its ends. A Java exception that leaves a callback,
and a Lua error outside of a protected call, end the process (`Abort`).
The model keeps what the code does when conversions fail: the value stays.

## 3. Runs

| Run | Instance | Properties |
|---|---|---|
| `gc_upvalues` | a coroutine, an upvalue, a closure; full and emergency collections | `TypeOK`, `NoDangling`, `GrayListed` |
| `gc_weak` | a table of every mode, a finalizable key, a string | `TriColor`, `ClearsOnlyGarbage`, `WeakOrder` |
| `gc_live` | a coroutine, an upvalue, a table whose finalizer may register it again; `lua_close` at any time | `IInv` (the invariant that is proved), `FinalizedFirst`, `GarbageFreed`, `PendingFinalized`, `CloseEnds` |
| `host_balance` | frames of up to 3 values, 2 nested frames, 2 tables with a LuaTable | `Balanced`, `HandlesRead` |
| `vm_compile` | over 1100 programs, with 5 inputs each | `Agrees`, `ScopesMatch`, `Asserts`, `ReturnsClose` |
| `calls` | nine kinds of programs with one or two coroutines | `StackRight`, `CountsRight`, `JumpsLive`, `ErrorNotNil`, `KeepsPromise` |
| `library` | eight kinds of tables; every pure function with the arguments of `MCLuaLibrary`; lines of up to 8 instructions | `LengthIsBorder`, `NoDanglingEntry`, `ChainsRight`, `KeepsMap` (tables); `LoopsRight`, `NumbersRight`, `ArraysRight`, `RefsUnique`, `MatchesRight`, `BytesRight` (functions); `LinesRight` |
| `modes` | 7 strings in both modes; 7 objects and 7 programs in generational mode | `InBucket`, `Interned`, `HeldLive`, `RemoveFinds`; `NothingLost`, `OldHidesNoYoung`, `SublistsRight` |
| `strings_shrink` | the strings of `modes`, shrinking may fail in generational mode | violates `RemoveFinds` |
| `table_shrink` | the tables of `library`, the array of a weak table may fail to shrink | violates `NoDanglingEntry` |
| `calls_selfclose` | a coroutine closes itself while it is closed after an error | violates `ErrorNotNil` |
| `generations_join` | `lua_upvaluejoin` takes open upvalues | violates `NothingLost` |

**What they show.** `gc_*`: nothing in use is freed whatever the program writes
between two steps of the collector, garbage is freed at last, finalizers come
first, and `lua_close` ends although finalizers that it calls register their objects
again. `calls`: what a program sees of calls, errors and coroutines is what
`LuaCoroutines` promises; the C stack, the counts and the handlers fit to each
other in every state. `vm_compile`: compiled programs do what the language says.
`host_balance`: what operations leave on the stack, and exactly which LuaTable reads
its table. `library`: a table is a map under failing allocations and collections, and each
function gives what its definition gives. `modes`: equal strings stay one object
in both modes, and young collections miss nothing.

**Bounds.** In `LuaGC` three objects besides the main thread and the registry: a
pointer hidden from the collector needs an object that hides it, one that is
hidden and one through which the mutator still finds it; an upvalue problem
needs the thread, the upvalue and a closure; a resurrection needs the finalized
object and what it refers to. What the mutator may store where is fixed for each
scenario (`Stores`, `Metas`, `SetModes`). In `LuaGenerations` there is an object of
each type, and a program stores few kinds of references, so that objects live
through the four collections that make them old, get touched and are found
again. In `LuaStrings` the hashes collide at 2, 4 and 8 buckets, and the table
reaches its limit, grows and shrinks while it holds strings. In `LuaHost` one nested
callback shows what a callback can do to its caller's frame (none: it has its
own), 3 values let arguments, results and left-over values be there at once,
two LuaTables (which are alike, so that the instance is symmetric in them) let one
be made before or after the other, in the same frame, in a callback or in the host, and
a call into Java passes at most one argument (`MaxArgs`), so that methods with two
parameters find none or one. The theorems of section 4 hold without any of the
bounds of `LuaGC`, `LuaStrings`, `LuaHost`, `LuaCalls`, `LuaTable` and `LuaLines`.

In `LuaCalls` a function has at most `MaxVars` = 2 variables to close, a coroutine
takes `fuel` many operations of its kind, and the limits of nested C calls are 6 and,
while an overflow is handled, 8, in the place of 200 and 220: overflows happen in
calls, message handlers and closing methods. In `LuaTable` integers go up to 18,
arrays to 2^4 elements, nodes to 2^3, and the keys of a kind collide; `lastfree` is
used from 4 nodes on. One kind of tables has weak keys in a chain of three
ephemerons, one has the keys 1, 2, 5, 10 and 18, with which the search for a border
doubles its index up to the largest integer. In `LuaVM` a constructor stores 2 items at a time. The functions of
`LuaLibrary` have integers of 4 bits and floats with a mantissa of 2 bits, so that not
every integer is a float; in `LuaPack` a byte has 2 bits, an integer 2 bytes and the
longest result 50 bytes; in `LuaStringLib` a string has at most 7 bytes of 2 bits, a
buffer 2 bytes before it moves to a box, and the stack room for 3 values; in `LuaChunks` a number has 2 bits in each unit (`SEVEN` = 4);
`LuaUtf8` has the real values. `LuaPatterns` allows 3 captures and a depth of 40, which
no pattern of the run exceeds. `LuaLines` has `LIMLINEDIFF` = 2 and `MAXIWTHABS` = 4, 3 lines
and 8 instructions, so that both reasons for an absolute line occur, alone and
together, and two absolute lines are in one function.

**Deadlock** is checked by `vm_compile`, `calls` and `library` (and by the runs of their
modules that expect a violation): a program that ended stutters explicitly. The
others may stop: a closed state, an ended process, a lost string, a host that is
full up to its bound, a heap whose objects are all in use.

**Fairness** (only `gc_live`). `Collector`: a program that goes on allocates, the debt
becomes positive and `luaC_checkGC` steps. `EndFinalizer`: finalizers return.
`FullNext`, `CloseFinalizer`/`FreeAll`: loops that have begun go on. Nothing is assumed
of the mutator, which may also do nothing.

**Violations.** The four are disagreements between the code and its own comments
and assertions (`findings` in `PROJECT.json`), each confirmed with a build of the
interpreter:

1. `strings_shrink`: in generational mode, `finishgencycle` shrinks the string table
   without stopping emergency collections; if that reallocation fails, the
   emergency collection works on a half-moved table. The incremental collector
   does the same inside of `singlestep`, with `gcstopem` set, and is correct.
2. `table_shrink`: when the array of a table with weak values shrinks, its vanishing
   part is copied into the new nodes before the new array is allocated; the
   emergency collection of a failing allocation clears the old array, not the copies.
3. `calls_selfclose`: a coroutine that failed is being closed, and a `__close` that
   this calls closes the coroutine itself: the original error status is returned
   with nil in place of the error object.
4. `generations_join`: `lua_upvaluejoin` gives an old closure an upvalue that is open in
   a young coroutine; the upvalue gets old before its thread, is closed by a sweep,
   where no barrier acts, and refers to a young object that is freed.

Seen while modelling, and kept in the models as the code has it: a Lua error
whose object is not a string makes `checkStatus` throw another exception than the
one for failed calls and leaves the object (`LuaFails`), as every failed conversion
leaves its value; a LuaTable remembers index -1 in place of its table
(`LuaInterpreter.java:54`, `LuaTable.java:42`), so that a second `getGlobalTable`, a
failed conversion, or being used in another frame than its own makes it read
another table or end the process (`HandlesRead` says when it does not, and that it
always does otherwise); a callback that gets fewer
arguments than its method has parameters reads below its frame
(`LuaStack.java:254`); results are popped last first but converted by the types in
the order given; a `void` method returns `nil` as a value since the test is for
`Void.class`; a callback in a coroutine uses the main thread's stack, so that its
result is not delivered. A NaN as limit of an integer loop is below every integer
for a negative step, as `LoopsRight` says.

## 4. Proofs

All for arbitrary values of the constants, from the assumptions named in the
modules (`ObjAssumption`, `StringsAssumption`, `LinesAssumption`, ...), which say no
more than what type each constant has, and for tables that the largest array is
smaller than the largest integer.

| Module | Theorem | Statement |
|---|---|---|
| `LuaGCProofs` | `TypeCorrect` | `Spec => []TypeOK` |
| `LuaGCInvariant` | `Invariant` | `Spec => []IInv` |
| | `NothingDangles` | `Spec => []NoDangling` |
| | `BlackNeverPointsToWhite` | `Spec => []TriColor` |
| | `GrayObjectsListed` | `Spec => []GrayListed` |
| | `FinalizersBeforeFree` | `Spec => FinalizedFirst` |
| `LuaGCWeakProofs` | `GarbageOnlyCleared` | `Spec => ClearsOnlyGarbage` |
| | `WeakValuesFirst` | `Spec => WeakOrder` |
| `LuaCallsProofs` | `Invariant` | `Spec => []IInv` |
| | `HandlersLive` | `Spec => []JumpsLive` |
| | `CountsExact` | `Spec => []CountsRight` |
| | `YieldsLand` | `Spec => []YieldsResume` |
| `LuaStringsProofs` | `Invariant` | `Spec => []IInv` |
| | `StringsInBuckets` | `Spec => []InBucket` |
| | `EqualStringsAreOne` | `Spec => []Interned` |
| | `HeldStringsLive` | `Spec => []HeldLive` |
| | `RemoveFindsString` | `Spec => []RemoveFinds`, if shrinking does not fail in generational mode |
| `LuaTableProofs` | `TypeCorrect` | `Spec => []TypeInv` |
| | `LengthRight` | `Spec => []LengthIsBorder` |
| | `EntriesAlive` | `Spec => []NoDanglingEntry`, if no array of a table with weak values may fail to shrink |
| | `ChainsFit` | `Spec => []ChainsRight` |
| | `MapKept` | `Spec => KeepsMap`, the refinement of `LuaMap`, under the same condition |
| `LuaHostProofs` | `Invariant` | `Spec => []IInv` |
| | `TypeCorrect` | `Spec => []HostTypeOK` |
| | `OperationsBalance` | `Spec => []Balanced` |
| | `FreshTableRead` | `Spec => []HandlesRead` |
| `LuaLinesProofs` | `Invariant` | `LinesSpec => []LinesInv` |
| | `LinesLookedUp` | `LinesSpec => []LinesRight` |

**The collector.** `NoDangling` is not inductive: it speaks of what is reachable, while
a step marks, sweeps and flips. The invariant replaces reachability by a local
condition: an object is *sound* if it is allocated and not dead, and sound
objects refer to sound objects only (`RefsSound`); soundness of the roots then
carries over to whatever is reachable. To keep it through the sweep one has to
know that dead objects are still to be swept and in the list being swept
(`DeadToSweep`), that what was swept is white (`SweptWhite`), and, for the flip at the
end of the atomic phase, that every object that stays sound was marked: the
fixed point that `Converged` chooses contains the roots, is closed under strong
references (`ConvergedIsLeast`, `AtomicMarks`), and cleared weak entries refer to
nothing else (`AtomicEntriesMarked`). That rests on `TriColor` and `GrayListed`: black
objects were traversed, gray ones are listed, threads are never black
(`ThreadsGray`) because writes to a stack have no barrier, and the values of open
upvalues are found through `twups`. `WellFormed` says which objects can have
references at all. `CloseInv` adds that a state being closed has nothing left in
`finobj`, which with the lemmas on how objects move between lists gives
`FinalizersBeforeFree`.

**Weak tables.** Both theorems are about the step `Atomic`. The property speaks of
strong reachability as the manual has it, the least set that contains the roots
and is closed under strong references, where an ephemeron's value counts if its
key is in the set. The set that the first marking of the atomic phase reaches,
with the strings, is closed under these references (`StrongMarked`; the case of a
table in use needs `TraversedStrong`: what was traversed before the atomic phase
left no white strong reference), so it contains the least one (`StrongIsLeast`), and
what is cleared is outside of it. `WeakOrder` needs one invariant more: only tables
and userdata have finalizers (`FinalizerKinds`). The proof also showed that an
earlier form of `WeakOrder` was wrong for the values of ephemeron tables, which the
second marking may bring back together with their keys.

**Calls.** `JumpsLive` and `CountsRight` are not inductive: after a long jump the thread
has what its `luaD_rawrunprotected` saved, perhaps many calls ago and with other
threads above it, and nothing says that this was right. `IInv` has three parts. `Sound`
is about the C stack alone: of each record it says whose it is, which function can
have called it (`Follows`: only `luaD_pcall`, `luaD_closeprotected` and `lua_resume` call
`luaD_rawrunprotected`, for instance), and that what a `luaD_rawrunprotected` saved are
the handler and the counts of its thread at that place (`Saves`). `Right` is about each
thread: a thread that has records has the handler and the counts that its topmost
record asks for (`Fits`), one that has none has no handler. `RunOK` says that what runs
can go on. `Handled`, a part of `Sound`, says where yields land: while a function may
run Lua code, its thread has a handler, and unless that is the one of `lua_resume`, a
call that may not yield is counted (`Lands`). It is needed for `luaD_throw`, which
would otherwise have no case for a yield that arrives in a protected call, and gives
the theorem `YieldsLand` (`YieldsResume` is defined with the proof). `Works(cs, ds, X)`
relates the C stack before a step to the one after any part of it; a lemma for each way
to push, end and cut records (`WorksPush` to `WorksRestore`) and for changing the
running thread (`Enters`, `Leaves`, `Resumes`, `Closes`) is used by those of the actions.

**The string table.** `InBucket` is not inductive: while the table shrinks, its
strings are already in the lower half, and `Interned` needs that the string being
added is not in the table after an emergency collection that may have come
between the search and the insertion. `Buckets` is about the size that counts at
the moment, `Unique` about all strings in the table, dead ones included, and the one
being added. `RemoveFindsString` has the hypothesis whose negation `strings_shrink`
refutes.

**Tables.** The length is a border in every table that is well typed, so that
`LengthRight` needs only `TypeInv`: a hint that is in the array (`newhint` asserts it),
links that stay in the nodes, and a size of the array that some power of two
reaches. `binsearch` keeps a present and an absent position and halves what is
between them (`HalveNarrows`, `BinsearchIs`); `hash_search` doubles a present one
until it finds an absent one or is so near to the largest integer that this is
looked up itself (`DoubleGrows`, `HashSearchIs`). `TypeInv` is itself not obvious: a
rehash inserts every entry again, one after the other, and the nodes of a resize
that waits for memory are a table of their own.

`NoDanglingEntry` is not inductive. `ReferInv` says of every entry that it is an
assignment of the program between allocated objects (`Alive`); that the program's
key and value of a waiting assignment are roots, since the C function has them on
its stack; and that the new nodes of a resize that shrinks the array hold nothing but
copies of what is in the array still (`Entries`), those of one that does not
shrink nothing at all. A collection keeps this because what it leaves was
marked: `Marked` is closed under what tables refer to (`MarkedIs`), ephemerons
included. The copies are why `Shrinkable` is needed: an array whose weak values a
collection clears while its copies wait is the case that `table_shrink` shows, and
the only one. `InsertIs`, `ReinserthashIs`, `OldSliceIs` and `FinishResizeIs` say for any
set `E` of entries that a table whose entries are in `E` has them there after it was
given one more from `E` and after a rehash; `TypeInv` and `ReferInv` use them for
different sets. The loops of these functions are recursive functions on an
interval. That such a function exists and stays in a set is shown once, in `Iterate`,
by the least number for which it would not (`LeastIs`, `Upwards`).

`ChainsRight` is not inductive either: that a search finds a key says nothing of
the chains of other keys. In `Orderly` each live key is `Reached`: a set of nodes
that has its main position and is closed under the links a search for it follows
has its node, too, which speaks neither of positions in a chain nor of its
length. Its main position is taken by a key that belongs there (`AtHome`), every
node has one predecessor, a free one has none and is below `lastfree`. `insertkey`
keeps this when it moves a colliding node, whose predecessor is then unique, as
well as when it chains a new one. `ChainInv` adds that no live key of a node is in the
array (`Apart`), and that the nodes of a resize that waits for memory have keys of the
vanishing part only: none of the old nodes' keys is among them when these are
inserted, whatever a collection has cleared meanwhile.

`MapKept` shows that every step of a table is a step of `LuaMap` or none. What a
program sees is the `Content` of a table, the entries of its array and its nodes; a
search gives just these (`ContentIs`), so that it is enough to know how a step
changes this set. An insertion adds one entry, if it fits (`NewcheckedContent`,
`FreeFits`), and leaves all but one of the free nodes. `RoomInv` counts them: before a
resize has its nodes, their number is at least the number of elements of the
vanishing part of the array and of what is `Required`, the old nodes' entries
outside the new array and the new key; afterwards the new nodes hold the vanishing
part and have free places for the rest. It begins with the numbers by which
`RehashSizes` chooses the sizes (`SizesFit`, which says that these are enough), a
collection keeps it because it takes entries away only (`CollectedRoom`), and a
rehash that ends has inserted everything (`RebuildContent`, `FinishContent`). Each
step is then described by its effect on the map (`StepEffect`). For the traversal,
`TravInv` says that the keys yet to visit are the ones present after the index of
its own key, which has an index although it may be dead: steps that add no key
keep every index (`SamePlaces`), and `luaH_next` takes the least one (`NextAfter`). A
collection is one of `LuaMap` because a set of objects is `Traversed` exactly when it
is `Closed` in the abstract sense (`ClosedIs`), though one speaks of nodes and the other
of a map.

**The Java binding.** A frame's stack is not balanced while one of its calls is in
progress, and a call ends in the frame where it began after any number of nested
ones. `Handles` says of every frame, and not only of the one that runs, which table of
a LuaTable is at the height (`Height`) where the frame's code will find itself after
the call, the base of the pending call, or the present top: it is there if and only if it
is `fresh` in this frame. Both directions are needed, since `HandlesRead` also says that
every other LuaTable reads something else. What an operation leaves is described
once (`LeavesInv`), by what is on top before and after it; a failed conversion leaves at
least one value above, of the program and not of a LuaTable (`Topped`), and for
`LuaReturns` this takes that the results are converted from the last one on.

**Lines of instructions.** `LinesInv` says that the differences, the absolute lines
and the last line with its distance stand for the lines of the instructions
(`Differences`, `Absolutes`, `Saved`). `removelastlineinfo` breaks the last part: the
state before an instruction is saved is `Ready`, in which the distance is only a
mark that forces an absolute line. For the search, `Near` says that the i-th
absolute line is at most `MAXIWTHABS * i` instructions from the beginning, so that
the estimate, a division, is never too high, as `getbaseline` asserts. What the
recursive function of `Walk` computes is shown without induction: the least
position where it would be wrong has a predecessor where it is right (`Least`,
`WalkRight`).

**Only model-checked.** Liveness (`GarbageFreed`, `PendingFinalized`, `CloseEnds`), which
is out of the prover's reach. Everything about modules with recursive operators, in
which nothing can be proved: `LuaGenerations`, the compiler, the virtual machine,
`LuaSemantics`, and with `LuaLibrary` the functions of the libraries; most of what
these say is an induction over data as well. `StackRight` and `ErrorNotNil` of
`LuaCalls`, which are about the values on the stacks, and `KeepsPromise`, its
refinement of `LuaCoroutines`.

## 5. Not modelled, and the plan

Left out of the models that exist: sizes and pacing of the collectors (but for
`setpause`), which here run at any time; reallocation of stacks; hooks; memory
errors in calls; floats other than in comparisons, loop limits and the
mathematical functions; those that only call a function of the C library; failing
allocations of buffers; `table.move`
to another table and metamethods in the table library; replacements of `gsub` by
functions and tables (a replacement refers to all captures); the text of formats
in `LuaPack`, which are sequences of options; functions without debug information
in `LuaLines`; weak tables other than those with weak values in `LuaGenerations`; the
emergency collection inside of `checkSizes` there (it is in `LuaStrings`).

Not modelled at all: the lexer and the grammar, the loading of files,
`string.format`, input and output, the operating system, the debug and
package libraries, messages, the stand-alone programs: data without a protocol,
or pure input and output.

Next: `StackRight`, whose invariant describes each call info by what lies between
its function and the next one (variables to close, arguments, waiting instruction);
then the refinement of `LuaCoroutines`, step by step, beginning with the steps of
the C stack that change no activation.
