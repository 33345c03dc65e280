---------------------------- MODULE MCLuaLibrary ----------------------------
(* The tables of MCLuaTable and the arguments of library functions.         *)
EXTENDS MCLuaTable, LuaLibrary

AllPrograms == {k @@ [library |-> FALSE] : k \in Kinds} \cup {Kind(Plain({}), {}, 0, 0) @@ [library |-> TRUE]}

Strings(chars, n) == UNION {[1..k -> chars] : k \in 0..n}
Order(R(_, _), lies, seed) == [order |-> {p \in (1..6) \X (1..6) : R(p[1], p[2])}, lies |-> lies, seed |-> seed]
Sorts == (Permutations(1..5) \X {Order(<, {}, 1), Order(<, {}, 2), Order(>, {3}, 2)})
    \cup {<<<<3, 4, 1, 6, 2, 5>>, Order(<, l, 1)>> : l \in SUBSET (0..8)}
    \cup {<<<<6, 5, 4, 3, 2, 1>>, Order(<, l, 3)>> : l \in SUBSET (4..9)}
    \cup ({<<3, 1, 2, 1>>, <<2, 2, 3, 1, 1>>, <<1, 2, 3>>, <<1, 1>>, <<2>>, <<>>} \X
         {[order |-> o, lies |-> {}, seed |-> 3] : o \in SUBSET ((1..3) \X (1..3))})

Sets == { <<<<"a">>, {"a"}>>, <<<<".">>, {"a", "b", "1"}>>, <<<<"%", "a">>, {"a", "b"}>>,
             <<<<"%", "A">>, {"1"}>>, <<<<"[", "^", "b", "]">>, {"a", "1"}>>,
             <<<<"[", "a", "-", "b", "%", "d", "]">>, {"a", "b", "1"}>> }
Open1  == [k |-> "open", text |-> <<"(">>]
Close1 == [k |-> "close", text |-> <<")">>]
Back1  == [k |-> "back", n |-> 1, text |-> <<"%", "1">>]
Simple == {Open1, Close1, Back1, [k |-> "pos", text |-> <<"(", ")">>]}
Short == {[k |-> "class", set |-> x[2], suffix |-> f, text |-> x[1] \o (IF f = "" THEN <<>> ELSE <<f>>)] :
            x \in Sets, f \in {"", "*", "-", "?", "+"}}
Some == {x \in Short : (Len(x.text) = 1 /\ x.text[1] = "a") \/ x.text \in {<<".", "*">>, <<".", "-">>, <<"a", "+">>, <<"a", "?">>, <<".">>}}
Rest == {[k |-> "balance", b |-> "a", e |-> "b", text |-> <<"%", "b", "a", "b">>],
         [k |-> "balance", b |-> "a", e |-> "a", text |-> <<"%", "b", "a", "a">>],
         [k |-> "frontier", set |-> {"a"}, text |-> <<"%", "f", "[", "a", "]">>],
         [k |-> "frontier", set |-> {"b", "1", NUL}, text |-> <<"%", "f", "[", "^", "a", "]">>],
         [k |-> "back", n |-> 2, text |-> <<"%", "2">>]}
End == [k |-> "end", text |-> <<"$">>]
Position(items) == \E i \in 1..Len(items) - 1 : items[i] = Open1 /\ items[i + 1] = Close1
AllItems == {<<x>> : x \in Short \cup Rest} \cup {<<x, y>> : x \in Rest \cup Simple, y \in Rest \cup Some}
    \cup {<<x, End>> : x \in Short} \cup {<<x, y, z>> : x, y, z \in Simple \cup Some}
    \cup {<<Open1, x, Close1, y, Back1>> : x, y \in Some \cup Simple}
Items == {items \in AllItems : ~Position(items)}      \* "()" is one item

Up(name) == [instack |-> 1, idx |-> 2, kind |-> 0, name |-> name]
Integers(list) == [i \in DOMAIN list |-> [tt |-> 3, v |-> list[i]]] \o <<>>
Function(f) == f @@
  [linedefined |-> 0, lastlinedefined |-> 31, numparams |-> 1, flag |-> 0, maxstacksize |-> 2, source |-> <<1>>,
   code |-> <<>>, k |-> <<>>, p |-> <<>>, upvalues |-> <<>>, lineinfo |-> <<>>, abslineinfo |-> <<>>, locvars |-> <<>>]
Inner == Function([upvalues |-> <<Up(<<7>>)>>, k |-> <<[tt |-> 4, v |-> <<1>>], [tt |-> 20, v |-> <<1, 2, 3>>]>>,
                   lineinfo |-> <<1>>, code |-> <<<<1, 2>>>>, source |-> nil, flag |-> 5])
Functions ==
  { Inner,
    Function([k |-> Integers(<<-16, -15, -1, 0, 1, 8, 15>>) \o <<[tt |-> 19, v |-> 6], [tt |-> 0, v |-> nil], [tt |-> 17, v |-> nil]>>]),
    Function([p |-> <<Inner, Inner>>, upvalues |-> <<Up(<<7>>), Up(nil)>>, k |-> <<[tt |-> 20, v |-> <<1, 2, 3>>]>>,
              locvars |-> <<[varname |-> <<7>>, startpc |-> 0, endpc |-> 9], [varname |-> <<8>>, startpc |-> 1, endpc |-> 9]>>,
              lineinfo |-> <<1, 2>>, abslineinfo |-> <<<<1, 2, 3, 4>>>>, code |-> <<<<1, 2>>, <<3, 4>>>>]) }

Opt(o) == [opt |-> o, num |-> none]
Num(o, n) == [opt |-> o, num |-> n]
Ints  == {Opt("b"), Opt("B"), Opt("i"), Opt("I"), Num("i", 3), Num("I", 4), Num("i", 4), Opt("j"), Opt("J"), Num("i", 1), Num("i", 5)}
Texts == {Opt("s"), Num("s", 1), Num("s", 4), Opt("z"), Num("c", 2), Num("c", 60), Opt("c")}
Items1 == Ints \cup Texts \cup {Opt("n"), Opt("f"), Opt("x"), Opt(" "), Opt("X"), Opt("?")}
Configs == {<<>>, <<Opt("!")>>, <<Opt(">")>>, <<Num("!", 4), Opt("b")>>, <<Opt(">"), Opt("!"), Opt("x")>>,
            <<Opt("="), Opt("!"), Opt("x"), Opt("X")>>, <<Opt("<"), Opt("!"), Opt("x"), Opt("X"), Opt("n")>>, <<Num("!", 3), Opt("x")>>, <<Num("!", 9)>>}
Packs == {f \o <<o>> : f \in Configs, o \in Items1} \cup {<<o, p>> : o, p \in Items1}
Formats == {f \o <<o>> : f \in {<<>>, <<Opt(">")>>}, o \in {Opt("b"), Opt("B"), Opt("j"), Opt("J"), Num("i", 3), Num("I", 3), Num("i", 4), Num("I", 4)}}
      \cup {f \o <<o>> : f \in {<<>>, <<Opt(">"), Num("c", 1)>>}, o \in {Opt("s"), Num("s", 1), Num("s", 3), Opt("z")}}

Points == {0, 127, 128, 2047, 2048, 55295, 55296, 57343, 57344, 65535, 65536, 1114111, 1114112,
           2097151, 2097152, 67108863, 67108864, 2147483647}
SomeBytes == {0, 127, 128, 143, 144, 159, 160, 191, 192, 193, 194, 224, 237, 240, 244, 248, 252, 254, 255}

Arguments ==
  [alphabet |-> <<"1", "a", "b">>,
   classes  |-> [a |-> {"a", "b"}, d |-> {"1"}],
   lower    |-> [a |-> "a", A |-> "a", d |-> "d", D |-> "d"],
   patterns |-> [items : Items, anchor : {FALSE}] \cup [items : {<<x>> : x \in Short}, anchor : {TRUE}],
   subjects |-> Strings({"a", "b"}, 3) \cup {<<"a", "1", "b", "a">>, <<"a", "a", "b", "b">>, <<"b", "a", "1", "a", "a">>},
   limits   |-> {[int |-> i] : i \in Integer} \cup {[flt |-> f] : f \in Numbers!LuaFloats},
   numerals |-> Strings({"0", "1", "7", "8", "-", "x", "a"}, 4),
   params   |-> {0, 1, 7, 12, 13, 25, 50, 100, 120, 200, 333, 1000, 4000, 100000, 400000},
   sizes    |-> {1, 30, 999, 4000, 33000, 34000, 1000000, 1048575},
   size     |-> 4,
   functions |-> Functions,
   header   |-> <<27, 5, 4>>,
   chunk    |-> 200,
   packs    |-> Packs,
   texts    |-> Strings({0, 3}, 4),
   longtexts |-> {[k \in 1..n |-> k % 4] : n \in 5..8},
   tolower  |-> (0 :> 0 @@ 1 :> 1 @@ 2 :> 1 @@ 3 :> 3),
   toupper  |-> (0 :> 0 @@ 1 :> 2 @@ 2 :> 2 @@ 3 :> 3),
   rows     |-> {[i \in Integer |-> <<IF i < 0 THEN -i ELSE i>>], [i \in Integer |-> IF i = 3 THEN <<1, 2>> ELSE <<>>],
                 [i \in Integer |-> IF i = 0 THEN none ELSE <<i, i>>],
                 [i \in Integer |-> IF i \in {-8, 7} THEN none ELSE IF i % 3 = 0 THEN <<>> ELSE <<i>>]},
   lists    |-> UNION {[1..n -> {[int |-> -8], [int |-> 7], [flt |-> <<14>>], [int |-> 6], [flt |-> <<16>>],
                                 [flt |-> <<12>>], [flt |-> <<-1>>], [flt |-> Numbers!NaN]}] : n \in 0..3},
   spaced   |-> Strings({" ", "-", "+", "1", "7", "a"}, 4),
   bases    |-> {1, 2, 8, 10, 11, 36, 37},
   formats  |-> Formats,
   data     |-> Strings(0..3, 4),
   codes    |-> Strings(Points, 2) \cup {<<127, x, 2048, 65, x>> : x \in Points},
   bytes    |-> Strings(SomeBytes, 3) \cup [1..4 -> {127, 128, 191, 240, 244, 248}] \cup
                {<<x>> \o y \o z : x \in {248, 249, 252, 253, 254}, y \in [1..4 -> {128, 191}], z \in {<<>>, <<127>>, <<128>>, <<191, 65>>, <<128, 128>>}},
   values   |-> {"v", "w"},
   sorts    |-> Sorts]
=============================================================================
