------------------------------- MODULE LuaMap -------------------------------
(* What a table promises to a program: a map from keys to values, some of   *)
(* whose entries the collector may clear, and a traversal that visits each  *)
(* entry once, if none is added meanwhile. LuaTable shows that ltable.c,    *)
(* with its array, its chains of nodes and its dead keys, does this.        *)
CONSTANTS Objects,  \* collectable values
          nil, none
VARIABLES map,    \* the value of each key, or nil
          weak,   \* what the table refers to weakly: "k", "v", both or nothing
          held,   \* objects that the program refers to otherwise
          key,    \* the last key of a traversal, nil before the first, or none
          left    \* the keys that the traversal has yet to visit
vars == <<map, weak, held, key, left>>

Keys == {k \in DOMAIN map : map[k] # nil}
(* S has what the program refers to and what the table refers to strongly:  *)
(* a weak key does not keep itself, only its value once it is in S.         *)
Closed(S) ==
  /\ (held \cup {key}) \cap Objects \subseteq S
  /\ "k" \in weak \/ Keys \cap Objects \subseteq S
  /\ "v" \in weak \/ \A k \in Keys : k \in S \cup (DOMAIN map \ Objects)
                                     => {map[k]} \cap Objects \subseteq S
Garbage(x) == x \in Objects /\ \E S \in SUBSET Objects : Closed(S) /\ x \notin S
Remove(R) == /\ map' = [k \in DOMAIN map |-> IF k \in R THEN nil ELSE map[k]]
             /\ left' = left \ R

Assign(k, v) == /\ map' = [map EXCEPT ![k] = v]
                /\ IF map[k] = nil /\ v # nil THEN key' = none /\ left' = {}
                   ELSE UNCHANGED key /\ left' = (IF v = nil THEN left \ {k} ELSE left)
                /\ UNCHANGED <<weak, held>>

Collect == /\ Remove({k \in Keys : \/ "k" \in weak /\ Garbage(k)
                                   \/ "v" \in weak /\ Garbage(map[k])})
           /\ UNCHANGED <<weak, held, key>>

Program == /\ \E o \in Objects : held' \in {held \ {o}, held \cup {o}}
           /\ UNCHANGED <<map, weak, key, left>>

Start == key' = nil /\ left' = Keys /\ UNCHANGED <<map, weak, held>>
Visit == /\ key # none
         /\ IF left = {} THEN key' = none /\ UNCHANGED left
            ELSE key' \in left /\ left' = left \ {key'}
         /\ UNCHANGED <<map, weak, held>>

Init == (\A k \in DOMAIN map : map[k] = nil) /\ held \subseteq Objects /\ key = none /\ left = {}
Next == \/ \E k \in DOMAIN map : \E v \in {map'[k]} : Assign(k, v)
        \/ Collect \/ Program \/ Start \/ Visit
Spec == Init /\ [][Next]_vars
==============================================================================
