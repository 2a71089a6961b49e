------------------------------ MODULE CacheKeys ------------------------------
(***************************************************************************)
(* Keys of cached calls: canonicalize and makeCacheKeyFromArgs.  Two calls *)
(* should share an entry just when their arguments mean the same.          *)
(*                                                                         *)
(* A JavaScript value is a record with its type: an array has its items,   *)
(* an object its entries in the order they were set, each a name and a     *)
(* value.  A name is represented by its rank for localeCompare, and a text *)
(* of JSON by the sequence of its tokens; SHA-256 is taken for one-to-one. *)
(***************************************************************************)
EXTENDS Integers, Sequences, SequencesExt

CONSTANT Arguments   \* the values that a call may be given

VARIABLE asked   \* the arguments of two calls

Undefined == [type |-> "undefined"]
JsNull == [type |-> "null"]
Atom(json) == [type |-> "atom", json |-> json]   \* a text, number or boolean
Date(iso) == [type |-> "date", iso |-> iso]
Array(items) == [type |-> "array", items |-> items]
Object(entries) == [type |-> "object", entries |-> entries]

ByName(e, f) == e[1] < f[1]

(* Mutant: the values of an object are left as they are.                   *)
CanonicalizeShallow(v) ==
  IF v.type # "object" THEN v
  ELSE Object(SortSeq(SelectSeq(v.entries, LAMBDA e : e[2] # Undefined), ByName))

RECURSIVE Canonicalize(_)
Canonicalize(v) ==
  CASE v.type = "array" -> Array([i \in DOMAIN v.items |-> Canonicalize(v.items[i])])
    [] v.type = "date" -> Atom(v.iso)
    [] v.type = "object" ->
         LET set == SelectSeq(v.entries, LAMBDA e : e[2] # Undefined)
             sorted == SortSeq(set, ByName)
         IN Object([i \in DOMAIN sorted |-> <<sorted[i][1], Canonicalize(sorted[i][2])>>])
    [] OTHER -> v

(* JSON.stringify: undefined is null in an array and nothing in an object, *)
(* and a date is its toISOString as well.                                  *)
RECURSIVE Stringify(_)
Stringify(v) ==
  CASE v.type \in {"undefined", "null"} -> <<"null">>
    [] v.type = "atom" -> <<v.json>>
    [] v.type = "date" -> <<v.iso>>
    [] v.type = "array" ->
         <<"[">> \o FlattenSeq([i \in DOMAIN v.items |-> Stringify(v.items[i])]) \o <<"]">>
    [] v.type = "object" ->
         LET set == SelectSeq(v.entries, LAMBDA e : e[2] # Undefined)
         IN <<"{">> \o FlattenSeq([i \in DOMAIN set |->
                        <<"name", set[i][1]>> \o Stringify(set[i][2])]) \o <<"}">>

(* The key of a call with one argument, for one prefix and version.        *)
MakeCacheKeyFromArgs(v) == Stringify(Array(<<Canonicalize(v)>>))

Init == asked = <<>>

Call(v) == Len(asked) < 2 /\ asked' = Append(asked, v)

Finished == Len(asked) = 2 /\ UNCHANGED asked

Next == (\E v \in Arguments : Call(v)) \/ Finished

Spec == Init /\ [][Next]_asked

(* What a value means as arguments: an object is a function of the names   *)
(* that are set, whatever their order; undefined in an array, and as the   *)
(* argument itself, is null; a date is its text.                           *)
RECURSIVE Meaning(_)
Meaning(v) ==
  CASE v.type \in {"undefined", "null"} -> [type |-> "null"]
    [] v.type = "date" -> Atom(v.iso)
    [] v.type = "atom" -> v
    [] v.type = "array" ->
         [type |-> "array", items |-> [i \in DOMAIN v.items |-> Meaning(v.items[i])]]
    [] v.type = "object" ->
         LET set == {i \in DOMAIN v.entries : v.entries[i][2] # Undefined}
         IN [type |-> "object",
             fields |-> {<<v.entries[i][1], Meaning(v.entries[i][2])>> : i \in set}]

(* Calls share a key if and only if their arguments mean the same: none is *)
(* served another's entry, and the order in which an adapter builds the    *)
(* arguments, or a filter left undefined, does not split the entries.      *)
KeysMeanArguments ==
  Len(asked) = 2 =>
    (MakeCacheKeyFromArgs(asked[1]) = MakeCacheKeyFromArgs(asked[2])
       <=> Meaning(asked[1]) = Meaning(asked[2]))
=============================================================================
