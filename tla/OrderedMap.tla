----------------------------- MODULE OrderedMap -----------------------------
(***************************************************************************)
(* What SkipListMap promises to its users: a map ordered by its keys.  It  *)
(* differs from std::map in two answers, which are stated here as they     *)
(* are: upper_bound of a key below all others, and the result of erasing   *)
(* an empty range.                                                         *)
(***************************************************************************)
EXTENDS Integers, FiniteSetsExt, Functions, TLC

CONSTANTS Key, Value, End

VARIABLES
  map,  \* the keys present, with their values
  op    \* the last operation: its name, its arguments, the key it returned an
        \* iterator to, or End, and whether it did something

First(keys) == IF keys = {} THEN End ELSE Min(keys)

Above(k) == {j \in DOMAIN map : j > k}

\* The first two conjuncts follow from the third; with them TLC is faster.
Did(name, args, at, ok) ==
  op'[1] = name /\ op'[2] = args /\ op' = <<name, args, at, ok>>

Keep(keys) == map' = Restrict(map, keys)

Init == map = <<>> /\ op = <<"create", <<>>, End, TRUE>>

Emplace(k, v) ==
  /\ Did("emplace", <<k, v>>, k, k \notin DOMAIN map)
  /\ map' = map @@ (k :> v)

Find(k) ==
  LET found == k \in DOMAIN map IN
  /\ Did("find", <<k>>, IF found THEN k ELSE End, found)
  /\ UNCHANGED map

\* The first key above k; end() if all keys are above k.
UpperBound(k) ==
  /\ Did("upper_bound", <<k>>,
         IF Above(k) = DOMAIN map THEN End ELSE First(Above(k)), TRUE)
  /\ UNCHANGED map

\* Both forms of erase for one key return the next one.
Erase(k) ==
  /\ Did("erase", <<k>>, First(Above(k)), k \in DOMAIN map)
  /\ Keep(DOMAIN map \ {k})

\* The keys from first up to, not including, last; begin() if there are none.
EraseRange(first, last) ==
  LET gone == {k \in DOMAIN map : k >= first /\ (last = End \/ k < last)} IN
  /\ Did("erase", <<first, last>>, IF gone = {} THEN First(DOMAIN map) ELSE last, gone # {})
  /\ Keep(DOMAIN map \ gone)

\* The map is destroyed and another one made.
Clear == Did("create", <<>>, End, TRUE) /\ Keep({})

Next ==
  \/ \E k \in Key : Find(k) \/ UpperBound(k) \/ Erase(k) \/ \E v \in Value : Emplace(k, v)
  \/ \E first \in DOMAIN map, last \in DOMAIN map \cup {End} : EraseRange(first, last)
  \/ Clear

Spec == Init /\ [][Next]_<<map, op>>
=============================================================================
