------------------------------ MODULE SkipList ------------------------------
(***************************************************************************)
(* SkipListMap of src/src/kernel/templates/SkipList.hpp, the ordered map   *)
(* behind the task table, the sleeping tasks, the regions of an address    *)
(* space, the file systems and the tables of open files.                   *)
(*                                                                         *)
(* A list l is a record: the links next[node][level] and before[node], the *)
(* data of the nodes, curL, the stack pool of the node allocator, and lent,*)
(* the nodes kmalloc has handed out.  A node from kmalloc or from the pool *)
(* holds old links, except next[0], which an operation must not follow: in *)
(* the model they are Garbage.  The level of a new node is random.         *)
(***************************************************************************)
EXTENDS Integers, Sequences, FiniteSetsExt, SequencesExt

CONSTANTS
  Key, Value,
  Address,   \* where kmalloc can put nodes
  root, endnode, nullptr,
  maxL,      \* the highest level
  PoolSize,  \* NodeAllocator::size
  Garbage    \* what uninitialised or freed memory holds

ASSUME SkipListAssumption ==
  /\ Key \subseteq Int /\ Address \subseteq Int /\ Garbage \notin Int
  /\ maxL \in Nat /\ PoolSize \in Nat \ {0}
  /\ Cardinality({root, endnode, nullptr} \ Address) = 3

VARIABLES
  list,
  op     \* the last operation: its name, its arguments, the key of the iterator
         \* it returned, or endnode, and whether it did something

vars == <<list, op>>

Levels == 0..maxL
Ends == {root, endnode}
Node == Address \cup Ends

\* Node::end()
end(n) == n \in Ends

KeyOf(l, n) == l.data[n].key

\* An operation returns an iterator to node n of list l.
Did(name, args, l, n, ok) ==
  op' = <<name, args, IF end(n) THEN endnode ELSE KeyOf(l, n), ok>>

-----------------------------------------------------------------------------
(***************************************************************************)
(* NodeAllocator                                                           *)
(***************************************************************************)
\* The node the allocator hands out next.
Fresh(l) == IF l.pool = <<>> THEN Min(Address \ l.lent) ELSE Last(l.pool)

\* get(args)
get(l, k, v) ==
  LET n == Fresh(l) IN
  [l EXCEPT !.pool = IF @ = <<>> THEN @ ELSE Front(@),
            !.lent = @ \cup {n},
            !.data[n] = [key |-> k, value |-> v],
            !.before[n] = nullptr,
            !.next[n] = [i \in Levels |-> IF i = 0 THEN nullptr ELSE Garbage]]

\* The contents of n are no longer to be used.
Wiped(l, n) ==
  [l EXCEPT !.data[n] = Garbage, !.before[n] = Garbage,
            !.next[n] = [i \in Levels |-> Garbage]]

\* The data is destroyed; the node goes to the pool if there is room, and back
\* to the heap otherwise.
push(l, n) ==
  IF Len(l.pool) >= PoolSize THEN [Wiped(l, n) EXCEPT !.lent = @ \ {n}]
  ELSE [Wiped(l, n) EXCEPT !.pool = Append(@, n)]

-----------------------------------------------------------------------------
(***************************************************************************)
(* Searching                                                               *)
(***************************************************************************)
\* Along level i from node n, while the next node's key is below k.
RECURSIVE Along(_, _, _, _)
Along(l, i, n, k) ==
  LET m == l.next[n][i] IN
  IF ~end(m) /\ KeyOf(l, m) < k THEN Along(l, i, m, k) ELSE n

\* toUpdate: the last node below k on each level, from curL downwards.
toUpdate(l, k) ==
  LET at[i \in 0..l.curL] == Along(l, i, IF i = l.curL THEN root ELSE at[i + 1], k)
  IN  at

lower_bound(l, k) == l.next[toUpdate(l, k)[0]][0]

Find(k) ==
  LET n     == lower_bound(list, k)
      found == ~end(n) /\ KeyOf(list, n) = k
  IN  Did("find", <<k>>, list, IF found THEN n ELSE endnode, found) /\ UNCHANGED list

\* Mutant of UpperBound: an equal key is returned.
UpperBoundEqual(k) ==
  LET cur == toUpdate(list, k)[0]
      n   == IF end(cur) THEN cur ELSE list.next[cur][0]
  IN  Did("upper_bound", <<k>>, list, n, TRUE) /\ UNCHANGED list

\* The search goes on while keys are at most k; the root counts as an end.
UpperBound(k) ==
  LET cur == toUpdate(list, k + 1)[0]
      n   == IF end(cur) THEN cur ELSE list.next[cur][0]
  IN  Did("upper_bound", <<k>>, list, n, TRUE) /\ UNCHANGED list

-----------------------------------------------------------------------------
(***************************************************************************)
(* Inserting                                                               *)
(***************************************************************************)
\* Put node n behind toUpdate on the levels up to newLevel.
Link(l, n, upd, newLevel) ==
  LET curL   == Max({l.curL, newLevel})
      pre(i) == IF i <= l.curL THEN upd[i] ELSE root
  IN  [l EXCEPT
        !.curL = curL,
        !.before = [@ EXCEPT ![l.next[upd[0]][0]] = n, ![n] = upd[0]],
        !.next = [m \in Node |-> [i \in Levels |->
                    IF i > newLevel THEN @[m][i]
                    ELSE IF m = n THEN @[pre(i)][i]
                    ELSE IF m = pre(i) THEN n ELSE @[m][i]]]]

\* Mutant of Emplace: the new node is lost when the key is there already.
EmplaceLeak(k, v) ==
  LET n   == Fresh(list)
      l   == get(list, k, v)
      upd == toUpdate(l, k)
      cur == l.next[upd[0]][0]
  IN  IF ~end(cur) /\ KeyOf(l, cur) = k
      THEN list' = l /\ Did("emplace", <<k, v>>, l, cur, FALSE)
      ELSE /\ \E newLevel \in Levels : list' = Link(l, n, upd, newLevel)
           /\ Did("emplace", <<k, v>>, l, n, TRUE)

\* Mutant of Emplace: the new node takes the place of the one with its key.
EmplaceReplace(k, v) ==
  LET n   == Fresh(list)
      l   == get(list, k, v)
      upd == toUpdate(l, k)
      cur == l.next[upd[0]][0]
  IN  IF ~end(cur) /\ KeyOf(l, cur) = k
      THEN /\ list' = push([l EXCEPT !.next = [m \in Node |-> [i \in Levels |->
                         IF m = n THEN @[cur][i] ELSE IF @[m][i] = cur THEN n ELSE @[m][i]]]], cur)
           /\ Did("emplace", <<k, v>>, l, n, FALSE)
      ELSE /\ \E newLevel \in Levels : list' = Link(l, n, upd, newLevel)
           /\ Did("emplace", <<k, v>>, l, n, TRUE)

\* emplace: a node is made first, and given back if the key is there already.
Emplace(k, v) ==
  LET n   == Fresh(list)
      l   == get(list, k, v)
      upd == toUpdate(l, k)
      cur == l.next[upd[0]][0]
  IN  IF ~end(cur) /\ KeyOf(l, cur) = k
      THEN list' = push(l, n) /\ Did("emplace", <<k, v>>, l, cur, FALSE)
      ELSE /\ \E newLevel \in Levels : list' = Link(l, n, upd, newLevel)
           /\ Did("emplace", <<k, v>>, l, n, TRUE)

-----------------------------------------------------------------------------
(***************************************************************************)
(* Erasing                                                                 *)
(***************************************************************************)
\* curL sinks while the root has no link on it.
RECURSIVE Sunk(_, _)
Sunk(next, curL) ==
  IF curL > 0 /\ next[root][curL] = nullptr THEN Sunk(next, curL - 1) ELSE curL

\* Mutant of Unlink: the upper levels keep the node.
UnlinkLowest(l, cur, upd) ==
  [l EXCEPT !.before[l.next[cur][0]] = upd[0], !.next[upd[0]][0] = l.next[cur][0]]

\* Take node cur out of the levels on which toUpdate points to it.
Unlink(l, cur, upd) ==
  LET linked == {i \in 0..l.curL : \A j \in 0..i : l.next[upd[j]][j] = cur}
      next   == [m \in Node |-> [i \in Levels |->
                   IF i \in linked /\ m = upd[i] THEN l.next[cur][i] ELSE l.next[m][i]]]
  IN  [l EXCEPT !.before[l.next[cur][0]] = upd[0], !.next = next, !.curL = Sunk(next, @)]

\* erase(key), and erase(iterator), which looks for the key of its node.
Erase(k) ==
  LET upd == toUpdate(list, k)
      cur == list.next[upd[0]][0]
      l   == Unlink(list, cur, upd)
  IN  IF end(cur) \/ KeyOf(list, cur) # k
      THEN UNCHANGED list /\ Did("erase", <<k>>, list, cur, FALSE)
      ELSE list' = push(l, cur) /\ Did("erase", <<k>>, l, l.next[cur][0], TRUE)

\* The loop of erase(begin, end): toUpdate is computed once.
RECURSIVE EraseFrom(_, _, _, _)
EraseFrom(l, cur, last, upd) ==
  IF cur = last THEN l
  ELSE LET l1 == Unlink(l, cur, upd)
       IN  EraseFrom(push(l1, cur), l1.next[cur][0], last, upd)

EraseRange(first, last) ==
  LET args == <<KeyOf(list, first), IF end(last) THEN endnode ELSE KeyOf(list, last)>>
      upd  == toUpdate(list, args[1])
  IN  IF first = last
      THEN UNCHANGED list /\ Did("erase", args, list, list.next[root][0], FALSE)
      ELSE list' = EraseFrom(list, first, last, upd) /\ Did("erase", args, list, last, TRUE)

-----------------------------------------------------------------------------
\* The nodes of level i, in the order of the links.
RECURSIVE ChainFrom(_, _, _)
ChainFrom(l, n, i) ==
  IF n \in Address /\ l.data[n] # Garbage THEN <<n>> \o ChainFrom(l, l.next[n][i], i)
  ELSE <<n>>

Chain(l, i) == ChainFrom(l, l.next[root][i], i)

Elements == ToSet(Chain(list, 0)) \ {endnode}

\* A list as the constructor leaves it, but for the nodes in lent.
Constructed(lent) ==
  [next   |-> [n \in Node |-> [i \in Levels |->
                 IF n = root THEN endnode
                 ELSE IF n = endnode /\ i = 0 THEN nullptr ELSE Garbage]],
   before |-> [n \in Node |-> IF n = root THEN nullptr ELSE IF n = endnode THEN root ELSE Garbage],
   data   |-> [n \in Node |-> Garbage],
   curL   |-> 0,
   pool   |-> <<>>,
   lent   |-> lent]

\* The destructors of the list and of its allocator; another list is made.
Destroy ==
  /\ list' = Constructed(list.lent \ (Elements \cup ToSet(list.pool)))
  /\ op' = <<"create", <<>>, endnode, TRUE>>

\* Move construction: the new list takes the nodes but not the pool, which
\* goes with the old list.
Move ==
  /\ list' = [list EXCEPT !.pool = <<>>, !.lent = @ \ ToSet(list.pool)]
  /\ UNCHANGED op

Init == list = Constructed({}) /\ op = <<"create", <<>>, endnode, TRUE>>

Next ==
  \/ \E k \in Key : Find(k) \/ UpperBound(k) \/ Erase(k) \/ \E v \in Value : Emplace(k, v)
  \/ LET chain == Chain(list, 0) IN
     \E i \in 1..Len(chain) - 1, j \in DOMAIN chain : i <= j /\ EraseRange(chain[i], chain[j])
  \/ Destroy
  \/ Move

Spec == Init /\ [][Next]_vars

-----------------------------------------------------------------------------
TypeOK ==
  /\ list.next \in [Node -> [Levels -> Node \cup {nullptr, Garbage}]]
  /\ list.before \in [Node -> Node \cup {nullptr, Garbage}]
  /\ list.data \in [Node -> [key : Key, value : Value] \cup {Garbage}]
  /\ list.curL \in Levels
  /\ list.pool \in Seq(Address) /\ Len(list.pool) <= PoolSize
  /\ list.lent \subseteq Address

\* Every level is a sorted part of the level below and runs to the end node
\* over nodes that are in use, whatever stale links reused nodes hold; levels
\* above curL are empty.  Going back undoes going forward, from end() to the
\* first element and to the root (insert, erase, NodeAllocator::get, operator--).
LevelsExact ==
  /\ TypeOK
  /\ \A i \in Levels :
       LET c == Chain(list, i) IN
       /\ Last(c) = endnode
       /\ \A j \in 1..Len(c) - 2 : KeyOf(list, c[j]) < KeyOf(list, c[j + 1])
       /\ i > 0 => ToSet(c) \subseteq ToSet(Chain(list, i - 1))
       /\ i > list.curL => c = <<endnode>>
  /\ LET c == <<root>> \o Chain(list, 0)
     IN  \A j \in 2..Len(c) : list.before[c[j]] = c[j - 1]

\* A node that kmalloc handed out is in the list or once in the pool: none is
\* leaked by an emplace that fails, none is handed out while it is in the list
\* (emplace, erase, NodeAllocator::push, ~SkipListBase).
NodesOwned ==
  /\ list.lent = Elements \cup ToSet(list.pool)
  /\ Elements \cap ToSet(list.pool) = {}
  /\ IsInjective(list.pool)

\* An iterator stays good until its element is erased: no other operation moves
\* a key to another node or changes its value, and the node that an iterator to
\* it holds is not freed (emplace, erase, the move constructor).
IteratorsStable ==
  [][LET later == Elements' IN
     \A n \in Elements :
       \/ n \in later /\ list'.data[n] = list.data[n]
       \/ \A m \in later : KeyOf(list', m) # KeyOf(list, n)]_list

Contents ==
  LET nodes == Elements IN
  [k \in {KeyOf(list, n) : n \in nodes} |->
     list.data[CHOOSE n \in nodes : KeyOf(list, n) = k].value]

Map == INSTANCE OrderedMap WITH End <- endnode, map <- Contents

\* The linked levels behave as an ordered map: every operation finds, adds or
\* removes the keys it should and returns the iterator it should, for every
\* outcome of the random levels (SkipListMapBase).
MapSpec == Map!Spec
=============================================================================
