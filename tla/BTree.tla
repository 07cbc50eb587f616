------------------------------- MODULE BTree -------------------------------
(***************************************************************************)
(* The B-tree that maps 64-bit keys to values during an import (package    *)
(* coll).  There is no delete.  An entry is a record: its sorted keys, the *)
(* value of each key, the length of the slices that hold them (cap), and   *)
(* its children, one more than keys; a leaf has none.  The values' width   *)
(* in bytes only bounds them, so values are kept as numbers.               *)
(***************************************************************************)
EXTENDS Integers, Sequences, SequencesExt, FiniteSetsExt

CONSTANTS
    NoEntry,        \* the nil entry a call returns when nothing was split
    OptimizeEvery   \* entries after which the slices are cut: 1000000 in the code

----------------------------------------------------------------------------
NewEntry(cap, leaf) == [leaf |-> leaf, keys |-> <<>>, values |-> <<>>, children |-> <<>>, cap |-> cap]

\* The constructor: an odd number of entries in a leaf, and small leaves at first.
NewBTree(maxLeafEntries, maxValue, emptyValue) ==
    LET max == IF maxLeafEntries % 2 = 0 THEN maxLeafEntries + 1 ELSE maxLeafEntries
        initial == CASE max < 10 -> 1
                     [] max >= 10 /\ max < 20 -> 4
                     [] OTHER -> max \div 10
    IN [max |-> max, splitIndex |-> max \div 2, initLeafSize |-> initial, maxValue |-> maxValue,
        empty |-> emptyValue, root |-> NewEntry(initial, TRUE), height |-> 1, size |-> 0]

Clear(t) == [t EXCEPT !.root = NewEntry(t.initLeafSize, TRUE), !.height = 1, !.size = 0]

\* The position of a key, or where it belongs: the code returns the complement of the latter.
binarySearch(keys, key) ==
    LET RECURSIVE Search(_, _)
        Search(low, high) ==
            IF high - low <= 1 THEN high
            ELSE LET guess == (low + high) \div 2
                 IN IF keys[guess + 1] < key THEN Search(guess, high) ELSE Search(low, guess)
        at == Search(-1, Len(keys))
    IN [index |-> at, found |-> at < Len(keys) /\ keys[at + 1] = key]

ensureSize(e, size, t) ==
    IF size <= e.cap THEN e
    ELSE LET grown == IF t.max < 20 THEN 2 * size ELSE (17 * size) \div 10
         IN [e EXCEPT !.cap = Min({t.max, Max({size + 1, grown})})]

\* The child to the right of the new key is put in by insertTree: until then
\* the slice of children holds its left neighbour twice.
insertKeyValue(entry, index, key, value, t) ==
    LET e == ensureSize(entry, Len(entry.keys) + 1, t)
    IN [e EXCEPT !.keys = InsertAt(@, index + 1, key),
                 !.values = InsertAt(@, index + 1, value),
                 !.children = IF e.leaf \/ e.children = <<>> THEN @
                              ELSE InsertAt(@, index + 1, @[index + 1])]

insertTree(e, index, tree, t) ==
    LET grown == insertKeyValue(e, index, tree.keys[1], tree.values[1], t)
    IN IF e.leaf THEN grown
       ELSE [grown EXCEPT !.children[index + 1] = tree.children[1],
                          !.children[index + 2] = tree.children[2]]

copyEntry(e, fromIdx, count, t) ==
    [leaf |-> e.leaf, keys |-> SubSeq(e.keys, fromIdx + 1, fromIdx + count),
     values |-> SubSeq(e.values, fromIdx + 1, fromIdx + count),
     children |-> IF e.leaf THEN <<>> ELSE SubSeq(e.children, fromIdx + 1, fromIdx + count + 1),
     cap |-> Max({t.initLeafSize, count})]

\* Mutation of checkSplitEntry: the new parent takes the value of the key before its own.
checkSplitEntryValueBefore(e, t) ==
    IF Len(e.keys) < t.max THEN NoEntry
    ELSE [leaf |-> FALSE, keys |-> <<e.keys[t.splitIndex + 1]>>,
          values |-> <<e.values[Max({1, t.splitIndex})]>>,
          children |-> <<copyEntry(e, 0, t.splitIndex, t),
                         copyEntry(e, t.splitIndex + 1, Len(e.keys) - t.splitIndex - 1, t)>>,
          cap |-> 1]

\* A full entry becomes a parent with one key and two halves.
checkSplitEntry(e, t) ==
    IF Len(e.keys) < t.max THEN NoEntry
    ELSE [leaf |-> FALSE, keys |-> <<e.keys[t.splitIndex + 1]>>,
          values |-> <<e.values[t.splitIndex + 1]>>,
          children |-> <<copyEntry(e, 0, t.splitIndex, t),
                         copyEntry(e, t.splitIndex + 1, Len(e.keys) - t.splitIndex - 1, t)>>,
          cap |-> 1]

\* Where a new key or a split child goes: into the entry, or into a half of it.
InHalves(e, index, t, Insert(_, _)) ==
    LET split == checkSplitEntry(e, t)
        half == IF index <= t.splitIndex THEN 1 ELSE 2
    IN IF split = NoEntry THEN [entry |-> Insert(e, index), tree |-> NoEntry]
       ELSE LET tree == [split EXCEPT !.children[half] =
                           Insert(@, IF half = 1 THEN index ELSE index - t.splitIndex - 1)]
            IN [entry |-> tree, tree |-> tree]

\* The entry after the call (meaningless when it was split), the tree that replaces
\* it if it was, the old value, and whether there was one.
RECURSIVE putInEntry(_, _, _, _)
putInEntry(e, key, value, t) ==
    LET at == binarySearch(e.keys, key)
        down == putInEntry(e.children[at.index + 1], key, value, t)
        insertKey(x, index) == insertKeyValue(x, index, key, value, t)
        insertDown(x, index) == insertTree(x, index, down.tree, t)
        New(result) == result @@ [old |-> t.empty, update |-> FALSE]
    IN IF at.found
       THEN [entry |-> [e EXCEPT !.values[at.index + 1] = value], tree |-> NoEntry,
             old |-> e.values[at.index + 1], update |-> TRUE]
       ELSE IF e.leaf THEN New(InHalves(e, at.index, t, insertKey))
       ELSE IF down.tree # NoEntry THEN New(InHalves(e, at.index, t, insertDown))
       ELSE [down EXCEPT !.entry = [e EXCEPT !.children[at.index + 1] = down.entry]]

\* A value above the maximum and the empty value panic.
CanPut(t, value) == value <= t.maxValue /\ value # t.empty

\* Slices with more than one place to spare are cut, all the way down.
RECURSIVE compact(_)
compact(e) ==
    [e EXCEPT !.cap = IF Len(e.keys) + 1 < @ THEN Len(e.keys) ELSE @,
              !.children = [i \in DOMAIN @ |-> compact(@[i])]]

\* Optimize, which does nothing for few entries, comes with every so many of them.
WithResult(t, rv) ==
    LET split == rv.tree # NoEntry
        size == IF rv.update THEN t.size ELSE t.size + 1
        root == IF split THEN rv.tree ELSE rv.entry
    IN [t EXCEPT !.root = IF ~ rv.update /\ size % OptimizeEvery = 0 THEN compact(root) ELSE root,
                 !.height = IF split THEN @ + 1 ELSE @,
                 !.size = size]

BPut(t, key, value) == WithResult(t, putInEntry(t.root, key, value, t))

RECURSIVE getFromEntry(_, _, _)
getFromEntry(e, key, t) ==
    LET at == binarySearch(e.keys, key)
    IN IF at.found THEN e.values[at.index + 1]
       ELSE IF e.leaf THEN t.empty
       ELSE getFromEntry(e.children[at.index + 1], key, t)

BGet(t, key) == getFromEntry(t.root, key, t)

----------------------------------------------------------------------------
\* Every entry is as the search expects it: sorted keys, within the slices, all
\* leaves at the depth the tree says.
RECURSIVE WellFormedEntry(_, _, _)
WellFormedEntry(e, height, t) ==
    /\ Len(e.values) = Len(e.keys) /\ Len(e.keys) <= e.cap /\ e.cap <= t.max
    /\ \A i \in 1 .. Len(e.keys) - 1 : e.keys[i] < e.keys[i + 1]
    /\ e.leaf <=> height = 1
    /\ ~ e.leaf => /\ Len(e.children) = Len(e.keys) + 1
                   /\ \A i \in DOMAIN e.children : WellFormedEntry(e.children[i], height - 1, t)

WellFormed(t) == WellFormedEntry(t.root, t.height, t)
=============================================================================
