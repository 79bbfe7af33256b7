-------------------------------- MODULE Trie --------------------------------
(***************************************************************************)
(* The prefix tree of crates/athera-trie: the mount table of the VFS and   *)
(* the magic numbers of binfmt.  A node is the sequence of keys that leads *)
(* to it, so a tree is a set of nodes that is closed under prefixes, the   *)
(* values at some of them, and the counter len.                            *)
(***************************************************************************)
EXTENDS Integers, FiniteSets, Sequences

new == [nodes |-> {<<>>}, value |-> [k \in {} |-> k], len |-> 0]

\* The nodes on the way to a key, the root and the key included.
Way(key) == {SubSeq(key, 1, n) : n \in 0 .. Len(key)}

HasValue(t, k) == k \in DOMAIN t.value

\* contains_key: the walk of node_of, and a value where it ends
contains_key(t, key) == key \in t.nodes /\ HasValue(t, key)

insert(t, key, v) ==
  [nodes |-> t.nodes \cup Way(key),
   value |-> [k \in DOMAIN t.value \cup {key} |-> IF k = key THEN v ELSE t.value[k]],
   len |-> IF HasValue(t, key) THEN t.len ELSE t.len + 1]

\* Mutant: the subtree goes with the node that lost its value.
remove_atSubtree(t, key) ==
  [t EXCEPT !.nodes = {n \in @ : key \notin Way(n)} \cup {<<>>},
            !.value = [k \in {l \in DOMAIN @ : key \notin Way(l)} |-> @[k]]]

\* remove_at: the value is taken, and on the way back up each child that has
\* become prunable is removed: those below which nothing is left.
remove_at(t, key) ==
  LET kept == [k \in DOMAIN t.value \ {key} |-> t.value[k]]
      Dead(n) == /\ n # <<>> /\ n \in Way(key)
                 /\ ~ \E m \in t.nodes :
                        n \in Way(m) /\ (m \in DOMAIN kept \/ m \notin Way(key))
  IN  [nodes |-> {n \in t.nodes : ~ Dead(n)}, value |-> kept, len |-> t.len]

remove(t, key) ==
  IF contains_key(t, key) THEN [remove_at(t, key) EXCEPT !.len = @ - 1] ELSE t

\* How far the walk of longest_prefix comes, and the deepest value on it.
longest_prefix(t, key) ==
  LET walk == {n \in 0 .. Len(key) : \A m \in 0 .. n : SubSeq(key, 1, m) \in t.nodes}
      best == {n \in walk : HasValue(t, SubSeq(key, 1, n))}
  IN  IF best = {} THEN -1 ELSE CHOOSE n \in best : \A m \in best : m =< n

=============================================================================
