------------------------------ MODULE TreeMath ------------------------------
(***************************************************************************)
(* The index arithmetic of the ratchet tree (src/src/protocol/group/       *)
(* tree.rs).  A tree of n leaves is an array of 2n - 1 nodes: leaf l is    *)
(* node 2l and the node of level k between two subtrees ends in k one      *)
(* bits.  The shifts and exclusive ors of the code are written with the    *)
(* bit they set or clear, which the level of the node determines.          *)
(***************************************************************************)
EXTENDS Integers, Sequences

(* Number of trailing one bits of x. *)
level(x) == CHOOSE k \in 0..x : x % 2^(k + 1) = 2^k - 1

is_leaf(x) == x % 2 = 0

node_count(n) == IF n = 0 THEN 0 ELSE 2*n - 1

log2(x) == CHOOSE k \in 0..x : 2^k <= x /\ x < 2^(k + 1)

root(n) == 2^log2(node_count(n)) - 1

(* x ^ (1 << (k-1)) clears the highest of the k trailing ones. *)
left(x) == x - 2^(level(x) - 1)

(* x ^ (3 << (k-1)), then down to the left while the index is outside. *)
RECURSIVE into_tree(_, _)
into_tree(r, n) == IF r >= node_count(n) THEN into_tree(left(r), n) ELSE r

right(x, n) == into_tree(x + 2^(level(x) - 1), n)

(* The search below the root for a node whose child is the target. *)
RECURSIVE find_parent(_, _, _)
find_parent(node, target, n) ==
  IF is_leaf(node) \/ node >= node_count(n) THEN {}
  ELSE IF target \in {left(node), right(node, n)} THEN {node}
  ELSE LET l == find_parent(left(node), target, n)
       IN  IF l # {} THEN l ELSE find_parent(right(node, n), target, n)

parent_walk(x, n) ==
  LET found == find_parent(root(n), x, n)
  IN  IF found = {} THEN root(n) ELSE CHOOSE p \in found : TRUE

(* (x | 1 << k) ^ (b << (k+1)): one more trailing one, bit k+1 cleared. *)
parent_parent_bit(x) == (x \div 2^(level(x) + 1)) % 2

parent(x, n) ==
  LET k == level(x)
      p == x + 2^k - parent_parent_bit(x) * 2^(k + 1)
  IN  IF p > root(n) \/ p >= node_count(n) THEN parent_walk(x, n) ELSE p

sibling(x, n) ==
  LET p == parent(x, n)
  IN  IF left(p) = x THEN right(p, n) ELSE left(p)

leaf_to_node(leaf) == 2 * leaf

RECURSIVE path_above(_, _)
path_above(x, n) ==
  IF x = root(n) THEN <<>> ELSE <<parent(x, n)>> \o path_above(parent(x, n), n)

direct_path(leaf, n) == path_above(leaf_to_node(leaf), n)

RECURSIVE siblings_above(_, _)
siblings_above(x, n) ==
  IF x = root(n) THEN <<>> ELSE <<sibling(x, n)>> \o siblings_above(parent(x, n), n)

copath(leaf, n) == siblings_above(leaf_to_node(leaf), n)

=============================================================================
