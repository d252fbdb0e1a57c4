------------------------------- MODULE MCBTree -------------------------------
(* Instances of BTree for TLC.                                             *)
EXTENDS BTree

Symmetry == Permutations(Threads)

SmallPages == 1..8
SmallEntries == {<<1, 1>>, <<2, 1>>, <<2, 2>>, <<3, 1>>, <<3, 2>>}

\* An empty tree, a full root leaf, and trees of two and three leaves whose
\* parent has room or is full, some with a leaf drained or half drained.
SmallLoads == {<<{}, {}>>,
               <<{<<1, 1>>, <<2, 1>>}, {}>>,
               <<{<<1, 1>>, <<2, 1>>, <<2, 2>>}, {<<1, 1>>}>>,
               <<SmallEntries, {<<2, 2>>, <<3, 1>>}>>,
               <<SmallEntries, {<<2, 1>>}>>,
               <<SmallEntries, {}>>}

\* Two leaves, and inserts into the left one and at the edge of the right one.
EdgePages == 1..6
EdgeLoads == {<<{<<1, 1>>, <<1, 3>>, <<2, 2>>}, {}>>}
EdgeEntries == {<<1, 2>>, <<1, 3>>, <<2, 1>>}
=============================================================================
