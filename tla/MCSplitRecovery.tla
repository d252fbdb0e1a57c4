--------------------------- MODULE MCSplitRecovery ---------------------------
(* A small instance of SplitRecovery. *)
EXTENDS SplitRecovery

Load(keys) == {<<k, 1>> : k \in keys}
Bound(ops, ckpts, crashes, writes) ==
    [ops |-> ops, ckpts |-> ckpts, crashes |-> crashes, writes |-> writes]

MCEntries == Load({3, 4})
\* A full root leaf; a full leaf under a root with room; and under a full root.
MCCases ==
    {[load |-> Load({2, 4}), bounds |-> Bound(2, 1, 2, 2)],
     [load |-> Load({1, 2, 4, 6}), bounds |-> Bound(2, 1, 2, 1)],
     [load |-> Load({1, 2, 4, 6, 7, 8}), bounds |-> Bound(1, 1, 2, 1)]}

\* Beyond a window of the Commit the properties say nothing.
NotStrayed == ~strayed
==============================================================================
