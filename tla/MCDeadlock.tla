----------------------------- MODULE MCDeadlock -----------------------------
(* DeadlockDetector with sessions that ask for different table locks.       *)
EXTENDS DeadlockDetector, TLC

\* An exclusive locker, a reader that may upgrade, a writer of rows.
MCThree == (1 :> {AccessExclusive}) @@ (2 :> {AccessShare, AccessExclusive})
           @@ (3 :> {RowExclusive})
MCTwo == [x \in 1..2 |-> {AccessShare, AccessExclusive}]
=============================================================================
