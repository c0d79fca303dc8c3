----------------------------- MODULE MCLocking -----------------------------
(* Locking for TLC: threads are interchangeable.                           *)
EXTENDS Locking, TLC

ThreadSymmetry == Permutations(Threads)

\* MultiLocker is called with all the objects of the instance.
AllObjects == {Objects}
=============================================================================
