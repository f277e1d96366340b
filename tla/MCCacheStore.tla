---------------------------- MODULE MCCacheStore ----------------------------
(* Small instances of CacheStore: operations and digests are symmetric. *)
EXTENDS CacheStore, TLC

CONSTANTS o1, o2, b1, b2

BothOps  == {o1, o2}
BothBlobs == {b1, b2}
OneBlob  == {b1}
Symmetry == Permutations(Ops) \cup Permutations(Blobs)
=============================================================================
