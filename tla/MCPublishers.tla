---------------------------- MODULE MCPublishers ----------------------------
(* Publishers instantiated for TLC: the limits are scaled down so that a    *)
(* post of MaxAssets media exceeds them.                                    *)
EXTENDS Publishers

MCAssetLimit == [p \in AllPlatforms |-> 2]
=============================================================================
