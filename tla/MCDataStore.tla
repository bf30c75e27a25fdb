---------------------------- MODULE MCDataStore ----------------------------
(***************************************************************************)
(* Small instances of DataStore: a few hashes, blocks of two records.      *)
(***************************************************************************)
EXTENDS DataStore

CONSTANTS m1

NoFlags == {{}}
Ends == {{}, Slot}
NoStamps == {0}
AnyStamps == {0, 9}
NoKeySets == {}
KeySets == {{0, 2, 3}}
=============================================================================
