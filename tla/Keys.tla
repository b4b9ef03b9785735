--------------------------------- MODULE Keys ---------------------------------
(***************************************************************************)
(* The KeyManager of crates/truth/src/cryptography.rs: the key of a        *)
(* validator, its rotations and the key it had at a height.  A rotation is *)
(* recorded with the height the caller gives, in whatever order; its type  *)
(* is left out.                                                            *)
(***************************************************************************)
EXTENDS Integers, Sequences

CONSTANTS
    SigningKeys, InitialKey, RotationHeights,
    MaxRotations            \* bound on the rotations

ASSUME KeysAssumption ==
    InitialKey \in SigningKeys /\ RotationHeights \subseteq Nat /\ MaxRotations \in Nat

VARIABLES
    current_key,
    rotation_history        \* old key and height of each rotation, oldest first

key_vars == <<current_key, rotation_history>>

KeysInit == current_key = InitialKey /\ rotation_history = <<>>

RotateKey(key, height) ==
    /\ Len(rotation_history) < MaxRotations
    /\ rotation_history' = Append(rotation_history, [old_key |-> current_key, height |-> height])
    /\ current_key' = key

KeysNext == \E k \in SigningKeys, h \in RotationHeights : RotateKey(k, h)

KeysSpec == KeysInit /\ [][KeysNext]_key_vars

KeyAtOldest(height) ==
    LET later == {i \in DOMAIN rotation_history : rotation_history[i].height > height}
    IN  IF later = {} THEN current_key
        ELSE rotation_history[CHOOSE i \in later : \A j \in later : i <= j].old_key

\* The records are searched from the newest back to the first whose height is
\* not above the one asked for: the rotations after it are undone.
GetKeyAtHeight(height) ==
    LET last  == {i \in DOMAIN rotation_history : rotation_history[i].height <= height}
        undone == {i \in DOMAIN rotation_history : \A j \in last : j < i}
    IN  IF undone = {} THEN current_key
        ELSE rotation_history[CHOOSE i \in undone : \A j \in undone : i <= j].old_key

-----------------------------------------------------------------------------
\* A rotation does not rewrite the past: the key in force at a height below
\* that of the rotation stays what it was, also when heights are repeated or
\* recorded out of order.  From that height on the new key is in force.
PastKeysStand ==
    [][\E key \in SigningKeys, height \in RotationHeights :
          /\ rotation_history' = Append(rotation_history,
                                        [old_key |-> current_key, height |-> height])
          /\ \A h \in RotationHeights :
                GetKeyAtHeight(h)' = IF h < height THEN GetKeyAtHeight(h) ELSE key]_key_vars

=============================================================================
