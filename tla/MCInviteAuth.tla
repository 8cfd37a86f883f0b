---------------------------- MODULE MCInviteAuth ----------------------------
(* InviteAuth for TLC: nothing tells the callers apart.                    *)
EXTENDS InviteAuth, TLC

Symmetry == Permutations(CallIDs)
=============================================================================
