----------------------------- MODULE MCBattleRoom -----------------------------
(* Small instances of BattleRoom. *)
EXTENDS BattleRoom, TLC

\* No definition tells two players, two clients or two values of HP apart.
RoomSymmetry ==
  Permutations(Player) \union Permutations(Client) \union Permutations(HP)

\* The properties say nothing of a room after a stale install or a repeated
\* create, so these states are reached and not explored further.
UpToABreach == breaches = {}
=============================================================================
