------------------------- MODULE MCAccountMigration -------------------------
(* Small instances of AccountMigration for TLC. *)
EXTENDS AccountMigration, TLC
CONSTANTS u1, u2, e1, e2, e3, n1, n2
OneService == [e \in ExternalAccounts |-> "owncloud"]
Passwords == [s \in Services |-> "USERNAME_PASSWORD"]
SharedAccount == {<<u1, e1>>, <<u1, e2>>, <<u2, e2>>}
AllOptions == [fake: BOOLEAN, ignore_cutoff: BOOLEAN]
NoFake == [fake: {FALSE}, ignore_cutoff: BOOLEAN]
Symmetry == Permutations(Nodes)
=============================================================================
