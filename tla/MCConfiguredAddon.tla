-------------------------- MODULE MCConfiguredAddon --------------------------
(* Small instances of ConfiguredAddon for TLC. *)
EXTENDS ConfiguredAddon, TLC
CONSTANTS u1, u2, a1, a2, n1, n2, r1, r2, res1, res2
OwnerEach == a1 :> u1 @@ a2 :> u2
ReaderAndAdmin == u1 :> [r \in Resources |-> {"read"}]
                  @@ u2 :> [r \in Resources |-> {"read", "write", "admin"}]
OneOwner == a1 :> u1 @@ a2 :> u1
OneService == a1 :> "service" @@ a2 :> "service"
OwnerAndAdmin == u1 :> [r \in Resources |-> {"read", "write"}]
                 @@ u2 :> [r \in Resources |-> {"read", "write", "admin"}]
Symmetry == Permutations(Requests) \cup Permutations(Addons)
=============================================================================
