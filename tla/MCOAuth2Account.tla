--------------------------- MODULE MCOAuth2Account ---------------------------
(* Small instances of OAuth2Account for TLC. *)
EXTENDS OAuth2Account, TLC

\* Rows, tokens and handler slots are interchangeable identifiers.
Symmetry == Permutations(Accounts) \cup Permutations(Metas)
    \cup Permutations(Creds) \cup Permutations(Tokens)
    \cup Permutations(Handlers)
=============================================================================
