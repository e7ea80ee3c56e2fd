--------------------------- MODULE MCOAuth1Account ---------------------------
EXTENDS OAuth1Account, TLC

\* accounts, browsers, requests, tokens and rows are alike
Symmetry == Permutations(Accounts) \cup Permutations(Browsers) \cup Permutations(Requests) \cup Permutations(Tokens) \cup Permutations(Rows)
=============================================================================
