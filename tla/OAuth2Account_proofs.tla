------------------------ MODULE OAuth2Account_proofs ------------------------
(***************************************************************************)
(* Theorems about OAuth2Account, for any numbers of accounts, metadata     *)
(* rows, credentials rows, tokens and concurrent handlers.                 *)
(***************************************************************************)
EXTENDS OAuth2Account, TLAPS

(***************************************************************************)
(* Type correctness.                                                       *)
(***************************************************************************)

\* The values a handler may hold: idle, or as updated by an action.
LEMMA IdleType == Idle \in HandlerState
  BY DEF Idle, HandlerState, Phases, NoRows

\* Storing a handler state in one slot keeps the type of handler.
LEMMA HandlerUpdate ==
  ASSUME NEW h \in Handlers, NEW s \in HandlerState,
         handler \in [Handlers -> HandlerState],
         handler' = [handler EXCEPT ![h] = s]
  PROVE  handler' \in [Handlers -> HandlerState]
  OBVIOUS

\* The types of a handler's fields.
LEMMA HandlerType ==
  ASSUME handler \in [Handlers -> HandlerState], NEW h \in Handlers
  PROVE  /\ handler[h] \in HandlerState
         /\ handler[h].phase \in Phases
         /\ handler[h].callback \in BOOLEAN
         /\ handler[h].meta \in Metas \cup {None}
         /\ handler[h].refresh \in Tokens \cup {None}
         /\ handler[h].access \in Tokens \cup {None}
         /\ handler[h].rows \in [Accounts -> AccountRow \cup {None}]
<1>1. handler[h] \in HandlerState
  OBVIOUS
<1> QED
  BY <1>1 DEF HandlerState

\* Changing fields of a handler, or of an account row, keeps its type.
LEMMA HandlerFields ==
  ASSUME NEW s \in HandlerState
  PROVE  /\ \A t \in Tokens \cup {None} : [s EXCEPT !.access = t] \in HandlerState
         /\ \A p \in Phases : [s EXCEPT !.phase = p] \in HandlerState
         /\ \A rows \in [Accounts -> AccountRow \cup {None}] :
                [s EXCEPT !.rows = rows] \in HandlerState
         /\ \A p \in Phases, rows \in [Accounts -> AccountRow \cup {None}] :
                [s EXCEPT !.phase = p, !.rows = rows] \in HandlerState
         /\ \A p \in Phases, t \in Tokens \cup {None}, r \in Tokens \cup {None} :
                [s EXCEPT !.phase = p, !.access = t, !.refresh = r] \in HandlerState
  BY DEF HandlerState

LEMMA RowFields ==
  ASSUME NEW r \in AccountRow, NEW m \in Metas \cup {None},
         NEW c \in Creds \cup {None}
  PROVE  /\ [r EXCEPT !.meta = m, !.creds = c] \in AccountRow
         /\ [r EXCEPT !.creds = c] \in AccountRow
         /\ [r EXCEPT !.ext = TRUE] \in AccountRow
  BY DEF AccountRow

LEMMA TypeInit == Init => TypeOK
  BY IdleType DEF Init, TypeOK

LEMMA TypeNext == TypeOK /\ ForeignKeys /\ [Next]_vars => TypeOK'
<1> SUFFICES ASSUME TypeOK, ForeignKeys, [Next]_vars PROVE TypeOK'
  OBVIOUS
<1> USE DEF TypeOK
<1>1. ASSUME NEW a \in Accounts, CreateAccount(a) PROVE TypeOK'
  BY <1>1 DEF CreateAccount, NewRow, AccountRow
<1>2. ASSUME NEW a \in Accounts, NEW row \in AccountRow,
             InitiateOAuth2Flow(a, row)
      PROVE  /\ account' \in [Accounts -> AccountRow \cup {None, Deleted}]
             /\ metadata' \in [Metas -> MetaRow \cup {None}]
  <2>1. PICK m \in Metas :
          /\ metadata' = [metadata EXCEPT ![m] =
                [nonce |-> TRUE, refresh |-> None]]
          /\ account' = [account EXCEPT ![a] =
                [row EXCEPT !.meta = m, !.creds = None]]
    BY <1>2 DEF InitiateOAuth2Flow
  <2>2. [row EXCEPT !.meta = m, !.creds = None] \in AccountRow
    BY RowFields
  <2>3. [nonce |-> TRUE, refresh |-> None] \in MetaRow
    BY DEF MetaRow
  <2> QED
    BY <2>1, <2>2, <2>3
<1>3. ASSUME NEW a \in Accounts, CreateAccountWithOAuth(a) PROVE TypeOK'
  <2>1. NewRow \in AccountRow
    BY DEF NewRow, AccountRow
  <2> QED
    BY <1>2, <1>3, <2>1 DEF CreateAccountWithOAuth
<1>4. ASSUME NEW a \in Accounts, DeleteAccount(a) PROVE TypeOK'
  BY <1>4 DEF DeleteAccount
<1>5. ASSUME NEW h \in Handlers, NEW a \in Accounts, NEW p \in Phases,
             Exists(a), Reading(h, p, a)
      PROVE  handler' \in [Handlers -> HandlerState]
  BY <1>5 DEF Exists, Reading, Idle, HandlerState, NoRows
<1>6. ASSUME NEW h \in Handlers, NEW a \in Accounts, PatchLoad(h, a) PROVE TypeOK'
  BY <1>5, <1>6 DEF PatchLoad, Phases
<1>7. ASSUME NEW h \in Handlers, PatchCredentials(h) PROVE TypeOK'
  <2>1. PICK t \in Tokens :
          /\ grant' = [grant EXCEPT ![t] = Owner]
          /\ handler' = [handler EXCEPT ![h] = [handler[h] EXCEPT !.access = t]]
    BY <1>7 DEF PatchCredentials
  <2>2. [handler[h] EXCEPT !.access = t] \in HandlerState
    BY HandlerType, HandlerFields
  <2> QED
    BY <1>7, <2>1, <2>2, HandlerUpdate DEF PatchCredentials
<1>8. ASSUME NEW h \in Handlers, NEW a \in Accounts, PatchValidate(h, a) PROVE TypeOK'
  <2>1. [handler[h] EXCEPT !.phase = "patched"] \in HandlerState
    BY HandlerType, HandlerFields DEF Phases
  <2>2. handler' = [handler EXCEPT ![h] = [handler[h] EXCEPT !.phase = "patched"]]
    BY <1>8 DEF PatchValidate
  <2> QED
    BY <1>8, <2>1, <2>2, HandlerUpdate DEF PatchValidate
<1>9. ASSUME NEW h \in Handlers, NEW a \in Accounts, NEW row \in AccountRow,
             PatchedRow(h, a, row)
      PROVE  credential' \in [Creds -> Tokens \cup {None}]
  BY <1>9 DEF PatchedRow, HandlerState, AccountRow
<1>10. ASSUME NEW h \in Handlers, NEW a \in Accounts, PatchSave(h, a) PROVE TypeOK'
  BY <1>9, <1>10, IdleType DEF PatchSave
<1>11. ASSUME NEW h \in Handlers, NEW a \in Accounts, PatchInitiate(h, a) PROVE TypeOK'
  BY <1>2, <1>9, <1>11, IdleType DEF PatchInitiate
<1>12. ASSUME NEW h \in Handlers, NEW m \in Metas, ResolveStateToken(h, m) PROVE TypeOK'
  BY <1>12 DEF ResolveStateToken, MetaRow, HandlerState, Idle, NoRows, Phases
<1>13. ASSUME NEW h \in Handlers, GetInitialAccessToken(h) PROVE TypeOK'
  <2>1. PICK t \in Tokens : \E r \in {t, handler[h].refresh} :
          /\ grant' = [grant EXCEPT ![t] = handler[h].meta]
          /\ live' = live \cup ({r} \ {None})
          /\ handler' = [handler EXCEPT ![h] =
                [handler[h] EXCEPT !.phase = "received", !.access = t, !.refresh = r]]
    BY <1>13 DEF GetInitialAccessToken
  <2>2. PICK r \in {t, handler[h].refresh} :
          /\ live' = live \cup ({r} \ {None})
          /\ handler' = [handler EXCEPT ![h] =
                [handler[h] EXCEPT !.phase = "received", !.access = t, !.refresh = r]]
    BY <2>1
  <2>3. handler[h].meta \in Metas \cup {None} /\ r \in Tokens \cup {None}
    BY HandlerType
  <2>4. [handler[h] EXCEPT !.phase = "received", !.access = t, !.refresh = r]
            \in HandlerState
    BY <2>3, HandlerType, HandlerFields DEF Phases
  <2> QED
    BY <1>13, <2>1, <2>2, <2>3, <2>4, HandlerUpdate DEF GetInitialAccessToken
<1>14. ASSUME NEW h \in Handlers, NEW a \in Accounts, RefreshLoad(h, a) PROVE TypeOK'
  BY <1>5, <1>14 DEF RefreshLoad, Phases
<1>15. ASSUME NEW h \in Handlers, NEW a \in Accounts, RefreshLoadMetadata(h, a) PROVE TypeOK'
  <2>1. handler[h].rows[a] \in AccountRow
    BY <1>15, HandlerType DEF RefreshLoadMetadata
  <2> DEFINE m == handler[h].rows[a].meta
             s == [Idle EXCEPT !.phase = "requesting", !.meta = m,
                               !.refresh = metadata[m].refresh]
  <2>2. m \in Metas
    BY <1>15, <2>1 DEF RefreshLoadMetadata, AccountRow
  <2>3. metadata[m].refresh \in Tokens \cup {None}
    <3>1. metadata[m] \in MetaRow \cup {None} /\ metadata[m].refresh # None
      BY <1>15, <2>2 DEF RefreshLoadMetadata
    <3>2. handler[h].rows[a].creds \in Creds \cup {None}
      BY <2>1 DEF AccountRow
    <3>3. Paired(m, handler[h].rows[a].creds)
      BY <1>15 DEF Paired, RefreshLoadMetadata
    <3>4. metadata[m] # None
      BY <2>2, <3>2, <3>3, NoneAssumption DEF ForeignKeys
    <3> QED
      BY <3>1, <3>4 DEF MetaRow
  <2>4. s \in HandlerState
    BY <2>2, <2>3 DEF Idle, HandlerState, NoRows, Phases
  <2>5. handler' = [handler EXCEPT ![h] = s]
    BY <1>15 DEF RefreshLoadMetadata
  <2> QED
    BY <1>15, <2>4, <2>5, HandlerUpdate DEF RefreshLoadMetadata
<1>16. ASSUME NEW h \in Handlers, GetRefreshedAccessToken(h) PROVE TypeOK'
  <2>1. PICK t \in Tokens :
          /\ grant' = [grant EXCEPT ![t] = grant[handler[h].refresh]]
          /\ live' = IF Rotating THEN (live \ {handler[h].refresh}) \cup {t} ELSE live
          /\ handler' = [handler EXCEPT ![h] =
                [handler[h] EXCEPT !.phase = "received", !.access = t,
                     !.refresh = IF Rotating THEN t ELSE handler[h].refresh]]
    BY <1>16 DEF GetRefreshedAccessToken
  <2>2. /\ grant[handler[h].refresh] \in Metas \cup {None, Owner}
        /\ (IF Rotating THEN t ELSE handler[h].refresh) \in Tokens \cup {None}
    BY <1>16 DEF GetRefreshedAccessToken, HandlerState
  <2>3. [handler[h] EXCEPT !.phase = "received", !.access = t,
             !.refresh = IF Rotating THEN t ELSE handler[h].refresh]
            \in HandlerState
    BY <2>2, HandlerType, HandlerFields DEF Phases
  <2> QED
    BY <1>16, <2>1, <2>2, <2>3, HandlerUpdate DEF GetRefreshedAccessToken
<1>17. ASSUME NEW h \in Handlers, ValidateTokenUpdate(h) PROVE TypeOK'
  <2>1. [handler[h] EXCEPT !.phase = "validated"] \in HandlerState
    BY HandlerType, HandlerFields DEF Phases
  <2>2. handler' = [handler EXCEPT ![h] = [handler[h] EXCEPT !.phase = "validated"]]
    BY <1>17 DEF ValidateTokenUpdate
  <2> QED
    BY <1>17, <2>1, <2>2, HandlerUpdate DEF ValidateTokenUpdate
<1>18. ASSUME NEW h \in Handlers, BeginTokenUpdate(h) PROVE TypeOK'
  <2> DEFINE rows == [a \in Accounts |->
                IF a \in LinkedAccounts(handler[h].meta) THEN account[a] ELSE None]
  <2>1. rows \in [Accounts -> AccountRow \cup {None}]
    BY DEF LinkedAccounts, Exists
  <2>2. [handler[h] EXCEPT !.phase = "updating", !.rows = rows] \in HandlerState
    BY <2>1, HandlerType, HandlerFields DEF Phases
  <2>3. handler' = [handler EXCEPT ![h] =
                [handler[h] EXCEPT !.phase = "updating", !.rows = rows]]
    BY <1>18 DEF BeginTokenUpdate
  <2> QED
    BY <1>18, <2>2, <2>3, HandlerUpdate DEF BeginTokenUpdate
<1>19. ASSUME NEW h \in Handlers, CommitTokenUpdate(h) PROVE TypeOK'
  <2> DEFINE m == handler[h].meta
             read == handler[h].rows
             saved(c) == [a \in Accounts |->
                IF read[a] = None THEN None ELSE [read[a] EXCEPT !.creds = c[a]]]
             next(c) == IF handler[h].callback /\ saved(c) # NoRows
                        THEN [Idle EXCEPT !.phase = "hooking", !.rows = saved(c)]
                        ELSE Idle
  <2>1. PICK c \in [Accounts -> Creds \cup {None}] :
          /\ metadata' = [metadata EXCEPT ![m] =
                [nonce |-> FALSE, refresh |-> handler[h].refresh]]
          /\ credential' = [k \in Creds |->
                IF \E a \in Accounts : c[a] = k THEN handler[h].access
                                                ELSE credential[k]]
          /\ account' = [a \in Accounts |->
                IF saved(c)[a] = None THEN account[a] ELSE saved(c)[a]]
          /\ handler' = [handler EXCEPT ![h] = next(c)]
    BY <1>19 DEF CommitTokenUpdate
  <2>2. read \in [Accounts -> AccountRow \cup {None}]
    BY DEF HandlerState
  <2>3. saved(c) \in [Accounts -> AccountRow \cup {None}]
    BY <2>2, RowFields
  <2>4. next(c) \in HandlerState
    BY <2>3, IdleType, HandlerFields DEF Phases
  <2>5. [nonce |-> FALSE, refresh |-> handler[h].refresh] \in MetaRow
    BY DEF MetaRow, HandlerState
  <2>6. /\ account' \in [Accounts -> AccountRow \cup {None, Deleted}]
        /\ metadata' \in [Metas -> MetaRow \cup {None}]
        /\ credential' \in [Creds -> Tokens \cup {None}]
    <3> HIDE DEF saved, next, read
    <3>1. handler[h].access \in Tokens \cup {None}
      BY DEF HandlerState
    <3> QED
      BY <2>1, <2>3, <2>5, <3>1
  <2>7. handler' \in [Handlers -> HandlerState]
    BY <2>1, <2>4, HandlerUpdate
  <2> QED
    BY <1>19, <2>6, <2>7 DEF CommitTokenUpdate
<1>20. ASSUME NEW h \in Handlers, NEW a \in Accounts, PostAuthHook(h, a) PROVE TypeOK'
  <2> DEFINE rest == [handler[h].rows EXCEPT ![a] = None]
             next == IF rest = NoRows THEN Idle
                                      ELSE [handler[h] EXCEPT !.rows = rest]
  <2>1. /\ handler[h].rows \in [Accounts -> AccountRow \cup {None}]
        /\ handler[h].rows[a] # None
        /\ account' = [account EXCEPT ![a] = [handler[h].rows[a] EXCEPT !.ext = TRUE]]
        /\ handler' = [handler EXCEPT ![h] = next]
    BY <1>20 DEF PostAuthHook, HandlerState
  <2>2. [handler[h].rows[a] EXCEPT !.ext = TRUE] \in AccountRow
    BY <2>1, RowFields
  <2>3. next \in HandlerState
    BY <2>1, IdleType, HandlerFields DEF Phases
  <2> QED
    BY <1>20, <2>1, <2>2, <2>3, HandlerUpdate DEF PostAuthHook
<1>21. ASSUME NEW h \in Handlers, Abandon(h) PROVE TypeOK'
  BY <1>21, IdleType DEF Abandon
<1>22. ASSUME NEW h \in Handlers, NEW a \in Accounts, MergeLoad(h, a) PROVE TypeOK'
  BY <1>5, <1>22 DEF MergeLoad, Phases
<1>23. ASSUME NEW h \in Handlers, NEW a \in Accounts, NEW same \in SUBSET Accounts,
              MergeUpdate(h, a, same)
       PROVE  TypeOK'
  <2> DEFINE r == handler[h].rows[a]
             new(b) == [account[b] EXCEPT !.meta = r.meta, !.creds = r.creds]
  <2>1. r \in AccountRow
    BY <1>23, HandlerType DEF MergeUpdate
  <2>2. r.meta \in Metas \cup {None} /\ r.creds \in Creds \cup {None}
    BY <2>1 DEF AccountRow
  <2>3. \A b \in same : new(b) \in AccountRow
    BY <1>23, <2>2, RowFields DEF MergeUpdate, Exists
  <2>4. account' = [b \in Accounts |-> IF b \in same THEN new(b) ELSE account[b]]
    BY <1>23 DEF MergeUpdate
  <2>5. account' \in [Accounts -> AccountRow \cup {None, Deleted}]
    <3> HIDE DEF new
    <3> QED BY <2>3, <2>4
  <2> QED
    BY <1>23, <2>5, IdleType, HandlerUpdate DEF MergeUpdate
<1>24. CASE UNCHANGED vars
  BY <1>24 DEF vars
<1> QED
  BY <1>1, <1>3, <1>4, <1>6, <1>7, <1>8, <1>10, <1>11, <1>12, <1>13, <1>14, <1>15,
     <1>16, <1>17, <1>18, <1>19, <1>20, <1>21, <1>22, <1>23, <1>24
  DEF Next

(***************************************************************************)
(* The inductive invariant.  First what an action that only reads, or only *)
(* writes back rows already known, leaves intact.                          *)
(***************************************************************************)

\* No action forgets a metadata row, revives a nonce or re-issues a token.
Grows ==
    /\ \A m \in Metas : metadata[m] # None =>
        /\ metadata'[m] # None
        /\ ~metadata[m].nonce => ~metadata'[m].nonce
    /\ \A t \in Tokens : grant[t] # None => grant'[t] = grant[t]

\* The pairs after a step were known before, or have no credentials yet, or
\* are of metadata m and one of the credentials rows W.
OnlyKnownPairs(m, W) ==
    \A n \in Metas \cup {None}, c \in Creds \cup {None} :
        Paired(n, c)' => \/ Paired(n, c)
                         \/ c = None /\ (n # None => metadata'[n] # None)
                         \/ n = m /\ c \in W

\* A step saves a token in the credentials rows W, which at most accounts of
\* metadata m use, and the token is one for m.
CredentialsSaved(m, W) ==
    /\ \A c \in Creds \ W : credential'[c] = credential[c]
    /\ \A c \in W :
        /\ credential'[c] # None
        /\ m # None => grant'[credential'[c]] \in {m, Owner}
        /\ \A n \in Metas \cup {None} : Paired(n, c) => n = m
    /\ m # None => metadata'[m] # None /\ ~metadata'[m].nonce

LEMMA PairsFrame ==
  ASSUME TypeOK, ForeignKeys, OneMetadata, PairedOK, Grows,
         NEW m \in Metas \cup {None}, NEW W \in SUBSET Creds,
         OnlyKnownPairs(m, W), CredentialsSaved(m, W)
  PROVE  ForeignKeys' /\ OneMetadata' /\ PairedOK'
<1>1. ForeignKeys'
  <2> SUFFICES ASSUME NEW n \in Metas \cup {None}, NEW c \in Creds \cup {None},
                      Paired(n, c)'
               PROVE  /\ n # None => metadata'[n] # None
                      /\ c # None => credential'[c] # None
    BY DEF ForeignKeys
  <2>1. CASE Paired(n, c)
    <3>1. (n # None => metadata[n] # None) /\ (c # None => credential[c] # None)
      BY <2>1 DEF ForeignKeys
    <3> QED
      BY <3>1 DEF Grows, CredentialsSaved
  <2>2. CASE c = None /\ (n # None => metadata'[n] # None)
    BY <2>2
  <2>3. CASE n = m /\ c \in W
    BY <2>3 DEF CredentialsSaved
  <2> QED
    BY <2>1, <2>2, <2>3 DEF OnlyKnownPairs
<1>2. OneMetadata'
  <2> SUFFICES ASSUME NEW c \in Creds, NEW k \in Metas \cup {None},
                      NEW n \in Metas \cup {None}, Paired(k, c)', Paired(n, c)'
               PROVE  k = n
    BY DEF OneMetadata
  <2>1. /\ Paired(k, c) \/ (k = m /\ c \in W)
        /\ Paired(n, c) \/ (n = m /\ c \in W)
    BY NoneAssumption DEF OnlyKnownPairs
  <2> QED
    BY <2>1 DEF OneMetadata, CredentialsSaved
<1>3. PairedOK'
  <2> SUFFICES ASSUME NEW n \in Metas, NEW c \in Creds, Paired(n, c)'
               PROVE  /\ ~metadata'[n].nonce
                      /\ grant'[credential'[c]] \in {n, Owner}
    BY DEF PairedOK
  <2>1. Paired(n, c) \/ (n = m /\ c \in W)
    BY NoneAssumption DEF OnlyKnownPairs
  <2>2. CASE c \in W
    <3>1. n = m /\ m # None
      BY <2>1, <2>2, NoneAssumption DEF CredentialsSaved
    <3> QED
      BY <2>2, <3>1 DEF CredentialsSaved
  <2>3. CASE c \notin W
    <3>1. Paired(n, c) /\ credential'[c] = credential[c]
      BY <2>1, <2>3 DEF CredentialsSaved
    <3>2. ~metadata[n].nonce /\ grant[credential[c]] \in {n, Owner}
      BY <3>1 DEF PairedOK
    <3>3. metadata[n] # None /\ credential[c] \in Tokens
      BY <3>1, NoneAssumption DEF ForeignKeys, TypeOK
    <3> QED
      BY <3>1, <3>2, <3>3, NoneAssumption DEF Grows
  <2> QED
    BY <2>2, <2>3
<1> QED
  BY <1>1, <1>2, <1>3

\* A handler that a step leaves alone keeps what it knows.
LEMMA HandlersFrame ==
  ASSUME TypeOK, ForeignKeys, Grows,
         \A g \in Handlers : HandlerOK(g),
         \A g \in Handlers : handler'[g] = handler[g] \/ HandlerOK(g)'
  PROVE  (\A g \in Handlers : HandlerOK(g))'
<1> SUFFICES ASSUME NEW g \in Handlers, handler'[g] = handler[g] PROVE HandlerOK(g)'
  OBVIOUS
<1> DEFINE s == handler[g]
<1>1. handler'[g] = s /\ HandlerOK(g)
  OBVIOUS
<1>2. /\ s.meta \in Metas \cup {None}
      /\ s.refresh \in Tokens \cup {None}
      /\ s.access \in Tokens \cup {None}
      /\ s.rows \in [Accounts -> AccountRow \cup {None}]
  BY HandlerType DEF TypeOK
<1>3. \A a \in Accounts : (s.rows[a] # None /\ s.rows[a].meta # None) =>
        s.rows[a].meta \in Metas /\ metadata[s.rows[a].meta] # None
  <2> SUFFICES ASSUME NEW a \in Accounts, s.rows[a] # None, s.rows[a].meta # None
               PROVE  s.rows[a].meta \in Metas /\ metadata[s.rows[a].meta] # None
    OBVIOUS
  <2>1. s.rows[a] \in AccountRow
    BY <1>2
  <2>2. s.rows[a].meta \in Metas /\ s.rows[a].creds \in Creds \cup {None}
    BY <2>1 DEF AccountRow
  <2>3. Paired(s.rows[a].meta, s.rows[a].creds)
    BY DEF Paired
  <2> QED
    BY <2>2, <2>3 DEF ForeignKeys
<1> QED
  BY <1>1, <1>2, <1>3, NoneAssumption DEF HandlerOK, Grows

\* Where the rows after a step come from: an account row was known, or has no
\* credentials yet; a handler remembers what it did, or a committed row; either
\* may have metadata m and one of the credentials rows W.
RowsFromKnown(m, W) ==
    /\ \A a \in Accounts : Exists(a)' =>
        \/ Paired(account'[a].meta, account'[a].creds)
        \/ /\ account'[a].creds = None
           /\ account'[a].meta # None => metadata'[account'[a].meta] # None
        \/ account'[a].meta = m /\ account'[a].creds \in W
    /\ \A g \in Handlers, a \in Accounts : handler'[g].rows[a] # None =>
        \/ handler'[g].rows[a] = handler[g].rows[a]
        \/ Exists(a) /\ handler'[g].rows[a] = account[a]
        \/ handler'[g].rows[a].meta = m /\ handler'[g].rows[a].creds \in W

LEMMA KnownStep ==
  ASSUME NEW m, NEW W, RowsFromKnown(m, W)
  PROVE  OnlyKnownPairs(m, W)
<1> SUFFICES ASSUME NEW n \in Metas \cup {None}, NEW c \in Creds \cup {None},
                    Paired(n, c)'
             PROVE  \/ Paired(n, c)
                    \/ c = None /\ (n # None => metadata'[n] # None)
                    \/ n = m /\ c \in W
  BY DEF OnlyKnownPairs
<1>1. CASE \E a \in Accounts :
            Exists(a)' /\ account'[a].meta = n /\ account'[a].creds = c
  BY <1>1 DEF RowsFromKnown
<1>2. CASE \E g \in Handlers, a \in Accounts :
            /\ handler'[g].rows[a] # None
            /\ handler'[g].rows[a].meta = n
            /\ handler'[g].rows[a].creds = c
  BY <1>2 DEF RowsFromKnown, Paired
<1> QED
  BY <1>1, <1>2 DEF Paired

\* What is left to show of an action that saves tokens in W for metadata m ...
LEMMA SavingStep ==
  ASSUME IInv, TypeOK', Grows, NEW m \in Metas \cup {None}, NEW W \in SUBSET Creds,
         RowsFromKnown(m, W), CredentialsSaved(m, W),
         \A g \in Handlers : handler'[g] = handler[g] \/ HandlerOK(g)',
         metadata' = metadata \/ RefreshTokensOK'
  PROVE  IInv'
<1>1. ForeignKeys' /\ OneMetadata' /\ PairedOK'
  BY KnownStep, PairsFrame DEF IInv
<1>2. (\A g \in Handlers : HandlerOK(g))'
  BY HandlersFrame DEF IInv
<1>3. RefreshTokensOK'
  <2> SUFFICES ASSUME metadata' = metadata PROVE RefreshTokensOK'
    OBVIOUS
  <2> SUFFICES ASSUME NEW n \in Metas, metadata[n] # None, metadata[n].refresh # None
               PROVE  grant'[metadata[n].refresh] = n
    BY DEF RefreshTokensOK
  <2>1. metadata[n].refresh \in Tokens
    BY DEF IInv, TypeOK, MetaRow
  <2>2. grant[metadata[n].refresh] = n
    BY DEF IInv, RefreshTokensOK
  <2> QED
    BY <2>1, <2>2, NoneAssumption DEF Grows
<1> QED
  BY <1>1, <1>2, <1>3 DEF IInv

\* ... and of an action that saves none.
LEMMA InvariantStep ==
  ASSUME IInv, TypeOK', Grows, RowsFromKnown(None, {}), credential' = credential,
         \A g \in Handlers : handler'[g] = handler[g] \/ HandlerOK(g)',
         metadata' = metadata \/ RefreshTokensOK'
  PROVE  IInv'
<1>1. CredentialsSaved(None, {})
  BY DEF CredentialsSaved
<1> QED
  BY <1>1, SavingStep

\* The facts of IInv about one handler and the rows it remembers.
LEMMA RememberedRow ==
  ASSUME IInv, NEW h \in Handlers, NEW a \in Accounts, handler[h].rows[a] # None
  PROVE  /\ handler[h].rows[a] \in AccountRow
         /\ handler[h].rows[a].meta \in Metas \cup {None}
         /\ handler[h].rows[a].creds \in Creds \cup {None}
         /\ Paired(handler[h].rows[a].meta, handler[h].rows[a].creds)
         /\ handler[h].rows[a].meta # None => metadata[handler[h].rows[a].meta] # None
<1> DEFINE r == handler[h].rows[a]
<1>1. r \in AccountRow
  BY HandlerType DEF IInv, TypeOK
<1>2. r.meta \in Metas \cup {None} /\ r.creds \in Creds \cup {None}
  BY <1>1 DEF AccountRow
<1>3. Paired(r.meta, r.creds)
  BY DEF Paired
<1> QED
  BY <1>1, <1>2, <1>3 DEF IInv, ForeignKeys

LEMMA CommittedRow ==
  ASSUME IInv, NEW a \in Accounts, Exists(a)
  PROVE  /\ account[a].meta \in Metas \cup {None}
         /\ account[a].creds \in Creds \cup {None}
         /\ Paired(account[a].meta, account[a].creds)
         /\ account[a].meta # None => metadata[account[a].meta] # None
<1>1. /\ account[a].meta \in Metas \cup {None}
      /\ account[a].creds \in Creds \cup {None}
  BY DEF Exists, AccountRow
<1>2. Paired(account[a].meta, account[a].creds)
  BY DEF Paired
<1> QED
  BY <1>1, <1>2 DEF IInv, ForeignKeys

\* A handler that ends knows nothing.
LEMMA IdleOK ==
  ASSUME NEW h \in Handlers, handler'[h] = Idle
  PROVE  HandlerOK(h)'
  BY DEF HandlerOK, Idle, NoRows

(***************************************************************************)
(* Every action preserves the inductive invariant: first the actions that  *)
(* save no account row.                                                    *)
(***************************************************************************)

LEMMA InvariantInit == Init => IInv
<1> SUFFICES ASSUME Init PROVE IInv
  OBVIOUS
<1>1. TypeOK
  BY TypeInit
<1>2. \A m, c : ~Paired(m, c)
  BY NoneAssumption DEF Init, Paired, Exists, Idle, NoRows
<1>3. \A h \in Handlers : HandlerOK(h)
  BY DEF Init, HandlerOK, Idle, NoRows
<1>4. RefreshTokensOK
  BY DEF Init, RefreshTokensOK
<1> QED
  BY <1>1, <1>2, <1>3, <1>4 DEF IInv, ForeignKeys, OneMetadata, PairedOK

\* A handler's step that writes nothing to the database and issues no token.
LEMMA HandlerOnlyStep ==
  ASSUME IInv, TypeOK', NEW h \in Handlers,
         UNCHANGED <<account, metadata, credential, grant>>,
         \A g \in Handlers \ {h} : handler'[g] = handler[g],
         \A a \in Accounts : handler'[h].rows[a] # None =>
            \/ handler'[h].rows[a] = handler[h].rows[a]
            \/ Exists(a) /\ handler'[h].rows[a] = account[a],
         HandlerOK(h)'
  PROVE  IInv'
<1>1. Grows
  BY DEF Grows
<1>2. RowsFromKnown(None, {})
  BY CommittedRow DEF RowsFromKnown, Exists
<1> QED
  BY <1>1, <1>2, InvariantStep

\* A handler's step that writes nothing to the database but obtains a token.
LEMMA IssueStep ==
  ASSUME IInv, TypeOK', NEW h \in Handlers, NEW t \in Tokens, NEW m,
         grant[t] = None, grant' = [grant EXCEPT ![t] = m],
         UNCHANGED <<account, metadata, credential>>,
         \A g \in Handlers \ {h} : handler'[g] = handler[g],
         handler'[h].rows = handler[h].rows,
         HandlerOK(h)'
  PROVE  IInv'
<1>1. Grows
  BY DEF Grows, IInv, TypeOK
<1>2. RowsFromKnown(None, {})
  BY CommittedRow DEF RowsFromKnown, Exists
<1> QED
  BY <1>1, <1>2, InvariantStep

LEMMA ReadingStep ==
  ASSUME IInv, TypeOK', NEW h \in Handlers, NEW a \in Accounts,
         NEW p \in {"patching", "loaded", "merging"}, Exists(a), Reading(h, p, a),
         UNCHANGED <<account, metadata, credential, grant, live>>
  PROVE  IInv'
<1> DEFINE s == [Idle EXCEPT !.phase = p, !.rows[a] = account[a]]
<1>1. /\ handler' = [handler EXCEPT ![h] = s]
      /\ handler'[h] = s
  BY DEF Reading, IInv, TypeOK
<1>2. /\ s.phase = p
      /\ s.refresh = None /\ s.access = None
      /\ s.rows = [NoRows EXCEPT ![a] = account[a]]
  BY DEF Idle
<1>3. \A b \in Accounts : s.rows[b] # None => b = a /\ s.rows[b] = account[b]
  BY <1>2 DEF NoRows
<1> HIDE DEF s
<1>4. HandlerOK(h)'
  BY <1>1, <1>2, <1>3 DEF HandlerOK
<1> QED
  BY <1>1, <1>3, <1>4, HandlerOnlyStep

LEMMA PatchCredentialsStep ==
  ASSUME IInv, TypeOK', NEW h \in Handlers, PatchCredentials(h)
  PROVE  IInv'
<1>1. PICK t \in Tokens :
        /\ grant[t] = None
        /\ grant' = [grant EXCEPT ![t] = Owner]
        /\ handler' = [handler EXCEPT ![h] = [handler[h] EXCEPT !.access = t]]
  BY DEF PatchCredentials
<1>2. /\ handler[h] \in HandlerState
      /\ handler[h].phase = "patching"
      /\ handler[h].refresh \in Tokens \cup {None}
      /\ HandlerOK(h)
  BY HandlerType DEF PatchCredentials, IInv, TypeOK
<1>3. /\ handler'[h].phase = "patching"
      /\ handler'[h].meta = handler[h].meta
      /\ handler'[h].refresh = handler[h].refresh
      /\ handler'[h].access = t
      /\ handler'[h].rows = handler[h].rows
      /\ \A g \in Handlers \ {h} : handler'[g] = handler[g]
  BY <1>1, <1>2 DEF HandlerState, IInv, TypeOK
<1>4. /\ grant'[t] = Owner
      /\ \A u \in Tokens \ {t} : grant'[u] = grant[u]
  BY <1>1 DEF IInv, TypeOK
<1>5. HandlerOK(h)'
  BY <1>1, <1>2, <1>3, <1>4, NoneAssumption DEF HandlerOK
<1> QED
  BY <1>1, <1>3, <1>5, IssueStep DEF PatchCredentials

LEMMA PatchValidateStep ==
  ASSUME IInv, TypeOK', NEW h \in Handlers, NEW a \in Accounts, PatchValidate(h, a)
  PROVE  IInv'
<1> DEFINE s == handler[h]
<1>1. /\ s \in HandlerState /\ s.phase = "patching" /\ s.rows[a] # None
      /\ HandlerOK(h)
      /\ ValidOAuthState(s.rows[a], s.rows[a].creds # None \/ s.access # None)
      /\ handler' = [handler EXCEPT ![h] = [s EXCEPT !.phase = "patched"]]
  BY HandlerType DEF PatchValidate, IInv, TypeOK
<1>2. /\ handler'[h].phase = "patched"
      /\ handler'[h].meta = s.meta
      /\ handler'[h].refresh = s.refresh
      /\ handler'[h].access = s.access
      /\ handler'[h].rows = s.rows
      /\ \A g \in Handlers \ {h} : handler'[g] = handler[g]
  BY <1>1 DEF HandlerState, IInv, TypeOK
<1>3. (s.access # None /\ s.rows[a].meta # None) => ~metadata[s.rows[a].meta].nonce
  <2> SUFFICES ASSUME s.access # None, s.rows[a].meta # None
               PROVE  ~metadata[s.rows[a].meta].nonce
    OBVIOUS
  <2>1. TRUE # metadata[s.rows[a].meta].nonce
    BY <1>1 DEF ValidOAuthState
  <2>2. metadata[s.rows[a].meta].nonce \in BOOLEAN
    BY <1>1, RememberedRow DEF IInv, TypeOK, MetaRow
  <2> QED
    BY <2>1, <2>2
<1>4. UNCHANGED <<account, metadata, credential, grant>>
  BY DEF PatchValidate
<1>5. HandlerOK(h)'
  BY <1>1, <1>2, <1>3, <1>4 DEF HandlerOK
<1> QED
  BY <1>2, <1>4, <1>5, HandlerOnlyStep

LEMMA ResolveStateTokenStep ==
  ASSUME IInv, TypeOK', NEW h \in Handlers, NEW m \in Metas, ResolveStateToken(h, m)
  PROVE  IInv'
<1> DEFINE s == [Idle EXCEPT !.phase = "resolved", !.callback = TRUE,
                             !.meta = m, !.refresh = metadata[m].refresh]
<1>1. /\ handler'[h] = s
      /\ \A g \in Handlers \ {h} : handler'[g] = handler[g]
      /\ metadata[m] # None
      /\ UNCHANGED <<account, metadata, credential, grant>>
  BY DEF ResolveStateToken, IInv, TypeOK
<1>2. /\ s.phase = "resolved" /\ s.meta = m /\ s.access = None
      /\ s.refresh = metadata[m].refresh
      /\ s.rows = NoRows
  BY DEF Idle
<1>3. metadata[m].refresh # None => grant[metadata[m].refresh] = m
  BY <1>1 DEF IInv, RefreshTokensOK
<1>4. HandlerOK(h)'
  BY <1>1, <1>2, <1>3, NoneAssumption DEF HandlerOK, NoRows
<1>5. \A a \in Accounts : handler'[h].rows[a] = None
  BY <1>1, <1>2 DEF NoRows
<1> QED
  BY <1>1, <1>4, <1>5, HandlerOnlyStep

LEMMA GetInitialAccessTokenStep ==
  ASSUME IInv, TypeOK', NEW h \in Handlers, GetInitialAccessToken(h)
  PROVE  IInv'
<1> DEFINE s == handler[h]
<1>1. PICK t \in Tokens : \E r \in {t, s.refresh} :
        /\ grant[t] = None
        /\ grant' = [grant EXCEPT ![t] = s.meta]
        /\ handler' = [handler EXCEPT ![h] =
              [s EXCEPT !.phase = "received", !.access = t, !.refresh = r]]
  BY DEF GetInitialAccessToken
<1>2. PICK r \in {t, s.refresh} :
        handler' = [handler EXCEPT ![h] =
              [s EXCEPT !.phase = "received", !.access = t, !.refresh = r]]
  BY <1>1
<1>3. /\ s \in HandlerState /\ HandlerOK(h) /\ s.phase = "resolved"
      /\ s.refresh \in Tokens \cup {None}
      /\ UNCHANGED <<account, metadata, credential>>
  BY HandlerType DEF GetInitialAccessToken, IInv, TypeOK
<1>4. /\ handler'[h].phase = "received"
      /\ handler'[h].meta = s.meta
      /\ handler'[h].access = t
      /\ handler'[h].refresh = r
      /\ handler'[h].rows = s.rows
      /\ \A g \in Handlers \ {h} : handler'[g] = handler[g]
  BY <1>2, <1>3 DEF HandlerState, IInv, TypeOK
<1>5. /\ grant'[t] = s.meta
      /\ \A u \in Tokens \ {t} : grant'[u] = grant[u]
  BY <1>1 DEF IInv, TypeOK
<1>6. HandlerOK(h)'
  BY <1>1, <1>3, <1>4, <1>5, NoneAssumption DEF HandlerOK
<1> QED
  BY <1>1, <1>3, <1>4, <1>6, IssueStep

LEMMA RefreshLoadMetadataStep ==
  ASSUME IInv, TypeOK', NEW h \in Handlers, NEW a \in Accounts, RefreshLoadMetadata(h, a)
  PROVE  IInv'
<1> DEFINE m == handler[h].rows[a].meta
           s == [Idle EXCEPT !.phase = "requesting", !.meta = m,
                             !.refresh = metadata[m].refresh]
<1>1. /\ m \in Metas /\ metadata[m] # None
      /\ handler'[h] = s
      /\ \A g \in Handlers \ {h} : handler'[g] = handler[g]
      /\ metadata[m].refresh # None
      /\ UNCHANGED <<account, metadata, credential, grant>>
  BY RememberedRow DEF RefreshLoadMetadata, IInv, TypeOK
<1>2. /\ s.phase = "requesting" /\ s.meta = m /\ s.access = None
      /\ s.refresh = metadata[m].refresh
      /\ s.rows = NoRows
  BY DEF Idle
<1>3. grant[metadata[m].refresh] = m
  BY <1>1 DEF IInv, RefreshTokensOK
<1> HIDE DEF m, s
<1>4. HandlerOK(h)'
  BY <1>1, <1>2, <1>3, NoneAssumption DEF HandlerOK, NoRows
<1>5. \A b \in Accounts : handler'[h].rows[b] = None
  BY <1>1, <1>2 DEF NoRows
<1> QED
  BY <1>1, <1>4, <1>5, HandlerOnlyStep

LEMMA GetRefreshedAccessTokenStep ==
  ASSUME IInv, TypeOK', NEW h \in Handlers, GetRefreshedAccessToken(h)
  PROVE  IInv'
<1> DEFINE s == handler[h]
<1>1. PICK t \in Tokens :
        /\ grant[t] = None
        /\ grant' = [grant EXCEPT ![t] = grant[s.refresh]]
        /\ handler' = [handler EXCEPT ![h] =
              [s EXCEPT !.phase = "received", !.access = t,
                        !.refresh = IF Rotating THEN t ELSE s.refresh]]
  BY DEF GetRefreshedAccessToken
<1>2. /\ s \in HandlerState /\ HandlerOK(h) /\ s.phase = "requesting"
      /\ s.refresh \in Tokens
      /\ UNCHANGED <<account, metadata, credential>>
  BY HandlerType DEF GetRefreshedAccessToken, IInv, TypeOK
<1>3. /\ handler'[h].phase = "received"
      /\ handler'[h].meta = s.meta
      /\ handler'[h].access = t
      /\ handler'[h].refresh \in {t, s.refresh}
      /\ handler'[h].rows = s.rows
      /\ \A g \in Handlers \ {h} : handler'[g] = handler[g]
  BY <1>1, <1>2 DEF HandlerState, IInv, TypeOK
<1>4. /\ grant'[t] = grant[s.refresh]
      /\ \A u \in Tokens \ {t} : grant'[u] = grant[u]
  BY <1>1 DEF IInv, TypeOK
<1>5. grant[s.refresh] = s.meta /\ s.meta \in Metas
  BY <1>2, NoneAssumption DEF HandlerOK
<1>6. HandlerOK(h)'
  BY <1>1, <1>2, <1>3, <1>4, <1>5, NoneAssumption DEF HandlerOK
<1> QED
  BY <1>1, <1>2, <1>3, <1>6, IssueStep

LEMMA ValidateTokenUpdateStep ==
  ASSUME IInv, TypeOK', NEW h \in Handlers, ValidateTokenUpdate(h)
  PROVE  IInv'
<1> DEFINE s == handler[h]
<1>1. /\ s \in HandlerState /\ s.phase = "received" /\ HandlerOK(h)
      /\ handler' = [handler EXCEPT ![h] = [s EXCEPT !.phase = "validated"]]
      /\ UNCHANGED <<account, metadata, credential, grant>>
  BY HandlerType DEF ValidateTokenUpdate, IInv, TypeOK
<1>2. /\ handler'[h].phase = "validated"
      /\ handler'[h].meta = s.meta
      /\ handler'[h].refresh = s.refresh
      /\ handler'[h].access = s.access
      /\ handler'[h].rows = s.rows
      /\ \A g \in Handlers \ {h} : handler'[g] = handler[g]
  BY <1>1 DEF HandlerState, IInv, TypeOK
<1>3. HandlerOK(h)'
  BY <1>1, <1>2 DEF HandlerOK
<1> QED
  BY <1>1, <1>2, <1>3, HandlerOnlyStep

LEMMA BeginTokenUpdateStep ==
  ASSUME IInv, TypeOK', NEW h \in Handlers, BeginTokenUpdate(h)
  PROVE  IInv'
<1> DEFINE s == handler[h]
           rows == [a \in Accounts |->
                IF a \in LinkedAccounts(s.meta) THEN account[a] ELSE None]
<1>1. /\ s \in HandlerState /\ s.phase = "validated" /\ HandlerOK(h)
      /\ handler' = [handler EXCEPT ![h] =
                [s EXCEPT !.phase = "updating", !.rows = rows]]
      /\ UNCHANGED <<account, metadata, credential, grant>>
  BY HandlerType DEF BeginTokenUpdate, IInv, TypeOK
<1>2. /\ handler'[h].phase = "updating"
      /\ handler'[h].meta = s.meta
      /\ handler'[h].refresh = s.refresh
      /\ handler'[h].access = s.access
      /\ handler'[h].rows = rows
      /\ \A g \in Handlers \ {h} : handler'[g] = handler[g]
  BY <1>1 DEF HandlerState, IInv, TypeOK
<1>3. \A a \in Accounts : rows[a] # None =>
        Exists(a) /\ rows[a] = account[a] /\ rows[a].meta = s.meta
  BY DEF LinkedAccounts
<1> HIDE DEF rows
<1>4. HandlerOK(h)'
  BY <1>1, <1>2, <1>3 DEF HandlerOK
<1> QED
  BY <1>1, <1>2, <1>3, <1>4, HandlerOnlyStep

LEMMA AbandonStep ==
  ASSUME IInv, TypeOK', NEW h \in Handlers, Abandon(h)
  PROVE  IInv'
<1>1. /\ handler'[h] = Idle
      /\ \A g \in Handlers \ {h} : handler'[g] = handler[g]
      /\ UNCHANGED <<account, metadata, credential, grant>>
  BY DEF Abandon, IInv, TypeOK
<1>2. HandlerOK(h)'
  BY <1>1, IdleOK
<1>3. \A a \in Accounts : handler'[h].rows[a] = None
  BY <1>1 DEF Idle, NoRows
<1> QED
  BY <1>1, <1>2, <1>3, HandlerOnlyStep

(***************************************************************************)
(* The actions that save account rows.                                     *)
(***************************************************************************)

\* Saving rows whose pair is known, by handlers that end or drop rows.
LEMMA SaveStep ==
  ASSUME IInv, TypeOK', NEW h \in Handlers,
         UNCHANGED <<metadata, credential, grant>>,
         \A g \in Handlers \ {h} : handler'[g] = handler[g],
         handler'[h] = Idle,
         \A a \in Accounts : Exists(a)' =>
            Paired(account'[a].meta, account'[a].creds)
  PROVE  IInv'
<1>1. Grows
  BY DEF Grows
<1>2. \A a \in Accounts : handler'[h].rows[a] = None
  BY DEF Idle, NoRows
<1>3. RowsFromKnown(None, {})
  BY <1>2 DEF RowsFromKnown
<1>4. HandlerOK(h)'
  BY IdleOK
<1> QED
  BY <1>1, <1>3, <1>4, InvariantStep

\* initiate_oauth2_flow, on its own or after a PATCH: the new pair has no
\* credentials, and its metadata row is new.
LEMMA InitiateFrame ==
  ASSUME IInv, NEW a \in Accounts, NEW row, InitiateOAuth2Flow(a, row),
         row \in AccountRow, grant' = grant
  PROVE  /\ Grows
         /\ RefreshTokensOK'
         /\ \A b \in Accounts : Exists(b)' =>
                \/ Paired(account'[b].meta, account'[b].creds)
                \/ /\ account'[b].creds = None
                   /\ account'[b].meta # None => metadata'[account'[b].meta] # None
<1>1. PICK m \in Metas :
        /\ metadata[m] = None
        /\ metadata' = [metadata EXCEPT ![m] =
                [nonce |-> TRUE, refresh |-> None]]
        /\ account' = [account EXCEPT ![a] =
                [row EXCEPT !.meta = m, !.creds = None]]
  BY DEF InitiateOAuth2Flow
<1> DEFINE new == [nonce |-> TRUE, refresh |-> None]
<1>2. /\ metadata'[m] = new
      /\ \A n \in Metas \ {m} : metadata'[n] = metadata[n]
      /\ new.refresh = None
  BY <1>1 DEF IInv, TypeOK
<1>3. new # None
  <2>1. new \in MetaRow
    BY DEF MetaRow
  <2> QED
    BY <2>1, NoneAssumption
<1>4. [row EXCEPT !.meta = m, !.creds = None].meta = m
      /\ [row EXCEPT !.meta = m, !.creds = None].creds = None
  BY DEF AccountRow
<1>5. /\ account'[a].meta = m /\ account'[a].creds = None
      /\ \A b \in Accounts \ {a} : account'[b] = account[b]
  BY <1>1, <1>4 DEF IInv, TypeOK
<1>6. Grows
  BY <1>1, <1>2 DEF Grows
<1>7. RefreshTokensOK'
  BY <1>2 DEF RefreshTokensOK, IInv
<1>8. ASSUME NEW b \in Accounts, Exists(b)'
      PROVE  \/ Paired(account'[b].meta, account'[b].creds)
             \/ /\ account'[b].creds = None
                /\ account'[b].meta # None => metadata'[account'[b].meta] # None
  <2>1. CASE b = a
    BY <1>2, <1>3, <1>5, <2>1
  <2>2. CASE b # a
    BY <1>5, <1>8, <2>2, CommittedRow DEF Exists
  <2> QED
    BY <2>1, <2>2
<1> QED
  BY <1>6, <1>7, <1>8

LEMMA CreateAccountStep ==
  ASSUME IInv, TypeOK', NEW a \in Accounts, CreateAccount(a)
  PROVE  IInv'
<1>1. /\ account' = [account EXCEPT ![a] = NewRow]
      /\ UNCHANGED <<metadata, credential, grant, handler>>
  BY DEF CreateAccount
<1>2. Grows
  BY <1>1 DEF Grows
<1>3. \A b \in Accounts : Exists(b)' =>
        \/ account'[b] = account[b] /\ Exists(b)
        \/ account'[b].meta = None /\ account'[b].creds = None
  BY <1>1 DEF Exists, NewRow, IInv, TypeOK
<1>4. RowsFromKnown(None, {})
  BY <1>1, <1>3, CommittedRow DEF RowsFromKnown
<1> QED
  BY <1>1, <1>2, <1>4, InvariantStep

LEMMA CreateAccountWithOAuthStep ==
  ASSUME IInv, TypeOK', NEW a \in Accounts, CreateAccountWithOAuth(a)
  PROVE  IInv'
<1>1. /\ InitiateOAuth2Flow(a, NewRow)
      /\ UNCHANGED <<credential, grant, handler>>
  BY DEF CreateAccountWithOAuth
<1>2. NewRow \in AccountRow
  BY DEF NewRow, AccountRow
<1>3. Grows /\ RefreshTokensOK' /\ RowsFromKnown(None, {})
  BY <1>1, <1>2, InitiateFrame DEF RowsFromKnown
<1> QED
  BY <1>1, <1>3, InvariantStep

LEMMA DeleteAccountStep ==
  ASSUME IInv, TypeOK', NEW a \in Accounts, DeleteAccount(a)
  PROVE  IInv'
<1>1. /\ account' = [account EXCEPT ![a] = Deleted]
      /\ UNCHANGED <<metadata, credential, grant, handler>>
  BY DEF DeleteAccount
<1>2. Grows
  BY <1>1 DEF Grows
<1>3. \A b \in Accounts : Exists(b)' => account'[b] = account[b] /\ Exists(b)
  BY <1>1, NoneAssumption DEF Exists, IInv, TypeOK
<1>4. RowsFromKnown(None, {})
  BY <1>1, <1>3, CommittedRow DEF RowsFromKnown
<1> QED
  BY <1>1, <1>2, <1>4, InvariantStep

LEMMA PostAuthHookStep ==
  ASSUME IInv, TypeOK', NEW h \in Handlers, NEW a \in Accounts, PostAuthHook(h, a)
  PROVE  IInv'
<1> DEFINE s == handler[h]
           r == s.rows[a]
           rest == [s.rows EXCEPT ![a] = None]
           next == IF rest = NoRows THEN Idle ELSE [s EXCEPT !.rows = rest]
<1>1. /\ s \in HandlerState /\ s.phase = "hooking" /\ HandlerOK(h)
      /\ r # None
      /\ account' = [account EXCEPT ![a] = [r EXCEPT !.ext = TRUE]]
      /\ handler' = [handler EXCEPT ![h] = next]
      /\ UNCHANGED <<metadata, credential, grant>>
  BY HandlerType DEF PostAuthHook, IInv, TypeOK
<1>2. r \in AccountRow /\ Paired(r.meta, r.creds)
  BY <1>1, RememberedRow
<1>3. /\ [r EXCEPT !.ext = TRUE].meta = r.meta
      /\ [r EXCEPT !.ext = TRUE].creds = r.creds
  BY <1>2 DEF AccountRow
<1>4. /\ account'[a].meta = r.meta /\ account'[a].creds = r.creds
      /\ \A b \in Accounts \ {a} : account'[b] = account[b]
      /\ handler'[h] = next
      /\ \A g \in Handlers \ {h} : handler'[g] = handler[g]
  BY <1>1, <1>3 DEF IInv, TypeOK
<1>5. \A b \in Accounts : rest[b] # None => rest[b] = s.rows[b]
  BY <1>1 DEF HandlerState
<1>6. /\ HandlerOK(h)'
      /\ \A b \in Accounts : next.rows[b] # None => next.rows[b] = s.rows[b]
  <2>1. CASE rest = NoRows
    BY <1>4, <2>1, IdleOK DEF Idle, NoRows
  <2>2. CASE rest # NoRows
    <3>1. /\ next.phase = "hooking" /\ next.meta = s.meta
          /\ next.refresh = s.refresh /\ next.access = s.access
          /\ next.rows = rest
      BY <1>1, <2>2 DEF HandlerState
    <3> HIDE DEF next, rest
    <3> QED
      BY <1>1, <1>4, <1>5, <3>1 DEF HandlerOK
  <2> QED
    BY <2>1, <2>2
<1> HIDE DEF next
<1>7. RowsFromKnown(None, {})
  <2>1. \A b \in Accounts : Exists(b)' => Paired(account'[b].meta, account'[b].creds)
    BY <1>2, <1>4, CommittedRow DEF Exists
  <2>2. \A g \in Handlers, b \in Accounts : handler'[g].rows[b] # None =>
            handler'[g].rows[b] = handler[g].rows[b]
    BY <1>4, <1>6
  <2> QED
    BY <2>1, <2>2 DEF RowsFromKnown
<1>8. Grows
  BY <1>1 DEF Grows
<1> QED
  BY <1>1, <1>4, <1>6, <1>7, <1>8, InvariantStep

LEMMA MergeUpdateStep ==
  ASSUME IInv, TypeOK', NEW h \in Handlers, NEW a \in Accounts,
         NEW same \in SUBSET Accounts, MergeUpdate(h, a, same)
  PROVE  IInv'
<1> DEFINE r == handler[h].rows[a]
           new(b) == [account[b] EXCEPT !.meta = r.meta, !.creds = r.creds]
<1>1. /\ r # None
      /\ \A b \in same : Exists(b)
      /\ account' = [b \in Accounts |-> IF b \in same THEN new(b) ELSE account[b]]
      /\ handler'[h] = Idle
      /\ \A g \in Handlers \ {h} : handler'[g] = handler[g]
      /\ UNCHANGED <<metadata, credential, grant>>
  BY DEF MergeUpdate, IInv, TypeOK
<1>2. Paired(r.meta, r.creds)
  BY <1>1, RememberedRow
<1>3. \A b \in same : new(b).meta = r.meta /\ new(b).creds = r.creds
  BY <1>1 DEF Exists, AccountRow
<1>4. \A b \in Accounts : Exists(b)' => Paired(account'[b].meta, account'[b].creds)
  <2> SUFFICES ASSUME NEW b \in Accounts, Exists(b)'
               PROVE  Paired(account'[b].meta, account'[b].creds)
    OBVIOUS
  <2> HIDE DEF new, r
  <2>1. CASE b \in same
    BY <1>1, <1>2, <1>3, <2>1
  <2>2. CASE b \notin same
    BY <1>1, <2>2, CommittedRow DEF Exists
  <2> QED
    BY <2>1, <2>2
<1> QED
  BY <1>1, <1>4, SaveStep

\* The account row a PATCH saves, and the credentials it saves with it.
LEMMA PatchedRowFrame ==
  ASSUME IInv, NEW h \in Handlers, NEW a \in Accounts, NEW row \in AccountRow,
         handler[h].phase = "patched", handler[h].rows[a] # None,
         PatchedRow(h, a, row), Grows, grant' = grant
  PROVE  \E W \in SUBSET Creds :
            /\ CredentialsSaved(IF W = {} THEN None ELSE row.meta, W)
            /\ W = {} => Paired(row.meta, row.creds)
            /\ W # {} => row.creds \in W
            /\ row.meta \in Metas \cup {None}
<1> DEFINE read == handler[h].rows[a]
           t == handler[h].access
<1>1. /\ read \in AccountRow /\ Paired(read.meta, read.creds)
      /\ read.meta \in Metas \cup {None} /\ read.creds \in Creds \cup {None}
      /\ read.meta # None => metadata[read.meta] # None
      /\ t \in Tokens \cup {None}
      /\ HandlerOK(h)
  BY RememberedRow, HandlerType DEF IInv, TypeOK
<1>2. row.meta \in Metas \cup {None} /\ row.creds \in Creds \cup {None}
  BY DEF AccountRow
<1>3. CASE t = None
  <2>1. row = read /\ credential' = credential
    BY <1>3 DEF PatchedRow
  <2>2. CredentialsSaved(None, {})
    BY <2>1 DEF CredentialsSaved
  <2> WITNESS {} \in SUBSET Creds
  <2> QED
    BY <1>1, <2>1, <2>2
<1>4. CASE t # None
  <2>1. /\ row.meta = read.meta
        /\ row.creds \in Creds
        /\ read.creds # None => row.creds = read.creds
        /\ read.creds = None => credential[row.creds] = None
        /\ credential' = [credential EXCEPT ![row.creds] = t]
    <3>1. /\ row = [read EXCEPT !.creds = row.creds, !.ext = TRUE]
          /\ row.creds # None
          /\ IF read.creds # None THEN row.creds = read.creds
                                  ELSE credential[row.creds] = None
          /\ credential' = [credential EXCEPT ![row.creds] = t]
      BY <1>4 DEF PatchedRow
    <3>2. [read EXCEPT !.creds = row.creds, !.ext = TRUE].meta = read.meta
      BY <1>1 DEF AccountRow
    <3>3. row.meta = read.meta
      BY <3>1, <3>2
    <3> QED
      BY <1>2, <3>1, <3>3
  <2>2. grant[t] = Owner
    BY <1>1, <1>4 DEF HandlerOK
  <2>3. read.meta # None => metadata'[read.meta] # None /\ ~metadata'[read.meta].nonce
    BY <1>1, <1>4, NoneAssumption DEF HandlerOK, Grows
  <2>4. \A n \in Metas \cup {None} : Paired(n, row.creds) => n = read.meta
    <3> SUFFICES ASSUME NEW n \in Metas \cup {None}, Paired(n, row.creds)
                 PROVE  n = read.meta
      OBVIOUS
    <3>1. credential[row.creds] # None
      BY <2>1, NoneAssumption DEF IInv, ForeignKeys
    <3> QED
      BY <1>1, <2>1, <3>1 DEF IInv, OneMetadata
  <2>5. /\ credential'[row.creds] = t
        /\ \A c \in Creds \ {row.creds} : credential'[c] = credential[c]
    BY <2>1 DEF IInv, TypeOK
  <2>6. CredentialsSaved(row.meta, {row.creds})
    BY <1>4, <2>1, <2>2, <2>3, <2>4, <2>5 DEF CredentialsSaved
  <2> DEFINE W == {row.creds}
  <2>7. W \in SUBSET Creds /\ W # {} /\ row.creds \in W
    BY <2>1
  <2> QED
    BY <1>2, <2>6, <2>7
<1> QED
  BY <1>3, <1>4

LEMMA PatchSaveStep ==
  ASSUME IInv, TypeOK', NEW h \in Handlers, NEW a \in Accounts, PatchSave(h, a)
  PROVE  IInv'
<1>1. PICK row \in AccountRow :
        PatchedRow(h, a, row) /\ account' = [account EXCEPT ![a] = row]
  BY DEF PatchSave
<1>2. /\ handler[h].phase = "patched" /\ handler[h].rows[a] # None
      /\ handler'[h] = Idle
      /\ \A g \in Handlers \ {h} : handler'[g] = handler[g]
      /\ UNCHANGED <<metadata, grant>>
  BY DEF PatchSave, IInv, TypeOK
<1>3. Grows
  BY <1>2 DEF Grows
<1>4. PICK W \in SUBSET Creds :
            /\ CredentialsSaved(IF W = {} THEN None ELSE row.meta, W)
            /\ W = {} => Paired(row.meta, row.creds)
            /\ W # {} => row.creds \in W
            /\ row.meta \in Metas \cup {None}
  BY <1>1, <1>2, <1>3, PatchedRowFrame
<1> DEFINE m == IF W = {} THEN None ELSE row.meta
<1>5. /\ account'[a] = row
      /\ \A b \in Accounts \ {a} : account'[b] = account[b]
  BY <1>1 DEF IInv, TypeOK
<1>6. \A b \in Accounts : handler'[h].rows[b] = None
  BY <1>2 DEF Idle, NoRows
<1>7. RowsFromKnown(m, W)
  <2>1. \A b \in Accounts : Exists(b)' =>
          \/ Paired(account'[b].meta, account'[b].creds)
          \/ account'[b].meta = m /\ account'[b].creds \in W
    BY <1>4, <1>5, CommittedRow DEF Exists
  <2> QED
    BY <1>2, <1>6, <2>1 DEF RowsFromKnown
<1>8. HandlerOK(h)'
  BY <1>2, IdleOK
<1>9. m \in Metas \cup {None}
  BY <1>4
<1> QED
  BY <1>2, <1>3, <1>4, <1>7, <1>8, <1>9, SavingStep

LEMMA PatchInitiateStep ==
  ASSUME IInv, TypeOK', NEW h \in Handlers, NEW a \in Accounts, PatchInitiate(h, a)
  PROVE  IInv'
<1>1. PICK row \in AccountRow : PatchedRow(h, a, row) /\ InitiateOAuth2Flow(a, row)
  BY DEF PatchInitiate
<1>2. /\ handler[h].phase = "patched" /\ handler[h].rows[a] # None
      /\ handler'[h] = Idle
      /\ \A g \in Handlers \ {h} : handler'[g] = handler[g]
      /\ grant' = grant
  BY DEF PatchInitiate, IInv, TypeOK
<1>3. /\ Grows
      /\ RefreshTokensOK'
      /\ \A b \in Accounts : Exists(b)' =>
            \/ Paired(account'[b].meta, account'[b].creds)
            \/ /\ account'[b].creds = None
               /\ account'[b].meta # None => metadata'[account'[b].meta] # None
  BY <1>1, <1>2, InitiateFrame
<1>4. PICK W \in SUBSET Creds :
            /\ CredentialsSaved(IF W = {} THEN None ELSE row.meta, W)
            /\ row.meta \in Metas \cup {None}
  BY <1>1, <1>2, <1>3, PatchedRowFrame
<1> DEFINE m == IF W = {} THEN None ELSE row.meta
<1>5. \A b \in Accounts : handler'[h].rows[b] = None
  BY <1>2 DEF Idle, NoRows
<1>6. RowsFromKnown(m, W)
  BY <1>2, <1>3, <1>5 DEF RowsFromKnown
<1>7. HandlerOK(h)'
  BY <1>2, IdleOK
<1>8. m \in Metas \cup {None}
  BY <1>4
<1> QED
  BY <1>2, <1>3, <1>4, <1>6, <1>7, <1>8, SavingStep

LEMMA CommitTokenUpdateStep ==
  ASSUME IInv, TypeOK', NEW h \in Handlers, CommitTokenUpdate(h)
  PROVE  IInv'
<1> DEFINE s == handler[h]
           m == s.meta
           read == s.rows
           saved(c) == [a \in Accounts |->
                IF read[a] = None THEN None ELSE [read[a] EXCEPT !.creds = c[a]]]
           next(c) == IF s.callback /\ saved(c) # NoRows
                      THEN [Idle EXCEPT !.phase = "hooking", !.rows = saved(c)]
                      ELSE Idle
           new == [nonce |-> FALSE, refresh |-> s.refresh]
<1>1. PICK c \in [Accounts -> Creds \cup {None}] :
        /\ CredsFor(read, c)
        /\ metadata' = [metadata EXCEPT ![m] = new]
        /\ credential' = [k \in Creds |->
              IF \E a \in Accounts : c[a] = k THEN s.access ELSE credential[k]]
        /\ account' = [a \in Accounts |->
              IF saved(c)[a] = None THEN account[a] ELSE saved(c)[a]]
        /\ handler' = [handler EXCEPT ![h] = next(c)]
  BY DEF CommitTokenUpdate
<1>2. /\ s.phase = "updating" /\ HandlerOK(h)
      /\ grant' = grant
      /\ s.refresh \in Tokens \cup {None} /\ s.access \in Tokens \cup {None}
      /\ read \in [Accounts -> AccountRow \cup {None}]
  BY HandlerType DEF CommitTokenUpdate, IInv, TypeOK
<1>3. /\ m \in Metas /\ metadata[m] # None
      /\ s.access # None /\ grant[s.access] = m
      /\ s.refresh # None => grant[s.refresh] = m
      /\ \A a \in Accounts : read[a] # None => read[a].meta = m
  BY <1>2 DEF HandlerOK
<1>4. /\ \A a \in Accounts : read[a] = None => c[a] = None
      /\ \A a \in Accounts : read[a] # None =>
            /\ c[a] \in Creds
            /\ read[a].creds # None => c[a] = read[a].creds
            /\ read[a].creds = None => credential[c[a]] = None
  <2> SUFFICES ASSUME NEW a \in Accounts
               PROVE  /\ read[a] = None => c[a] = None
                      /\ read[a] # None =>
                            /\ c[a] \in Creds
                            /\ read[a].creds # None => c[a] = read[a].creds
                            /\ read[a].creds = None => credential[c[a]] = None
    OBVIOUS
  <2>1. IF read[a] = None THEN c[a] = None
        ELSE IF read[a].creds # None THEN c[a] = read[a].creds
        ELSE c[a] # None /\ credential[c[a]] = None
    BY <1>1 DEF CredsFor
  <2> HIDE DEF read
  <2> QED
    BY <2>1
<1> DEFINE W == {k \in Creds : \E a \in Accounts : read[a] # None /\ c[a] = k}
<1>5. \A a \in Accounts : saved(c)[a] # None =>
        /\ read[a] # None
        /\ saved(c)[a].meta = m
        /\ saved(c)[a].creds \in W
  <2> SUFFICES ASSUME NEW a \in Accounts, saved(c)[a] # None
               PROVE  /\ read[a] # None
                      /\ saved(c)[a].meta = m
                      /\ saved(c)[a].creds \in W
    OBVIOUS
  <2>1. read[a] # None /\ saved(c)[a] = [read[a] EXCEPT !.creds = c[a]]
    OBVIOUS
  <2>2. read[a] \in AccountRow
    BY <1>2, <2>1
  <2>3. saved(c)[a].meta = read[a].meta /\ saved(c)[a].creds = c[a]
    BY <2>1, <2>2 DEF AccountRow
  <2> HIDE DEF saved, read
  <2> QED
    BY <1>3, <1>4, <2>1, <2>3
<1> HIDE DEF saved, read
<1>6. /\ metadata'[m] = new
      /\ \A n \in Metas \ {m} : metadata'[n] = metadata[n]
      /\ new \in MetaRow /\ new.nonce = FALSE /\ new.refresh = s.refresh
  BY <1>1, <1>2, <1>3 DEF MetaRow, IInv, TypeOK
<1>7. new # None
  BY <1>6, NoneAssumption
<1>8. Grows
  BY <1>2, <1>6, <1>7 DEF Grows
<1>9. CredentialsSaved(m, W)
  <2>1. ASSUME NEW k \in Creds \ W PROVE credential'[k] = credential[k]
    <3>1. ~ \E a \in Accounts : c[a] = k
      BY <1>4, NoneAssumption
    <3> QED
      BY <1>1, <3>1
  <2>2. ASSUME NEW k \in W
        PROVE  /\ credential'[k] = s.access
               /\ \A n \in Metas \cup {None} : Paired(n, k) => n = m
    <3>1. PICK a \in Accounts : read[a] # None /\ c[a] = k
      OBVIOUS
    <3>2. credential'[k] = s.access
      BY <1>1, <3>1
    <3>3. ASSUME NEW n \in Metas \cup {None}, Paired(n, k) PROVE n = m
      <4>1. credential[k] # None
        BY <3>3, NoneAssumption DEF IInv, ForeignKeys
      <4>2. read[a].creds = k /\ read[a].meta = m
        BY <1>3, <1>4, <3>1, <4>1
      <4>3. Paired(m, k)
        BY <3>1, <4>2 DEF Paired, read
      <4> QED
        BY <1>3, <3>3, <4>3 DEF IInv, OneMetadata
    <3> QED
      BY <3>2, <3>3
  <2>3. metadata'[m] # None /\ ~metadata'[m].nonce
    BY <1>6, <1>7
  <2> HIDE DEF W
  <2> QED
    BY <1>2, <1>3, <2>1, <2>2, <2>3 DEF CredentialsSaved
<1>10. /\ HandlerOK(h)'
       /\ \A a \in Accounts : next(c).rows[a] # None => next(c).rows[a] = saved(c)[a]
  <2>1. handler'[h] = next(c)
    BY <1>1 DEF IInv, TypeOK
  <2>2. CASE next(c) = Idle
    BY <2>1, <2>2, IdleOK DEF Idle, NoRows
  <2>3. CASE next(c) = [Idle EXCEPT !.phase = "hooking", !.rows = saved(c)]
    <3>1. /\ next(c).phase = "hooking" /\ next(c).refresh = None
          /\ next(c).access = None /\ next(c).rows = saved(c)
      BY <2>3 DEF Idle
    <3> HIDE DEF next
    <3> QED
      BY <2>1, <3>1 DEF HandlerOK
  <2> QED
    BY <2>2, <2>3
<1> HIDE DEF next, new, W
<1>11. RowsFromKnown(m, W)
  <2>1. ASSUME NEW a \in Accounts, Exists(a)'
        PROVE  \/ Paired(account'[a].meta, account'[a].creds)
               \/ account'[a].meta = m /\ account'[a].creds \in W
    <3>1. CASE saved(c)[a] = None
      BY <1>1, <2>1, <3>1, CommittedRow DEF Exists
    <3>2. CASE saved(c)[a] # None
      BY <1>1, <1>5, <3>2
    <3> QED
      BY <3>1, <3>2
  <2>2. ASSUME NEW g \in Handlers, NEW a \in Accounts, handler'[g].rows[a] # None
        PROVE  \/ handler'[g].rows[a] = handler[g].rows[a]
               \/ handler'[g].rows[a].meta = m /\ handler'[g].rows[a].creds \in W
    <3>1. CASE g = h
      BY <1>1, <1>5, <1>10, <2>2, <3>1 DEF IInv, TypeOK
    <3>2. CASE g # h
      BY <1>1, <3>2 DEF IInv, TypeOK
    <3> QED
      BY <3>1, <3>2
  <2> QED
    BY <2>1, <2>2 DEF RowsFromKnown
<1>12. RefreshTokensOK'
  BY <1>2, <1>3, <1>6 DEF RefreshTokensOK, IInv
<1>13. \A g \in Handlers \ {h} : handler'[g] = handler[g]
  BY <1>1 DEF IInv, TypeOK
<1> QED
  BY <1>3, <1>8, <1>9, <1>10, <1>11, <1>12, <1>13, SavingStep DEF W

(***************************************************************************)
(* The theorems.                                                           *)
(***************************************************************************)

LEMMA InvariantNext == IInv /\ [Next]_vars => IInv'
<1> SUFFICES ASSUME IInv, [Next]_vars PROVE IInv'
  OBVIOUS
<1>1. TypeOK'
  BY TypeNext DEF IInv
<1>2. ASSUME NEW h \in Handlers, NEW a \in Accounts,
             PatchLoad(h, a) \/ RefreshLoad(h, a) \/ MergeLoad(h, a)
      PROVE  IInv'
  BY <1>1, <1>2, ReadingStep DEF PatchLoad, RefreshLoad, MergeLoad
<1>3. CASE UNCHANGED vars
  <2>1. Grows /\ RowsFromKnown(None, {})
    BY <1>3, CommittedRow DEF vars, Grows, RowsFromKnown, Exists
  <2> QED
    BY <1>1, <1>3, <2>1, InvariantStep DEF vars
<1> QED
  BY <1>1, <1>2, <1>3, CreateAccountStep, CreateAccountWithOAuthStep,
     DeleteAccountStep, PatchCredentialsStep, PatchValidateStep, PatchSaveStep,
     PatchInitiateStep, ResolveStateTokenStep, GetInitialAccessTokenStep,
     RefreshLoadMetadataStep, GetRefreshedAccessTokenStep,
     ValidateTokenUpdateStep, BeginTokenUpdateStep, CommitTokenUpdateStep,
     PostAuthHookStep, MergeUpdateStep, AbandonStep
  DEF Next

LEMMA Invariance == Spec => []IInv
<1> QED
  BY InvariantInit, InvariantNext, PTL DEF Spec

\* The rows and the values the handlers hold always have their types, in every
\* interleaving of requests, tasks and commands.
THEOREM TypeCorrect == Spec => []TypeOK
<1>1. IInv => TypeOK
  BY DEF IInv
<1> QED
  BY <1>1, Invariance, PTL

\* Whatever old rows callbacks, hooks, PATCHes, updates and merges write back,
\* credentials are never left beside metadata whose authorization is unanswered.
\* An old row may undo a flow, but only metadata and credentials together.
THEOREM NoCredentialsWithNonce == Spec => []NoCredentialsBesideNonce
<1>1. IInv => NoCredentialsBesideNonce
  <2> SUFFICES ASSUME IInv, NEW a \in Accounts, Exists(a),
                      account[a].creds # None, account[a].meta # None
               PROVE  ~metadata[account[a].meta].nonce
    BY DEF NoCredentialsBesideNonce
  <2> QED
    BY CommittedRow DEF IInv, PairedOK
<1> QED
  BY <1>1, Invariance, PTL

\* The access token an account uses was issued for the authorization its
\* metadata row started, or supplied by the account's owner.
THEOREM TokensAreNotMixed == Spec => []TokenIssuedForMetadata
<1>1. IInv => TokenIssuedForMetadata
  <2> SUFFICES ASSUME IInv, NEW a \in Accounts, Exists(a),
                      account[a].creds # None, account[a].meta # None
               PROVE  grant[credential[account[a].creds]] \in {account[a].meta, Owner}
    BY DEF TokenIssuedForMetadata
  <2> QED
    BY CommittedRow DEF IInv, PairedOK
<1> QED
  BY <1>1, Invariance, PTL

(***************************************************************************)
(* Refresh tokens.  A refresh token that the service has just handed out   *)
(* is not known to anyone else before it is committed, so nobody can have  *)
(* it replaced in the meantime.                                            *)
(***************************************************************************)

\* A handler that has a response of the service, which is not committed yet.
HasResponse(h) == handler[h].phase \in {"received", "validated", "updating"}

\* Nobody but handler h has its refresh token.
HeldAlone(h) ==
    /\ \A g \in Handlers : handler[g].refresh = handler[h].refresh => g = h
    /\ \A m \in Metas : metadata[m] # None => metadata[m].refresh # handler[h].refresh

UncommittedLive ==
    \A h \in Handlers : HasResponse(h) /\ handler[h].refresh # None =>
        /\ handler[h].refresh \in live
        /\ Rotating => HeldAlone(h)

\* The first flow of a metadata row has no refresh token to go back to.
NothingBeforeCallback ==
    /\ \A m \in Metas : metadata[m] # None /\ metadata[m].nonce => metadata[m].refresh = None
    /\ \A h \in Handlers : handler[h].phase = "resolved" => handler[h].refresh = None

LiveInv == IInv /\ NothingBeforeCallback /\ UncommittedLive

\* A handler does not come to know a refresh token in this step.
LearnsNothing(h) ==
    /\ handler'[h].refresh \in {handler[h].refresh, None}
    /\ handler'[h].refresh # None /\ HasResponse(h)' => HasResponse(h)
    /\ handler'[h].phase = "resolved" => handler'[h].refresh = None

\* Metadata rows keep their tokens, or start a flow without one.
StartsFlows ==
    \A m \in Metas : metadata'[m] # metadata[m] =>
        metadata'[m] # None /\ metadata'[m].refresh = None

\* What a step in which nobody learns a refresh token keeps.
LEMMA QuietStep ==
  ASSUME LiveInv, StartsFlows, live' = live,
         \A h \in Handlers : LearnsNothing(h)
  PROVE  (NothingBeforeCallback /\ UncommittedLive)'
<1>1. NothingBeforeCallback'
  BY DEF LiveInv, NothingBeforeCallback, StartsFlows, LearnsNothing
<1>2. ASSUME NEW h \in Handlers, HasResponse(h)', handler'[h].refresh # None
      PROVE  handler'[h].refresh \in live' /\ (Rotating => HeldAlone(h)')
  <2>1. HasResponse(h) /\ handler'[h].refresh = handler[h].refresh
    BY <1>2 DEF LearnsNothing
  <2>2. handler[h].refresh \in live /\ (Rotating => HeldAlone(h))
    BY <1>2, <2>1 DEF LiveInv, UncommittedLive
  <2>3. ASSUME Rotating PROVE HeldAlone(h)'
    <3>1. \A g \in Handlers : handler'[g].refresh = handler'[h].refresh => g = h
      BY <1>2, <2>1, <2>2, <2>3 DEF HeldAlone, LearnsNothing
    <3>2. \A m \in Metas : metadata'[m] # None => metadata'[m].refresh # handler'[h].refresh
      BY <1>2, <2>1, <2>2, <2>3 DEF HeldAlone, StartsFlows
    <3> QED
      BY <3>1, <3>2 DEF HeldAlone
  <2> QED
    BY <2>1, <2>2, <2>3
<1> QED
  BY <1>1, <1>2 DEF UncommittedLive

\* Handler h knows no refresh token after a step, or went on with the one it had.
GoesOn(h) ==
    /\ \A g \in Handlers \ {h} : handler'[g] = handler[g]
    /\ \/ handler'[h].refresh = None
       \/ /\ handler'[h].refresh = handler[h].refresh
          /\ handler'[h].phase # "resolved"
          /\ HasResponse(h)' => HasResponse(h)

LEMMA QuietHandler ==
  ASSUME LiveInv, NEW h \in Handlers, GoesOn(h)
  PROVE  \A g \in Handlers : LearnsNothing(g)
<1>1. LearnsNothing(h)
  BY DEF GoesOn, LearnsNothing, HasResponse
<1>2. ASSUME NEW g \in Handlers \ {h} PROVE LearnsNothing(g)
  BY <1>2 DEF GoesOn, LearnsNothing, HasResponse, LiveInv, NothingBeforeCallback
<1> QED
  BY <1>1, <1>2

\* A new flow starts without a refresh token.
LEMMA InitiateStartsFlow ==
  ASSUME LiveInv, NEW a, NEW row, InitiateOAuth2Flow(a, row)
  PROVE  StartsFlows
<1>1. PICK m \in Metas :
        metadata' = [metadata EXCEPT ![m] = [nonce |-> TRUE, refresh |-> None]]
  BY DEF InitiateOAuth2Flow
<1>2. [nonce |-> TRUE, refresh |-> None] \in MetaRow
  BY DEF MetaRow
<1> QED
  BY <1>1, <1>2, NoneAssumption DEF StartsFlows, LiveInv, IInv, TypeOK

\* The actions that tell nobody a refresh token.
LEMMA QuietActions ==
  ASSUME LiveInv, [Next]_vars,
         \A h \in Handlers : ~GetInitialAccessToken(h) /\ ~GetRefreshedAccessToken(h)
                                /\ ~CommitTokenUpdate(h),
         \A h \in Handlers, a \in Accounts : ~RefreshLoadMetadata(h, a)
  PROVE  /\ live' = live
         /\ StartsFlows
         /\ \A h \in Handlers : LearnsNothing(h)
<1> USE DEF LiveInv
<1>a. handler' = handler => \A h \in Handlers : LearnsNothing(h)
  BY DEF LearnsNothing, HasResponse, NothingBeforeCallback
<1>b. metadata' = metadata => StartsFlows
  BY DEF StartsFlows
<1>c. /\ handler \in [Handlers -> HandlerState]
      /\ \A h \in Handlers : handler[h] \in HandlerState
  BY HandlerType DEF IInv, TypeOK
<1>1. ASSUME NEW a \in Accounts,
             CreateAccount(a) \/ CreateAccountWithOAuth(a) \/ DeleteAccount(a)
      PROVE  live' = live /\ StartsFlows /\ \A h \in Handlers : LearnsNothing(h)
  BY <1>1, <1>a, <1>b, InitiateStartsFlow
  DEF CreateAccount, CreateAccountWithOAuth, DeleteAccount
<1>2. ASSUME NEW h \in Handlers, NEW a \in Accounts,
             PatchLoad(h, a) \/ RefreshLoad(h, a) \/ MergeLoad(h, a)
      PROVE  live' = live /\ metadata' = metadata /\ GoesOn(h)
  <2> DEFINE read(p) == [Idle EXCEPT !.phase = p, !.rows[a] = account[a]]
  <2>1. \E p \in Phases : handler' = [handler EXCEPT ![h] = read(p)]
    BY <1>2 DEF PatchLoad, RefreshLoad, MergeLoad, Reading, Phases
  <2>2. \A p \in Phases : read(p).refresh = None
    BY DEF Idle
  <2>3. GoesOn(h)
    <3> HIDE DEF read
    <3> QED BY <2>1, <2>2, <1>c DEF GoesOn
  <2> QED
    BY <1>2, <2>3 DEF PatchLoad, RefreshLoad, MergeLoad
<1>3. ASSUME NEW h \in Handlers, handler' = [handler EXCEPT ![h] = Idle]
      PROVE  GoesOn(h)
  BY <1>3, <1>c DEF GoesOn, Idle
<1>4. ASSUME NEW h \in Handlers, NEW a \in Accounts, PatchSave(h, a)
      PROVE  live' = live /\ metadata' = metadata /\ GoesOn(h)
  BY <1>4, <1>3 DEF PatchSave
<1>5. ASSUME NEW h \in Handlers, NEW a \in Accounts, PatchInitiate(h, a)
      PROVE  live' = live /\ StartsFlows /\ GoesOn(h)
  BY <1>5, <1>3, InitiateStartsFlow DEF PatchInitiate
<1>6. ASSUME NEW h \in Handlers, NEW a \in Accounts, NEW same \in SUBSET Accounts,
             MergeUpdate(h, a, same)
      PROVE  live' = live /\ metadata' = metadata /\ GoesOn(h)
  BY <1>6, <1>3 DEF MergeUpdate
<1>7. ASSUME NEW h \in Handlers, Abandon(h)
      PROVE  live' = live /\ metadata' = metadata /\ GoesOn(h)
  BY <1>7, <1>3 DEF Abandon
<1>8. ASSUME NEW h \in Handlers, NEW a \in Accounts, PatchValidate(h, a)
      PROVE  live' = live /\ metadata' = metadata /\ GoesOn(h)
  <2>1. handler[h].phase = "patching" /\ handler' = [handler EXCEPT ![h].phase = "patched"]
    BY <1>8 DEF PatchValidate
  <2>2. GoesOn(h)
    BY <1>c, <2>1 DEF GoesOn, HasResponse, HandlerState
  <2> QED
    BY <1>8, <2>2 DEF PatchValidate
<1>9. ASSUME NEW h \in Handlers, PatchCredentials(h)
      PROVE  live' = live /\ metadata' = metadata /\ GoesOn(h)
  <2>1. PICK t \in Tokens : handler' = [handler EXCEPT ![h].access = t]
    BY <1>9 DEF PatchCredentials
  <2>2. GoesOn(h)
    BY <1>9, <1>c, <2>1 DEF PatchCredentials, GoesOn, HasResponse, HandlerState
  <2> QED
    BY <1>9, <2>2 DEF PatchCredentials
<1>10. ASSUME NEW h \in Handlers, NEW a \in Accounts, PostAuthHook(h, a)
       PROVE  live' = live /\ metadata' = metadata /\ GoesOn(h)
  <2>1. PICK rest :
            handler' = [handler EXCEPT ![h] =
                IF rest = NoRows THEN Idle ELSE [handler[h] EXCEPT !.rows = rest]]
    BY <1>10 DEF PostAuthHook
  <2>2. CASE rest = NoRows
    BY <1>10, <1>3, <2>1, <2>2 DEF PostAuthHook
  <2>3. CASE rest # NoRows
    <3>1. /\ \A g \in Handlers \ {h} : handler'[g] = handler[g]
          /\ handler'[h].refresh = handler[h].refresh
          /\ handler'[h].phase = handler[h].phase
      BY <1>c, <2>1, <2>3 DEF HandlerState
    <3>2. handler[h].phase = "hooking"
      BY <1>10 DEF PostAuthHook
    <3> QED
      BY <1>10, <3>1, <3>2 DEF PostAuthHook, GoesOn, HasResponse
  <2> QED
    BY <2>2, <2>3
<1>11. ASSUME NEW h \in Handlers, NEW m \in Metas, ResolveStateToken(h, m)
       PROVE  live' = live /\ metadata' = metadata /\ GoesOn(h)
  <2>1. metadata[m].refresh = None
    BY <1>11 DEF ResolveStateToken, NothingBeforeCallback
  <2> QED
    BY <1>11, <1>c, <2>1 DEF ResolveStateToken, Idle, GoesOn
<1>12. ASSUME NEW h \in Handlers, ValidateTokenUpdate(h)
       PROVE  live' = live /\ metadata' = metadata /\ GoesOn(h)
  BY <1>12, <1>c DEF ValidateTokenUpdate, GoesOn, HasResponse, HandlerState
<1>13. ASSUME NEW h \in Handlers, BeginTokenUpdate(h)
       PROVE  live' = live /\ metadata' = metadata /\ GoesOn(h)
  BY <1>13, <1>c DEF BeginTokenUpdate, GoesOn, HasResponse, HandlerState
<1>14. CASE UNCHANGED vars
  BY <1>14, <1>a, <1>b DEF vars
<1> QED
  BY <1>1, <1>2, <1>4, <1>5, <1>6, <1>7, <1>8, <1>9, <1>10, <1>11, <1>12, <1>13,
     <1>14, <1>b, QuietHandler
  DEF Next

\* A refresh token that is read from its row is not one that is just handed out.
LEMMA RefreshLoadMetadataLive ==
  ASSUME LiveInv, NEW h \in Handlers, NEW a \in Accounts, RefreshLoadMetadata(h, a)
  PROVE  (NothingBeforeCallback /\ UncommittedLive)'
<1> DEFINE m == handler[h].rows[a].meta
<1>1. /\ metadata' = metadata /\ live' = live
      /\ metadata[m].refresh # None
      /\ handler' = [handler EXCEPT ![h] =
            [Idle EXCEPT !.phase = "requesting", !.meta = m, !.refresh = metadata[m].refresh]]
  BY DEF RefreshLoadMetadata
<1>2. m \in Metas /\ metadata[m] # None
  <2>1. handler[h].phase = "loaded" /\ handler[h].rows[a] # None /\ m # None
    BY DEF RefreshLoadMetadata
  <2>2. handler[h].rows[a] \in AccountRow
    BY <2>1, HandlerType DEF LiveInv, IInv, TypeOK
  <2>3. m \in Metas
    BY <2>1, <2>2 DEF AccountRow
  <2>4. Paired(m, handler[h].rows[a].creds)
    BY <2>1 DEF Paired
  <2> QED
    BY <2>1, <2>2, <2>3, <2>4 DEF LiveInv, IInv, ForeignKeys, AccountRow
<1>3. /\ \A g \in Handlers \ {h} : handler'[g] = handler[g]
      /\ handler'[h].phase = "requesting"
      /\ handler'[h].refresh = metadata[m].refresh
  BY <1>1 DEF LiveInv, IInv, TypeOK, Idle
<1>4. NothingBeforeCallback'
  BY <1>1, <1>3 DEF LiveInv, NothingBeforeCallback
<1>5. ASSUME NEW g \in Handlers, HasResponse(g)', handler'[g].refresh # None
      PROVE  handler'[g].refresh \in live' /\ (Rotating => HeldAlone(g)')
  <2>1. g # h /\ HasResponse(g) /\ handler'[g] = handler[g]
    BY <1>3, <1>5 DEF HasResponse
  <2>2. handler[g].refresh \in live /\ (Rotating => HeldAlone(g))
    BY <1>5, <2>1 DEF LiveInv, UncommittedLive
  <2>3. ASSUME Rotating PROVE HeldAlone(g)'
    BY <1>1, <1>2, <1>3, <2>1, <2>2, <2>3 DEF HeldAlone
  <2> QED
    BY <1>1, <2>1, <2>2, <2>3
<1> QED
  BY <1>4, <1>5 DEF UncommittedLive

\* A response brings a token that nobody has seen: what others hold is not
\* touched, unless it is the token that was exchanged.
LEMMA ResponseLive ==
  ASSUME LiveInv, NEW h \in Handlers, NEW t \in Tokens, NEW r,
         grant[t] = None,
         metadata' = metadata,
         \A g \in Handlers \ {h} : handler'[g] = handler[g],
         handler'[h].phase = "received", handler'[h].refresh = r,
         r # None => r \in live',
         Rotating /\ r # None => r = t,
         ~Rotating => live \subseteq live',
         live \ {handler[h].refresh} \subseteq live'
  PROVE  (NothingBeforeCallback /\ UncommittedLive)'
<1>1. NothingBeforeCallback'
  BY DEF LiveInv, NothingBeforeCallback
<1>2. /\ \A m \in Metas : metadata[m] # None => metadata[m].refresh # t
      /\ \A g \in Handlers : handler[g].refresh # t
  <2>1. \A m \in Metas : metadata[m] # None => metadata[m].refresh # t
    <3> SUFFICES ASSUME NEW m \in Metas, metadata[m] # None, metadata[m].refresh = t
                 PROVE  FALSE
      OBVIOUS
    <3>1. t # None
      BY NoneAssumption
    <3>2. grant[t] = m
      BY <3>1 DEF LiveInv, IInv, RefreshTokensOK
    <3> QED
      BY <3>2, NoneAssumption
  <2>2. \A g \in Handlers : handler[g].refresh # t
    <3> SUFFICES ASSUME NEW g \in Handlers, handler[g].refresh = t
                 PROVE  FALSE
      OBVIOUS
    <3>1. t # None
      BY NoneAssumption
    <3>2. handler[g].meta # None /\ grant[t] = handler[g].meta
      BY <3>1 DEF LiveInv, IInv, HandlerOK
    <3> QED
      BY <3>2
  <2> QED
    BY <2>1, <2>2
<1>3. ASSUME NEW g \in Handlers, HasResponse(g)', handler'[g].refresh # None
      PROVE  handler'[g].refresh \in live' /\ (Rotating => HeldAlone(g)')
  <2>1. CASE g = h
    <3>1. ASSUME Rotating PROVE HeldAlone(h)'
      BY <1>2, <1>3, <2>1, <3>1 DEF HeldAlone
    <3> QED
      BY <1>3, <2>1, <3>1
  <2>2. CASE g # h
    <3>1. /\ HasResponse(g) /\ handler'[g] = handler[g]
          /\ handler[g].refresh \in live
          /\ Rotating => HeldAlone(g)
      BY <1>3, <2>2 DEF HasResponse, LiveInv, UncommittedLive
    <3>2. handler'[g].refresh \in live'
      BY <2>2, <3>1, ServiceAssumption DEF HeldAlone
    <3>3. ASSUME Rotating PROVE HeldAlone(g)'
      BY <1>2, <1>3, <2>2, <3>1, <3>3 DEF HeldAlone
    <3> QED
      BY <3>2, <3>3
  <2> QED
    BY <2>1, <2>2
<1> QED
  BY <1>1, <1>3 DEF UncommittedLive

LEMMA GetInitialAccessTokenLive ==
  ASSUME LiveInv, NEW h \in Handlers, GetInitialAccessToken(h)
  PROVE  (NothingBeforeCallback /\ UncommittedLive)'
<1>1. handler[h].phase = "resolved" /\ handler[h].refresh = None /\ metadata' = metadata
  BY DEF GetInitialAccessToken, LiveInv, NothingBeforeCallback
<1>2. PICK t \in Tokens : \E r \in {t, handler[h].refresh} :
        /\ grant[t] = None
        /\ grant' = [grant EXCEPT ![t] = handler[h].meta]
        /\ live' = live \cup ({r} \ {None})
        /\ handler' = [handler EXCEPT ![h] =
              [handler[h] EXCEPT !.phase = "received", !.access = t, !.refresh = r]]
  BY DEF GetInitialAccessToken
<1>3. PICK r \in {t, None} :
        /\ live' = live \cup ({r} \ {None})
        /\ handler' = [handler EXCEPT ![h] =
              [handler[h] EXCEPT !.phase = "received", !.access = t, !.refresh = r]]
  BY <1>1, <1>2
<1>4. /\ handler'[h].phase = "received" /\ handler'[h].refresh = r
      /\ \A g \in Handlers \ {h} : handler'[g] = handler[g]
  BY <1>3 DEF LiveInv, IInv, TypeOK, HandlerState
<1> QED
  BY <1>1, <1>2, <1>3, <1>4, ResponseLive

LEMMA GetRefreshedAccessTokenLive ==
  ASSUME LiveInv, NEW h \in Handlers, GetRefreshedAccessToken(h)
  PROVE  (NothingBeforeCallback /\ UncommittedLive)'
<1>1. handler[h].refresh \in live /\ metadata' = metadata
  BY DEF GetRefreshedAccessToken
<1>2. PICK t \in Tokens :
        /\ grant[t] = None
        /\ grant' = [grant EXCEPT ![t] = grant[handler[h].refresh]]
        /\ live' = IF Rotating THEN (live \ {handler[h].refresh}) \cup {t} ELSE live
        /\ handler' = [handler EXCEPT ![h] =
              [handler[h] EXCEPT !.phase = "received", !.access = t,
                                 !.refresh = IF Rotating THEN t ELSE handler[h].refresh]]
  BY DEF GetRefreshedAccessToken
<1> DEFINE r == IF Rotating THEN t ELSE handler[h].refresh
<1>3. /\ handler'[h].phase = "received" /\ handler'[h].refresh = r
      /\ \A g \in Handlers \ {h} : handler'[g] = handler[g]
  BY <1>2 DEF LiveInv, IInv, TypeOK, HandlerState
<1>4. /\ r # None => r \in live'
      /\ Rotating => r = t
      /\ ~Rotating => live \subseteq live'
      /\ live \ {handler[h].refresh} \subseteq live'
  BY <1>1, <1>2, ServiceAssumption
<1> HIDE DEF r
<1> QED
  BY <1>1, <1>2, <1>3, <1>4, ResponseLive

\* What is committed is known to one handler before, and it forgets it.
LEMMA CommitTokenUpdateLive ==
  ASSUME LiveInv, NEW h \in Handlers, CommitTokenUpdate(h)
  PROVE  /\ live' = live
         /\ (NothingBeforeCallback /\ UncommittedLive)'
         /\ handler[h].meta \in Metas
         /\ handler[h].refresh # None => handler[h].refresh \in live
         /\ metadata' = [metadata EXCEPT ![handler[h].meta] =
                [nonce |-> FALSE, refresh |-> handler[h].refresh]]
<1>1. /\ handler[h].phase = "updating"
      /\ metadata' = [metadata EXCEPT ![handler[h].meta] =
                [nonce |-> FALSE, refresh |-> handler[h].refresh]]
      /\ live' = live
  BY DEF CommitTokenUpdate
<1> DEFINE read == handler[h].rows
           saved(c) == [a \in Accounts |->
                IF read[a] = None THEN None ELSE [read[a] EXCEPT !.creds = c[a]]]
           next(c) == IF handler[h].callback /\ saved(c) # NoRows
                      THEN [Idle EXCEPT !.phase = "hooking", !.rows = saved(c)]
                      ELSE Idle
<1>2. PICK c \in [Accounts -> Creds \cup {None}] :
        /\ CredsFor(read, c)
        /\ metadata' = [metadata EXCEPT ![handler[h].meta] =
              [nonce |-> FALSE, refresh |-> handler[h].refresh]]
        /\ credential' = [k \in Creds |->
              IF \E a \in Accounts : c[a] = k THEN handler[h].access ELSE credential[k]]
        /\ account' = [a \in Accounts |->
              IF saved(c)[a] = None THEN account[a] ELSE saved(c)[a]]
        /\ handler' = [handler EXCEPT ![h] = next(c)]
  BY DEF CommitTokenUpdate
<1>3. /\ \A g \in Handlers \ {h} : handler'[g] = handler[g]
      /\ handler'[h].refresh = None
      /\ handler'[h].phase \in {"hooking", "idle"}
  <2>1. next(c).refresh = None /\ next(c).phase \in {"hooking", "idle"}
    BY DEF Idle
  <2> HIDE DEF next
  <2> QED
    BY <1>2, <2>1 DEF LiveInv, IInv, TypeOK
<1>4. handler[h].meta \in Metas
  BY <1>1 DEF LiveInv, IInv, HandlerOK
<1>5. /\ metadata'[handler[h].meta] = [nonce |-> FALSE, refresh |-> handler[h].refresh]
      /\ \A m \in Metas \ {handler[h].meta} : metadata'[m] = metadata[m]
  BY <1>1, <1>4 DEF LiveInv, IInv, TypeOK
<1>6. handler[h].refresh # None =>
        handler[h].refresh \in live /\ (Rotating => HeldAlone(h))
  BY <1>1 DEF LiveInv, UncommittedLive, HasResponse
<1>7. NothingBeforeCallback'
  BY <1>3, <1>5 DEF LiveInv, NothingBeforeCallback
<1>8. ASSUME NEW g \in Handlers, HasResponse(g)', handler'[g].refresh # None
      PROVE  handler'[g].refresh \in live' /\ (Rotating => HeldAlone(g)')
  <2>1. g # h /\ HasResponse(g) /\ handler'[g] = handler[g]
    BY <1>3, <1>8 DEF HasResponse
  <2>2. handler[g].refresh \in live /\ (Rotating => HeldAlone(g))
    BY <1>8, <2>1 DEF LiveInv, UncommittedLive
  <2>3. ASSUME Rotating PROVE HeldAlone(g)'
    BY <1>3, <1>5, <1>8, <2>1, <2>2, <2>3 DEF HeldAlone
  <2> QED
    BY <1>1, <2>1, <2>2, <2>3
<1> QED
  BY <1>1, <1>4, <1>6, <1>7, <1>8 DEF UncommittedLive

LEMMA LiveInvNext == LiveInv /\ [Next]_vars => LiveInv'
<1> SUFFICES ASSUME LiveInv, [Next]_vars PROVE LiveInv'
  OBVIOUS
<1>1. IInv'
  BY InvariantNext DEF LiveInv
<1>2. ASSUME \A h \in Handlers : ~GetInitialAccessToken(h) /\ ~GetRefreshedAccessToken(h)
                                    /\ ~CommitTokenUpdate(h),
             \A h \in Handlers, a \in Accounts : ~RefreshLoadMetadata(h, a)
      PROVE  (NothingBeforeCallback /\ UncommittedLive)'
  BY <1>2, QuietActions, QuietStep
<1> QED
  BY <1>1, <1>2, GetInitialAccessTokenLive, GetRefreshedAccessTokenLive,
     CommitTokenUpdateLive, RefreshLoadMetadataLive
  DEF LiveInv

LEMMA LiveInvariance == Spec => []LiveInv
<1>1. Init => LiveInv
  BY InvariantInit DEF Init, LiveInv, NothingBeforeCallback, UncommittedLive, HasResponse, Idle
<1> QED
  BY <1>1, LiveInvNext, PTL DEF Spec

\* The refresh token that a callback or a refresh commits is one the service
\* honours, however many of them overlap, and whether or not the service replaces
\* refresh tokens.
THEOREM CommittedRefreshTokensLive == Spec => StoredRefreshTokenLive
<1>1. ASSUME LiveInv, [Next]_vars,
             NEW m \in Metas, metadata'[m] # metadata[m], metadata'[m].refresh # None
      PROVE  metadata'[m].refresh \in live'
  <2>1. metadata \in [Metas -> MetaRow \cup {None}]
    BY <1>1 DEF LiveInv, IInv, TypeOK
  <2>2. ASSUME NEW h \in Handlers, CommitTokenUpdate(h)
        PROVE  metadata'[m].refresh \in live'
    <3> DEFINE new == [nonce |-> FALSE, refresh |-> handler[h].refresh]
    <3>1. /\ live' = live
          /\ handler[h].meta \in Metas
          /\ handler[h].refresh # None => handler[h].refresh \in live
          /\ metadata' = [metadata EXCEPT ![handler[h].meta] = new]
          /\ new.refresh = handler[h].refresh
      BY <1>1, <2>2, CommitTokenUpdateLive
    <3> HIDE DEF new
    <3> QED
      BY <1>1, <2>1, <3>1
  <2>3. ASSUME NEW h \in Handlers,
               GetInitialAccessToken(h) \/ GetRefreshedAccessToken(h)
        PROVE  FALSE
    BY <1>1, <2>3 DEF GetInitialAccessToken, GetRefreshedAccessToken
  <2>4. ASSUME NEW h \in Handlers, NEW a \in Accounts, RefreshLoadMetadata(h, a)
        PROVE  FALSE
    BY <1>1, <2>4 DEF RefreshLoadMetadata
  <2>5. CASE \A h \in Handlers : ~CommitTokenUpdate(h)
    <3>1. StartsFlows
      BY <1>1, <2>3, <2>4, <2>5, QuietActions
    <3> QED
      BY <1>1, <3>1 DEF StartsFlows
  <2> QED
    BY <2>2, <2>5
<1>2. LiveInv /\ [Next]_vars =>
        [\A m \in Metas : (metadata'[m] # metadata[m] /\ metadata'[m].refresh # None)
            => metadata'[m].refresh \in live']_vars
  BY <1>1
<1> QED
  BY <1>2, LiveInvariance, PTL DEF Spec, StoredRefreshTokenLive

=============================================================================
