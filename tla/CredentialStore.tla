--------------------------- MODULE CredentialStore ---------------------------
(***************************************************************************)
(* What the users of ExternalCredentials rely on: a row gives back the     *)
(* credentials last stored in it, as if they were never encrypted.  Only a *)
(* request that set credentials, or a deletion, changes them.              *)
(***************************************************************************)
CONSTANTS Rows, Values, Processes, None

VARIABLES
    value,      \* the credentials that reading a row returns
    pending     \* the credentials that a process is about to save

Init ==
    /\ value = [r \in Rows |-> None]
    /\ pending = [p \in Processes |-> None]

Submit(p, r, v) ==
    /\ pending[p] = None
    /\ pending' = [pending EXCEPT ![p] = [row |-> r, value |-> v]]
    /\ UNCHANGED value

Commit(p) ==
    /\ pending[p] # None
    /\ value' = [value EXCEPT ![pending[p].row] = pending[p].value]
    /\ pending' = [pending EXCEPT ![p] = None]

Withdraw(p) ==
    /\ pending[p] # None
    /\ pending' = [pending EXCEPT ![p] = None]
    /\ UNCHANGED value

Delete(r) ==
    /\ value' = [value EXCEPT ![r] = None]
    /\ UNCHANGED pending

Next ==
    \/ \E p \in Processes :
        \/ \E r \in Rows, v \in Values : Submit(p, r, v)
        \/ Commit(p)
        \/ Withdraw(p)
    \/ \E r \in Rows : Delete(r)

Spec == Init /\ [][Next]_<<value, pending>>
=============================================================================
