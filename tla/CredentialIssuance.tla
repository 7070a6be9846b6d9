-------------------------- MODULE CredentialIssuance --------------------------
(***************************************************************************)
(* What one credential exchange promises, without its messages, records    *)
(* and handlers: an issuer creates credentials, the holder's wallet takes  *)
(* in credentials that were created, and the exchange is confirmed to the  *)
(* issuer only when the wallet holds one.  IssueCredential implements it.  *)
(***************************************************************************)
CONSTANT Creds

VARIABLES
    issued,     \* credentials the issuer has created
    stored,     \* credentials the holder's wallet holds
    confirmed   \* a record of the issuer says that one is stored

Init ==
    /\ issued = {}
    /\ stored = {}
    /\ confirmed = FALSE

Issue == \E c \in Creds \ issued :
    /\ issued' = issued \cup {c}
    /\ UNCHANGED <<stored, confirmed>>

Store == \E c \in issued :
    /\ stored' = stored \cup {c}
    /\ UNCHANGED <<issued, confirmed>>

Confirm ==
    /\ stored # {}
    /\ confirmed' = TRUE
    /\ UNCHANGED <<issued, stored>>

\* The issuer forgets: its record is removed, or a repeated request opens the
\* exchange again.
Forget ==
    /\ confirmed
    /\ confirmed' = FALSE
    /\ UNCHANGED <<issued, stored>>

Next == Issue \/ Store \/ Confirm \/ Forget

Spec == Init /\ [][Next]_<<issued, stored, confirmed>>
=============================================================================
