-------------------------- MODULE SessionContract --------------------------
(***************************************************************************)
(* What the session layer promises about one refresh token, with the       *)
(* database, the cache and the handlers left out: a token is fresh until a *)
(* sign-in draws it for one user, then live, then dead, and a dead token   *)
(* never comes back.  Sessions implements this specification.              *)
(***************************************************************************)
CONSTANTS Users,    \* account ids
          Tokens,   \* the secrets create_temp_token can draw
          None      \* "no user"

VARIABLES status,   \* status[t]: "fresh", "live" or "dead"
          holder    \* holder[t]: the user the token was drawn for

vars == <<status, holder>>

Init == /\ status = [t \in Tokens |-> "fresh"]
        /\ holder = [t \in Tokens |-> None]

\* A sign-in draws the fresh token t for user u.
Draw(t, u) ==
    /\ status[t] = "fresh"
    /\ status' = [status EXCEPT ![t] = "live"]
    /\ holder' = [holder EXCEPT ![t] = u]

\* A logout, a deletion or a cleanup ends the sessions in S together.
End(S) ==
    /\ \A t \in S : status[t] = "live"
    /\ status' = [t \in Tokens |-> IF t \in S THEN "dead" ELSE status[t]]
    /\ UNCHANGED holder

Next == \/ \E t \in Tokens, u \in Users : Draw(t, u)
        \/ \E S \in SUBSET Tokens : End(S)

Spec == Init /\ [][Next]_vars
=============================================================================
