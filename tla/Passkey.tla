------------------------------- MODULE Passkey -------------------------------
(***************************************************************************)
(* The passkeys of one account: registration and sign-in, each a challenge  *)
(* kept in Redis under one key and a verification that reads it, commits and *)
(* then deletes whatever that key holds.  A step ends where a handler awaits. *)
(* The authenticators are the environment: they sign any challenge handed    *)
(* out, with any counter, since one may be a clone; a request may be sent    *)
(* again.  The session that a sign-in stores is in module Sessions.          *)
(***************************************************************************)
EXTENDS Naturals

CONSTANTS Credentials, \* authenticators' key pairs
          Challenges,  \* bounds the challenges drawn
          MaxCount,    \* bounds the signature counter; 0 is one that never counts
          Requests,    \* handlers in flight at the same time
          None

ASSUME PasskeyAssumption == MaxCount \in Nat /\ None \notin Challenges \cup Credentials \cup Nat

VARIABLES
  account,  \* does the account exist, is it blocked, is passkey_enabled set
  keys,     \* passkey: keys[c], the stored sign_count of credential c, or None
  reg,      \* webauthn:reg:{uid} in Redis: a challenge or None
  auth,     \* webauthn:auth:{email} in Redis
  drawn,    \* challenges drawn so far; the client has those that were answered
  req,      \* req[r]: the handler in slot r
  accepted, \* history: assertions that signed someone in
  mixed,    \* history: credentials that two sign-ins have verified at the same time
  left      \* history: challenges whose deletion did not happen

vars == <<account, keys, reg, auth, drawn, req, accepted, mixed, left>>

store   == <<account, keys>>
history == <<accepted, mixed, left>>

Counts == 0..MaxCount

\* A request record: the response of the authenticator (credential, challenge, counter),
\* the challenge read from Redis, the sign_count of the row it loaded.
Idle == [op |-> "none", pc |-> "idle", cred |-> None, ch |-> None, count |-> 0,
         expected |-> None]

Init ==
    /\ account = [exists |-> TRUE, blocked |-> FALSE, enabled |-> FALSE]
    /\ keys = [c \in Credentials |-> None]
    /\ reg = None /\ auth = None /\ drawn = {}
    /\ req = [r \in Requests |-> Idle]
    /\ accepted = {} /\ mixed = {} /\ left = {}

-----------------------------------------------------------------------------
At(r, op, pc)  == req[r].op = op /\ req[r].pc = pc
Free(r)        == req[r].op = "none"
Become(r, rec) == req' = [req EXCEPT ![r] = rec]
Goto(r, pc)    == Become(r, [req[r] EXCEPT !.pc = pc])
Finish(r)      == Become(r, Idle)

Stored == {c \in Credentials : keys[c] # None}

(* ------------------------------- registration ----------------------------- *)

\* passkey_register_options and passkey_register_verify need a session, which may
\* outlive the account in the cache.
StartRegOptions(r) ==
    /\ Free(r)
    /\ Become(r, [Idle EXCEPT !.op = "reg_options", !.pc = "account"])
    /\ UNCHANGED <<store, reg, auth, drawn, history>>

\* 401 without the account; the passkeys read next are for the client.
RegAccount(r) ==
    /\ At(r, "reg_options", "account")
    /\ IF account.exists THEN Goto(r, "store") ELSE Finish(r)
    /\ UNCHANGED <<store, reg, auth, drawn, history>>

\* setex: a new challenge replaces the one of another tab.
StoreRegChallenge(r) ==
    /\ At(r, "reg_options", "store")
    /\ \E ch \in Challenges \ drawn : reg' = ch /\ drawn' = drawn \cup {ch}
    /\ Finish(r)
    /\ UNCHANGED <<store, auth, history>>

StartRegVerify(r, c, ch, n) ==
    /\ Free(r)
    /\ Become(r, [op |-> "reg_verify", pc |-> "challenge", cred |-> c, ch |-> ch, count |-> n,
                  expected |-> None])
    /\ UNCHANGED <<store, reg, auth, drawn, history>>

\* Read and verified: 400 unless the response is to this challenge.
RegChallenge(r) ==
    /\ At(r, "reg_verify", "challenge")
    /\ IF reg # None /\ req[r].ch = reg
         THEN Become(r, [req[r] EXCEPT !.pc = "commit", !.expected = reg])
         ELSE Finish(r)
    /\ UNCHANGED <<store, reg, auth, drawn, history>>

\* Mutant: the account is not marked.
StoreKeyOnly(r) ==
    /\ At(r, "reg_verify", "commit")
    /\ IF account.exists /\ req[r].cred \notin Stored
         THEN keys' = [keys EXCEPT ![req[r].cred] = req[r].count] /\ Goto(r, "cleanup")
         ELSE Finish(r) /\ UNCHANGED keys
    /\ UNCHANGED <<account, reg, auth, drawn, history>>

\* The row and the flag in one commit; a credential that is stored already (unique key)
\* or an account that is gone (foreign key) is a 400.
StoreKey(r) ==
    /\ At(r, "reg_verify", "commit")
    /\ IF account.exists /\ req[r].cred \notin Stored
         THEN /\ keys' = [keys EXCEPT ![req[r].cred] = req[r].count]
              /\ account' = [account EXCEPT !.enabled = TRUE]
              /\ Goto(r, "cleanup")
         ELSE Finish(r) /\ UNCHANGED store
    /\ UNCHANGED <<reg, auth, drawn, history>>

\* 200; a failing Redis makes it a 400 though the key is stored.
RegCleanup(r) ==
    /\ At(r, "reg_verify", "cleanup")
    /\ reg' \in {None, reg}
    /\ Finish(r)
    /\ UNCHANGED <<store, auth, drawn, history>>

(* ---------------------------------- sign-in ------------------------------- *)

StartLoginOptions(r) ==
    /\ Free(r)
    /\ Become(r, [Idle EXCEPT !.op = "login_options", !.pc = "account"])
    /\ UNCHANGED <<store, reg, auth, drawn, history>>

\* 404 without the account, 400 unless it is enabled; a blocked one is served.  (The
\* account of a passkey has a verified address.)
LoginOptionsAccount(r) ==
    /\ At(r, "login_options", "account")
    /\ IF account.exists /\ account.enabled THEN Goto(r, "keys") ELSE Finish(r)
    /\ UNCHANGED <<store, reg, auth, drawn, history>>

LoginOptionsKeys(r) ==
    /\ At(r, "login_options", "keys")
    /\ IF Stored # {} THEN Goto(r, "store") ELSE Finish(r)
    /\ UNCHANGED <<store, reg, auth, drawn, history>>

StoreAuthChallenge(r) ==
    /\ At(r, "login_options", "store")
    /\ \E ch \in Challenges \ drawn : auth' = ch /\ drawn' = drawn \cup {ch}
    /\ Finish(r)
    /\ UNCHANGED <<store, reg, history>>

StartLoginVerify(r, c, ch, n) ==
    /\ Free(r)
    /\ Become(r, [op |-> "login_verify", pc |-> "challenge", cred |-> c, ch |-> ch, count |-> n,
                  expected |-> None])
    /\ mixed' = IF \E s \in Requests : req[s].op = "login_verify" /\ req[s].cred = c
                  THEN mixed \cup {c} ELSE mixed
    /\ UNCHANGED <<store, reg, auth, drawn, accepted, left>>

\* 400 without a challenge.
LoginChallenge(r) ==
    /\ At(r, "login_verify", "challenge")
    /\ IF auth # None THEN Become(r, [req[r] EXCEPT !.pc = "account", !.expected = auth])
                      ELSE Finish(r)
    /\ UNCHANGED <<store, reg, auth, drawn, history>>

\* 404 or 403.
LoginAccount(r) ==
    /\ At(r, "login_verify", "account")
    /\ IF account.exists /\ ~account.blocked THEN Goto(r, "key") ELSE Finish(r)
    /\ UNCHANGED <<store, reg, auth, drawn, history>>

\* verify_authentication_response: the challenge is the expected one, and the counter is
\* above the stored one where either of the two counts.
Verifies(r, stored) ==
    /\ req[r].ch = req[r].expected
    /\ req[r].count > stored \/ (req[r].count = 0 /\ stored = 0)

\* The row is loaded and the assertion verified against it, with no await in between.
LoginKey(r) ==
    /\ At(r, "login_verify", "key")
    /\ IF req[r].cred \in Stored /\ Verifies(r, keys[req[r].cred])
         THEN Goto(r, "commit") ELSE Finish(r)
    /\ UNCHANGED <<store, reg, auth, drawn, history>>

Assertion(r) == [cred |-> req[r].cred, ch |-> req[r].ch, count |-> req[r].count]

\* Mutant: the counter is not stored.
SignInOnly(r) ==
    /\ At(r, "login_verify", "commit")
    /\ IF req[r].cred \in Stored
         THEN accepted' = accepted \cup {Assertion(r)} /\ Goto(r, "cleanup")
         ELSE Finish(r) /\ UNCHANGED accepted
    /\ UNCHANGED <<store, reg, auth, drawn, mixed, left>>

\* A counter that differs from the one loaded (0 was verified against 0) overwrites the
\* stored one, whatever it is by now, and the session row is inserted; without the rows
\* of the account it is a 400.
SignIn(r) ==
    /\ At(r, "login_verify", "commit")
    /\ IF req[r].cred \in Stored
         THEN /\ keys' = IF req[r].count = 0 THEN keys
                         ELSE [keys EXCEPT ![req[r].cred] = req[r].count]
              /\ accepted' = accepted \cup {Assertion(r)}
              /\ Goto(r, "cleanup")
         ELSE Finish(r) /\ UNCHANGED <<keys, accepted>>
    /\ UNCHANGED <<account, reg, auth, drawn, mixed, left>>

\* Mutant: the challenge is left to expire.
LoginCleanupForgotten(r) ==
    /\ At(r, "login_verify", "cleanup")
    /\ Finish(r)
    /\ UNCHANGED <<store, reg, auth, drawn, history>>

\* After save_session the key is deleted, be it a newer challenge by now.  A failing
\* Redis, there or here, leaves it, and answers 400 though the session row is stored.
LoginCleanup(r) ==
    /\ At(r, "login_verify", "cleanup")
    /\ \/ auth' = None /\ UNCHANGED left
       \/ left' = left \cup {req[r].ch} /\ UNCHANGED auth
    /\ Finish(r)
    /\ UNCHANGED <<store, reg, drawn, accepted, mixed>>

(* --------------------------------- elsewhere ------------------------------ *)

\* A challenge's time is up.
Expire ==
    /\ \/ reg # None /\ reg' = None /\ UNCHANGED auth
       \/ auth # None /\ auth' = None /\ UNCHANGED reg
    /\ UNCHANGED <<store, drawn, req, history>>

\* The administrator's block and unblock.
Block(b) ==
    /\ account.exists
    /\ account' = [account EXCEPT !.blocked = b]
    /\ UNCHANGED <<keys, reg, auth, drawn, req, history>>

\* By its owner or an administrator; the passkeys go by cascade, the challenges stay.
DeleteAccount ==
    /\ account.exists
    /\ account' = [exists |-> FALSE, blocked |-> FALSE, enabled |-> FALSE]
    /\ keys' = [c \in Credentials |-> None]
    /\ UNCHANGED <<reg, auth, drawn, req, history>>

\* A worker dies, or the database or Redis fails before the commit: rolled back.
Crash(r) ==
    /\ ~Free(r)
    /\ left' = IF At(r, "login_verify", "cleanup") THEN left \cup {req[r].ch} ELSE left
    /\ Finish(r)
    /\ UNCHANGED <<store, reg, auth, drawn, accepted, mixed>>

-----------------------------------------------------------------------------
Arrive(r) ==
    \/ StartRegOptions(r) \/ StartLoginOptions(r)
    \/ \E c \in Credentials, ch \in drawn, n \in Counts :
         StartRegVerify(r, c, ch, n) \/ StartLoginVerify(r, c, ch, n)

HandlerStep(r) ==
    \/ RegAccount(r) \/ StoreRegChallenge(r) \/ RegChallenge(r) \/ StoreKey(r) \/ RegCleanup(r)
    \/ LoginOptionsAccount(r) \/ LoginOptionsKeys(r) \/ StoreAuthChallenge(r)
    \/ LoginChallenge(r) \/ LoginAccount(r) \/ LoginKey(r) \/ SignIn(r) \/ LoginCleanup(r)

Next ==
    \/ \E r \in Requests : Arrive(r) \/ HandlerStep(r) \/ Crash(r)
    \/ Expire \/ DeleteAccount \/ \E b \in BOOLEAN : Block(b)

Spec == Init /\ [][Next]_vars

-----------------------------------------------------------------------------
(* Properties *)

Ops        == {"none", "reg_options", "reg_verify", "login_options", "login_verify"}
PCs        == {"idle", "account", "store", "challenge", "commit", "cleanup", "keys", "key"}
Handlers   == [op : Ops, pc : PCs, cred : Credentials \cup {None}, ch : Challenges \cup {None},
               count : Counts, expected : Challenges \cup {None}]
Assertions == [cred : Credentials, ch : Challenges, count : Counts]

\* Every variable has its type; an account is enabled exactly when it has a passkey, and
\* there are none without the account.
TypeOK ==
    /\ account \in [exists : BOOLEAN, blocked : BOOLEAN, enabled : BOOLEAN]
    /\ keys \in [Credentials -> Counts \cup {None}]
    /\ reg \in drawn \cup {None} /\ auth \in drawn \cup {None} /\ drawn \subseteq Challenges
    /\ req \in [Requests -> Handlers]
    /\ accepted \subseteq Assertions /\ mixed \subseteq Credentials /\ left \subseteq drawn
    /\ account.enabled <=> Stored # {}
    /\ Stored # {} => account.exists

\* A sign-in about to be committed.
Accepts(r) == At(r, "login_verify", "commit")

\* A clone is caught: unless sign-ins with this credential overlapped, the counter of
\* the assertion is above that of every one accepted before, or neither counts
\* (passkey_login_verify and the counter it stores).
CloneIsCaughtAlone ==
    \A r \in Requests : Accepts(r) /\ req[r].cred \notin mixed =>
        \A a \in accepted : a.cred = req[r].cred =>
            a.count < req[r].count \/ (a.count = 0 /\ req[r].count = 0)

\* An assertion signs in once: unless sign-ins with its credential overlapped, or the
\* deletion of its challenge failed and its counter does not count
\* (passkey_login_verify, get to delete).
AssertionOnceAlone ==
    \A r \in Requests : Accepts(r) /\ Assertion(r) \in accepted =>
        req[r].cred \in mixed \/ (req[r].ch \in left /\ req[r].count = 0)
=============================================================================
