------------------------------ MODULE TwoFactor ------------------------------
(***************************************************************************)
(* Two-factor authentication of one account: enrolment of an authenticator *)
(* through Redis, its codes and their replay keys, backup codes, sign-in,  *)
(* switching off, regeneration, deletion of the account by code.  A step   *)
(* ends where a handler awaits; transactions are READ COMMITTED, so a      *)
(* DELETE sees the rows committed when it starts and then waits for the    *)
(* transactions that have locked them.                                     *)
(***************************************************************************)
EXTENDS Naturals, FiniteSets

CONSTANTS Draws,      \* what setup and regeneration draw at random: d names a secret
                      \* and a batch of backup codes (bounds the calls of both)
          Challenges, \* 2fa_verify temp tokens (bounds those alive at the same time)
          Requests,   \* handlers in flight at the same time
          MaxClock,   \* bounds the clock, in TOTP steps of thirty seconds
          Steps,      \* the steps whose code a client ever presents
          None        \* no draw, no challenge

ASSUME TwoFactorAssumption ==
    /\ MaxClock \in Nat \ {0} /\ Steps \subseteq Nat
    /\ IsFiniteSet(Requests)
    /\ None \notin Draws \cup Challenges

VARIABLES
  account,   \* the account row: does it exist, is_2fa_enabled, totp_secret_encrypted
  codes,     \* totp_backup_code rows, one for each batch of eight
  pending,   \* 2fa_setup:{uid} in Redis: the draw of the set-up under way
  replay,    \* totp_used:{uid}:{code} in Redis: the code and when it was set
  clock,     \* the present TOTP step
  challenge, \* the 2fa_verify temp tokens alive
  drawn,     \* draws taken so far
  req,       \* req[r]: the handler in slot r
  proven,    \* history: secrets of which a code was accepted
  accepted,  \* history: TOTP codes accepted
  twice,     \* history: TOTP codes accepted again while still valid
  disturbed  \* history: two handlers have overlapped, or one has died

vars == <<account, codes, pending, replay, clock, challenge, drawn, req,
          proven, accepted, twice, disturbed>>

store == <<account, codes>>
past  == <<proven, accepted, twice>>

\* A request record: the secret a handler has in hand, the step of the TOTP code
\* it was given, the draw it made, the backup-code rows it works on, its challenge.
Idle == [op |-> "none", pc |-> "idle", secret |-> None, step |-> 0, draw |-> None,
         seen |-> {}, ch |-> None]

Off == [exists |-> TRUE, enabled |-> FALSE, secret |-> None]

Init ==
    /\ account = Off /\ codes = {} /\ pending = None /\ replay = {} /\ clock = 1
    /\ challenge = {} /\ drawn = {}
    /\ req = [r \in Requests |-> Idle]
    /\ proven = {} /\ accepted = {} /\ twice = {}
    /\ disturbed = FALSE

-----------------------------------------------------------------------------
At(r, pc)      == req[r].pc = pc
Become(r, rec) == req' = [req EXCEPT ![r] = rec]
Goto(r, pc)    == Become(r, [req[r] EXCEPT !.pc = pc])
Finish(r)      == Become(r, Idle)

Begin(r, rec) ==
    /\ At(r, "idle") /\ Become(r, rec)
    /\ disturbed' = (disturbed \/ \E s \in Requests : ~At(s, "idle"))

Ids(S)  == {c.id : c \in S}
InMind  == UNION {req[r].seen : r \in Requests}

\* A row for batch d.  spent is history: its code has signed in while no other
\* request had read the row.  Ids come from a sequence, so the id of a row that is gone is
\* taken again only when no handler remembers it.
NewRow(d, S) == LET taken == Ids(S) \cup InMind
                    id    == CHOOSE n \in 1..Cardinality(taken) + 1 : n \notin taken
                IN  [id |-> id, batch |-> d, used |-> FALSE, spent |-> FALSE]

Inserted(d, S) == S \cup {NewRow(d, S)}
Without(S)     == {c \in codes : c.id \notin S}

\* Another transaction has locked a row with an id in S.
Locked(r, S) == \E s \in Requests \ {r} : At(s, "commit") /\ req[s].seen \cap S \cap Ids(codes) # {}

(* ------------------------------ enrolment ------------------------------- *)

\* setup_2fa: 409 when two-factor is on.
StartSetup(r, d) ==
    /\ account.exists /\ ~account.enabled /\ d \notin drawn
    /\ Begin(r, [Idle EXCEPT !.op = "setup", !.pc = "store", !.draw = d])
    /\ drawn' = drawn \cup {d}
    /\ UNCHANGED <<store, pending, replay, clock, challenge, past>>

\* The draw replaces whatever set-up was pending; the client is shown both the
\* secret and the backup codes.
StoreSetup(r) ==
    /\ At(r, "store")
    /\ pending' = req[r].draw
    /\ Finish(r)
    /\ UNCHANGED <<store, replay, clock, challenge, drawn, past, disturbed>>

StartConfirm(r) ==
    /\ account.exists /\ ~account.enabled
    /\ Begin(r, [Idle EXCEPT !.op = "confirm", !.pc = "get_setup"])
    /\ UNCHANGED <<store, pending, replay, clock, challenge, drawn, past>>

\* Mutant: an expired set-up is not noticed.
GetSetupUnchecked(r) ==
    /\ At(r, "get_setup")
    /\ Become(r, [req[r] EXCEPT !.pc = "prove", !.secret = pending])
    /\ UNCHANGED <<store, pending, replay, clock, challenge, drawn, past, disturbed>>

\* The secret and its codes are kept in locals; without a set-up, 400.
GetSetup(r) ==
    /\ At(r, "get_setup")
    /\ IF pending = None THEN Finish(r)
                         ELSE Become(r, [req[r] EXCEPT !.pc = "prove", !.secret = pending])
    /\ UNCHANGED <<store, pending, replay, clock, challenge, drawn, past, disturbed>>

\* Mutant: the pending set-up is read again when it is stored.
EnableRereads(r) ==
    /\ At(r, "enable")
    /\ IF account.exists /\ pending # None
         THEN /\ account' = [account EXCEPT !.enabled = TRUE, !.secret = pending]
              /\ codes' = Inserted(pending, codes)
              /\ Goto(r, "drop_setup")
         ELSE Finish(r) /\ UNCHANGED store
    /\ UNCHANGED <<pending, replay, clock, challenge, drawn, past, disturbed>>

\* One commit: secret, flag and backup codes; whether another confirmation came
\* first is not looked at again.
Enable(r) ==
    /\ At(r, "enable")
    /\ IF account.exists
         THEN /\ account' = [account EXCEPT !.enabled = TRUE, !.secret = req[r].secret]
              /\ codes' = Inserted(req[r].secret, codes)
              /\ Goto(r, "drop_setup")
         ELSE Finish(r) /\ UNCHANGED store
    /\ UNCHANGED <<pending, replay, clock, challenge, drawn, past, disturbed>>

DropSetup(r) ==
    /\ At(r, "drop_setup")
    /\ pending' = None
    /\ Finish(r)
    /\ UNCHANGED <<store, replay, clock, challenge, drawn, past, disturbed>>

(* ---------------------------- TOTP codes -------------------------------- *)

AfterCode(op) == CASE op = "confirm"    -> "enable"
                   [] op = "verify"     -> "sign_in"
                   [] op = "regenerate" -> "wipe"
                   [] op = "delete"     -> "erase"

\* verify_totp_code: the code of step n, one step of tolerance either way.
Valid(n) == n <= clock + 1 /\ clock <= n + 1

\* check_totp_replay's SET NX EX 90: three steps.
KeySteps == 3

\* Mutant: the key lives as long as one code, not as long as it is valid.
LiveOneStep(k, now) == now < k.at + 1

Live(k, now) == now < k.at + KeySteps

\* A client whose authenticator holds the secret presents the code of step n.
Check(r, n) ==
    /\ At(r, "prove") /\ Valid(n)
    /\ Become(r, [req[r] EXCEPT !.pc = "mark", !.step = n])
    /\ UNCHANGED <<store, pending, replay, clock, challenge, drawn, past, disturbed>>

\* SET NX: a code whose replay key exists is refused.
Mark(r) ==
    /\ At(r, "mark")
    /\ LET code == <<req[r].secret, req[r].step>> IN
         IF \E k \in replay : k.code = code
           THEN Finish(r) /\ UNCHANGED <<replay, past>>
           ELSE /\ replay' = replay \cup {[code |-> code, at |-> clock]}
                /\ proven' = proven \cup {req[r].secret}
                /\ accepted' = accepted \cup {code}
                /\ twice' = IF Valid(req[r].step) THEN twice \cup ({code} \cap accepted) ELSE twice
                /\ Become(r, [req[r] EXCEPT !.pc = AfterCode(req[r].op), !.step = 0])
    /\ UNCHANGED <<store, pending, clock, challenge, drawn, disturbed>>

\* Neither a valid TOTP code nor a backup code.
WrongCode(r) ==
    /\ At(r, "prove")
    /\ Finish(r)
    /\ UNCHANGED <<store, pending, replay, clock, challenge, drawn, past, disturbed>>

\* verify_2fa and verify_delete_2fa read an unused row the code belongs to.
PickCode(r, c) ==
    /\ At(r, "prove") /\ req[r].op \in {"verify", "delete"}
    /\ c \in codes /\ ~c.used
    /\ Become(r, [req[r] EXCEPT !.pc = AfterCode(req[r].op), !.seen = {c.id}])
    /\ UNCHANGED <<store, pending, replay, clock, challenge, drawn, past, disturbed>>

(* ------------------------------- sign-in -------------------------------- *)

\* login checks the password; with two-factor on it goes on to a challenge.  Its
\* read and its commit are one step: nothing in between depends on the new row.
Login(l) ==
    /\ account.exists /\ account.enabled
    /\ l \notin challenge /\ \A s \in Requests : req[s].ch # l
    /\ challenge' = challenge \cup {l}
    /\ UNCHANGED <<store, pending, replay, clock, drawn, req, past, disturbed>>

StartVerify(r, l) ==
    /\ l \in challenge
    /\ Begin(r, [Idle EXCEPT !.op = "verify", !.pc = "load", !.ch = l])
    /\ UNCHANGED <<store, pending, replay, clock, challenge, drawn, past>>

\* An account without two-factor gives up the challenge.
LoadUser(r) ==
    /\ At(r, "load")
    /\ IF account.exists /\ account.enabled /\ account.secret # None
         THEN /\ Become(r, [req[r] EXCEPT !.pc = "prove", !.secret = account.secret])
              /\ UNCHANGED challenge
         ELSE Finish(r) /\ challenge' = challenge \ {req[r].ch}
    /\ UNCHANGED <<store, pending, replay, clock, drawn, past, disturbed>>

\* The row a sign-in with a backup code has read, as it is now.
Offered(r) == {c \in codes : c.id \in req[r].seen}

\* Another request has read the row c, to sign in or to delete the account.
Contended(r, c) ==
    \E s \in Requests \ {r} : req[s].op \in {"verify", "delete"} /\ c.id \in req[s].seen

\* Mutant: is_used is not set.
SignInLeavesCode(r) ==
    /\ At(r, "sign_in") /\ ~Locked(r, req[r].seen)
    /\ IF account.exists /\ req[r].seen \subseteq Ids(codes)
         THEN /\ codes' = Without(req[r].seen) \cup
                      {[c EXCEPT !.spent = @ \/ ~Contended(r, c)] : c \in Offered(r)}
              /\ challenge' = challenge \ {req[r].ch}
         ELSE UNCHANGED <<codes, challenge>>
    /\ Finish(r)
    /\ UNCHANGED <<account, pending, replay, clock, drawn, past, disturbed>>

\* One commit: the session, the end of the challenge and is_used on the row that
\* was read; that it was still unused is not looked at again, but a row that
\* is gone fails the UPDATE (500).
SignIn(r) ==
    /\ At(r, "sign_in") /\ ~Locked(r, req[r].seen)
    /\ IF account.exists /\ req[r].seen \subseteq Ids(codes)
         THEN /\ codes' = Without(req[r].seen) \cup
                      {[c EXCEPT !.used = TRUE, !.spent = @ \/ ~Contended(r, c)] : c \in Offered(r)}
              /\ challenge' = challenge \ {req[r].ch}
         ELSE UNCHANGED <<codes, challenge>>
    /\ Finish(r)
    /\ UNCHANGED <<account, pending, replay, clock, drawn, past, disturbed>>

\* Five minutes after the login; the row is deleted when offered or cleaned up.
ChallengeExpires(l) ==
    /\ l \in challenge
    /\ challenge' = challenge \ {l}
    /\ UNCHANGED <<store, pending, replay, clock, drawn, req, past, disturbed>>

(* -------------------- switching off, new backup codes -------------------- *)

\* disable_2fa: the password is right.
StartDisable(r) ==
    /\ account.exists /\ account.enabled
    /\ Begin(r, [Idle EXCEPT !.op = "disable", !.pc = "wipe"])
    /\ UNCHANGED <<store, pending, replay, clock, challenge, drawn, past>>

StartRegenerate(r, d) ==
    /\ account.exists /\ account.enabled /\ account.secret # None /\ d \notin drawn
    /\ Begin(r, [Idle EXCEPT !.op = "regenerate", !.pc = "prove", !.secret = account.secret, !.draw = d])
    /\ drawn' = drawn \cup {d}
    /\ UNCHANGED <<store, pending, replay, clock, challenge, past>>

\* The DELETE of all backup codes starts: it will delete the rows it sees now.
Wipe(r) ==
    /\ At(r, "wipe")
    /\ Become(r, [req[r] EXCEPT !.pc = "lock", !.seen = Ids(codes)])
    /\ UNCHANGED <<store, pending, replay, clock, challenge, drawn, past, disturbed>>

Lock(r) ==
    /\ At(r, "lock") /\ ~Locked(r, req[r].seen)
    /\ Goto(r, "commit")
    /\ UNCHANGED <<store, pending, replay, clock, challenge, drawn, past, disturbed>>

\* Mutant: the secret stays behind.
DisableKeepsSecret(r) ==
    /\ At(r, "commit") /\ req[r].op = "disable"
    /\ IF account.exists
         THEN account' = [account EXCEPT !.enabled = FALSE] /\ codes' = Without(req[r].seen)
         ELSE UNCHANGED store
    /\ Finish(r)
    /\ UNCHANGED <<pending, replay, clock, challenge, drawn, past, disturbed>>

\* Mutant: the backup codes stay behind.
DisableKeepsCodes(r) ==
    /\ At(r, "commit") /\ req[r].op = "disable"
    /\ account' = IF account.exists THEN Off ELSE account
    /\ Finish(r)
    /\ UNCHANGED <<codes, pending, replay, clock, challenge, drawn, past, disturbed>>

Disable(r) ==
    /\ At(r, "commit") /\ req[r].op = "disable"
    /\ IF account.exists
         THEN /\ account' = [account EXCEPT !.enabled = FALSE, !.secret = None]
              /\ codes' = Without(req[r].seen)
         ELSE UNCHANGED store
    /\ Finish(r)
    /\ UNCHANGED <<pending, replay, clock, challenge, drawn, past, disturbed>>

\* The new batch is inserted in the same transaction; whether two-factor is
\* still on is not looked at again.
Replace(r) ==
    /\ At(r, "commit") /\ req[r].op = "regenerate"
    /\ IF account.exists
         THEN codes' = Inserted(req[r].draw, Without(req[r].seen))
         ELSE UNCHANGED codes
    /\ Finish(r)
    /\ UNCHANGED <<account, pending, replay, clock, challenge, drawn, past, disturbed>>

(* --------------------------- account deletion --------------------------- *)

\* verify_delete_2fa, its temp token accepted.
StartDelete(r) ==
    /\ account.exists /\ account.enabled /\ account.secret # None
    /\ Begin(r, [Idle EXCEPT !.op = "delete", !.pc = "prove", !.secret = account.secret])
    /\ UNCHANGED <<store, pending, replay, clock, challenge, drawn, past>>

\* The account goes with its backup codes and challenges; Redis keeps its keys.
Erase(r) ==
    /\ At(r, "erase")
    /\ ~Locked(r, Ids(codes))
    /\ account' = [Off EXCEPT !.exists = FALSE]
    /\ codes' = {}
    /\ challenge' = {}
    /\ Finish(r)
    /\ UNCHANGED <<pending, replay, clock, drawn, past, disturbed>>

(* ------------------------------- time, faults --------------------------- *)

\* Thirty seconds pass; a replay key is gone as soon as it may be.
Tick ==
    /\ clock < MaxClock
    /\ clock' = clock + 1
    /\ replay' = {k \in replay : Live(k, clock + 1)}
    /\ UNCHANGED <<store, pending, challenge, drawn, req, past, disturbed>>

\* Five minutes after the set-up.
SetupExpires ==
    /\ pending # None
    /\ pending' = None
    /\ UNCHANGED <<store, replay, clock, challenge, drawn, req, past, disturbed>>

\* A worker dies, or a Redis call raises: the handler ends where it is.
Crash(r) ==
    /\ ~At(r, "idle")
    /\ Finish(r)
    /\ disturbed' = TRUE
    /\ UNCHANGED <<store, pending, replay, clock, challenge, drawn, past>>

-----------------------------------------------------------------------------
Arrive(r) ==
    \/ \E d \in Draws : StartSetup(r, d) \/ StartRegenerate(r, d)
    \/ StartConfirm(r) \/ StartDisable(r) \/ StartDelete(r)
    \/ \E l \in Challenges : StartVerify(r, l)

HandlerStep(r) ==
    \/ StoreSetup(r) \/ GetSetup(r) \/ Enable(r) \/ DropSetup(r)
    \/ \E n \in Steps : Check(r, n)
    \/ Mark(r) \/ WrongCode(r) \/ \E c \in codes : PickCode(r, c)
    \/ LoadUser(r) \/ SignIn(r)
    \/ Wipe(r) \/ Lock(r) \/ Disable(r) \/ Replace(r) \/ Erase(r)

Next ==
    \/ \E r \in Requests : Arrive(r) \/ HandlerStep(r) \/ Crash(r)
    \/ \E l \in Challenges : Login(l) \/ ChallengeExpires(l)
    \/ Tick \/ SetupExpires

Spec == Init /\ [][Next]_vars

-----------------------------------------------------------------------------
(* Properties *)

PCs == {"idle", "store", "get_setup", "prove", "mark", "enable", "drop_setup", "load",
        "sign_in", "wipe", "lock", "commit", "erase"}
OpNames == {"none", "setup", "confirm", "verify", "disable", "regenerate", "delete"}

Accounts == [exists : BOOLEAN, enabled : BOOLEAN, secret : Draws \cup {None}]
Rows     == [id : Nat, batch : Draws, used : BOOLEAN, spent : BOOLEAN]
Handlers == [op : OpNames, pc : PCs, secret : Draws \cup {None}, step : Steps \cup {0},
             draw : Draws \cup {None}, seen : SUBSET Nat, ch : Challenges \cup {None}]

TOTPs == Draws \X Steps

\* Every variable has its type.
TypeOK ==
    /\ account \in Accounts /\ codes \subseteq Rows
    /\ pending \in Draws \cup {None}
    /\ replay \subseteq [code : TOTPs, at : 0..MaxClock]
    /\ clock \in 0..MaxClock
    /\ challenge \subseteq Challenges /\ drawn \subseteq Draws /\ proven \subseteq drawn
    /\ req \in [Requests -> Handlers]
    /\ accepted \subseteq TOTPs /\ twice \subseteq TOTPs
    /\ disturbed \in BOOLEAN

\* The flag and the secret agree, whatever overlaps (models.py: the secret is
\* "not null if 2FA is enabled"), so decrypt_secret never meets a null.
SecretIffEnabled == account.enabled <=> account.secret # None

\* Nobody is locked out: the secret stored is one whose code the client showed,
\* even when set-ups and confirmations overlap (confirm_2fa).
ProvenSecret == account.enabled => account.secret \in proven

\* No TOTP code is accepted again while it is valid, across confirmation, sign-in,
\* regeneration and deletion: the replay key outlives the code (check_totp_replay).
TotpOnce == twice = {}

\* A stored backup code signs in once (README: "one-time backup codes"), whatever
\* overlaps or dies: no request gets hold of one that has signed in.  Excepted are
\* requests that had both read the row before either committed; and two
\* confirmations of one set-up store its codes twice.
BackupCodeOnce ==
    \A r \in Requests : At(r, "sign_in") \/ At(r, "erase") => \A c \in Offered(r) : ~c.spent

\* While requests do not overlap and none dies, there is one batch of backup codes
\* exactly while two-factor is on, between requests.
OneBatchAlone ==
    ~disturbed /\ (\A r \in Requests : At(r, "idle")) =>
        Cardinality(codes) = IF account.enabled THEN 1 ELSE 0
=============================================================================
