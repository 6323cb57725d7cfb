---------------------------- MODULE Registration ----------------------------
(***************************************************************************)
(* The account of one e-mail address and its temp tokens: signup and its   *)
(* verification, resends, password reset and deletion by e-mail.  Accounts *)
(* of different addresses share nothing here.  A step ends where a handler *)
(* awaits, so handlers for the address interleave.                         *)
(***************************************************************************)
EXTENDS Naturals, FiniteSets

CONSTANTS Temps,     \* temp tokens create_temp_token can draw (bounds the flows begun)
          Requests,  \* handlers in flight at the same time
          MaxCodes,  \* bounds the codes drawn per temp token
          MaxResends,\* bounds the codes drawn for all of them beyond the first
          MaxIds,    \* bounds the accounts created for the address
          Ops,       \* the endpoints called
          None       \* no token

\* reset stands for reset_password and admin_reset_password, confirm for the
\* handlers that set the new password.
IssueOps  == {"signup", "reset", "delete"}
ResendOps == {"resend", "admin_resend"}
OpNames   == IssueOps \cup ResendOps \cup {"verify", "confirm", "delete_verify"}

ASSUME RegistrationAssumption == /\ Ops \subseteq OpNames /\ None \notin Temps
                                 /\ MaxCodes \in Nat \ {0} /\ MaxResends \in Nat /\ MaxIds \in Nat

VARIABLES
  account,    \* the account row; id 0: there is none
  lastId,     \* the sequence behind account.user_id
  temp,       \* temp[k]: the temp_token row of k; young: created_at is less than a
              \* minute old, expired: expire_at has passed; uid 0: there is none
  kind,       \* kind[k]: the endpoint that drew k, "none" while k is fresh
  codes,      \* codes[k]: how many verification codes were drawn for k
  mailed,     \* mailed[k]: those of them that reached the mailbox
  held,       \* tokens a response has handed to a client
  req,        \* req[r]: the handler in slot r
  disturbed,  \* history: two handlers have overlapped, or a worker has died
  unmailed,   \* history: tokens for which an e-mail was not sent
  used        \* history: tokens whose code was accepted and acted upon

vars == <<account, lastId, temp, kind, codes, mailed, held, req,
          disturbed, unmailed, used>>

\* A password is named by the temp token of the request that chose it.
NoAccount == [id |-> 0, verified |-> FALSE, profile |-> FALSE, pw |-> None]
NoRow     == [uid |-> 0, type |-> "none", code |-> 0, young |-> FALSE, expired |-> FALSE]
Idle      == [op |-> "none", pc |-> "idle", tok |-> None, uid |-> 0, code |-> 0,
              profile |-> FALSE, doomed |-> {}]

Init ==
    /\ account = NoAccount /\ lastId = 0
    /\ temp = [k \in Temps |-> NoRow]
    /\ held = {} /\ unmailed = {} /\ used = {}
    /\ kind = [k \in Temps |-> "none"]
    /\ codes = [k \in Temps |-> 0]
    /\ mailed = [k \in Temps |-> {}]
    /\ req = [r \in Requests |-> Idle]
    /\ disturbed = FALSE

-----------------------------------------------------------------------------
At(r, pc)      == req[r].pc = pc
Become(r, rec) == req' = [req EXCEPT ![r] = rec]
Goto(r, pc)    == Become(r, [req[r] EXCEPT !.pc = pc])
Finish(r)      == Become(r, Idle)
Exists(k)      == temp[k].uid # 0
Present(u)     == u # 0 /\ account.id = u

\* A handler starts in slot r.
Begin(r, rec) ==
    /\ rec.op \in Ops /\ At(r, "idle") /\ Become(r, rec)
    /\ disturbed' = (disturbed \/ \E s \in Requests : ~At(s, "idle"))

\* The rows S of temp_token are deleted.
Dropped(S) == [k \in Temps |-> IF k \in S THEN NoRow ELSE temp[k]]

TypeOfOp(op) == CASE op = "signup" -> "email_verify"
                  [] op = "reset"  -> "password_reset"
                  [] op = "delete" -> "delete_account"

data  == <<account, lastId, temp>>
drawn == <<kind, codes>>
post  == <<mailed, held, unmailed>>

(* --------------- signup, reset request, deletion request ---------------- *)

\* Mutant: a verified account may register again.
StartSignupAgain(r, k) ==
    /\ kind[k] = "none"
    /\ Begin(r, [Idle EXCEPT !.op = "signup", !.pc = "register", !.tok = k, !.uid = account.id])
    /\ kind' = [kind EXCEPT ![k] = "signup"]
    /\ UNCHANGED <<data, codes, post, used>>

\* signup looks the address up; a verified account is a 409.  The token is
\* random, so it is drawn here rather than after the first commit.
StartSignup(r, k) ==
    /\ kind[k] = "none" /\ ~account.verified
    /\ Begin(r, [Idle EXCEPT !.op = "signup", !.pc = "register", !.tok = k, !.uid = account.id])
    /\ kind' = [kind EXCEPT ![k] = "signup"]
    /\ UNCHANGED <<data, codes, post, used>>

\* A new account; the unique e-mail refuses a second one (500).
CreateAccount(r) ==
    /\ At(r, "register") /\ req[r].uid = 0
    /\ IF account.id = 0
         THEN /\ lastId < MaxIds
              /\ lastId' = lastId + 1
              /\ account' = [NoAccount EXCEPT !.id = lastId + 1, !.pw = req[r].tok]
              /\ Become(r, [req[r] EXCEPT !.pc = "insert", !.uid = lastId + 1])
         ELSE Finish(r) /\ UNCHANGED <<account, lastId>>
    /\ UNCHANGED <<temp, drawn, post, used, disturbed>>

\* An unverified account takes new credentials.  The DELETE of its verification
\* tokens reaches the rows committed so far, and is committed with the UPDATE: a
\* token inserted in between survives.
DropOldTokens(r) ==
    /\ At(r, "register") /\ req[r].uid # 0
    /\ Become(r, [req[r] EXCEPT !.pc = "reregister",
          !.doomed = {k \in Temps : temp[k].uid = req[r].uid /\ temp[k].type = "email_verify"}])
    /\ UNCHANGED <<data, drawn, post, used, disturbed>>

\* Mutant: registering again starts over with an unverified account.
ReRegisterUnverifies(r) ==
    /\ At(r, "reregister")
    /\ IF Present(req[r].uid)
         THEN /\ account' = [account EXCEPT !.pw = req[r].tok, !.verified = FALSE]
              /\ temp' = Dropped(req[r].doomed)
              /\ Become(r, [req[r] EXCEPT !.pc = "insert", !.doomed = {}])
         ELSE Finish(r) /\ UNCHANGED <<account, temp>>
    /\ UNCHANGED <<lastId, drawn, post, used, disturbed>>

\* Mutant: the old verification tokens are left behind.
ReRegisterKeepsTokens(r) ==
    /\ At(r, "reregister")
    /\ IF Present(req[r].uid)
         THEN /\ account' = [account EXCEPT !.pw = req[r].tok]
              /\ Become(r, [req[r] EXCEPT !.pc = "insert", !.doomed = {}])
         ELSE Finish(r) /\ UNCHANGED account
    /\ UNCHANGED <<lastId, temp, drawn, post, used, disturbed>>

\* The commit.  The UPDATE names the columns that changed and does not look at
\* email_verified again; a vanished row is a 500 that deletes nothing.
ReRegister(r) ==
    /\ At(r, "reregister")
    /\ IF Present(req[r].uid)
         THEN /\ account' = [account EXCEPT !.pw = req[r].tok]
              /\ temp' = Dropped(req[r].doomed)
              /\ Become(r, [req[r] EXCEPT !.pc = "insert", !.doomed = {}])
         ELSE Finish(r) /\ UNCHANGED <<account, temp>>
    /\ UNCHANGED <<lastId, drawn, post, used, disturbed>>

\* reset_password asks for an account only, verified or not; delete_account for
\* a session, which verified accounts have.
StartIssue(r, op, k) ==
    /\ op \in {"reset", "delete"} /\ kind[k] = "none"
    /\ account.id # 0 /\ (op = "delete" => account.verified)
    /\ Begin(r, [Idle EXCEPT !.op = op, !.pc = "insert", !.tok = k, !.uid = account.id])
    /\ kind' = [kind EXCEPT ![k] = op]
    /\ UNCHANGED <<data, codes, post, used>>

\* Mutant: the row is typed by the endpoint instead of its TokenType.
InsertTokenOfEndpoint(r) ==
    /\ At(r, "insert")
    /\ LET k == req[r].tok IN
         IF Present(req[r].uid)
           THEN /\ temp' = [temp EXCEPT ![k] = [uid |-> req[r].uid, type |-> req[r].op,
                                                code |-> 1, young |-> TRUE, expired |-> FALSE]]
                /\ codes' = [codes EXCEPT ![k] = 1]
                /\ Become(r, [req[r] EXCEPT !.pc = "mail", !.code = 1])
           ELSE Finish(r) /\ UNCHANGED <<temp, codes>>
    /\ UNCHANGED <<account, lastId, kind, post, used, disturbed>>

\* The temp_token row with its first code; without the account the foreign key
\* refuses it (500).
InsertToken(r) ==
    /\ At(r, "insert")
    /\ LET k == req[r].tok IN
         IF Present(req[r].uid)
           THEN /\ temp' = [temp EXCEPT ![k] = [uid |-> req[r].uid, type |-> TypeOfOp(req[r].op),
                                                code |-> 1, young |-> TRUE, expired |-> FALSE]]
                /\ codes' = [codes EXCEPT ![k] = 1]
                /\ Become(r, [req[r] EXCEPT !.pc = "mail", !.code = 1])
           ELSE Finish(r) /\ UNCHANGED <<temp, codes>>
    /\ UNCHANGED <<account, lastId, kind, post, used, disturbed>>

\* What follows the mail.  signup and reset answer with the token either way;
\* delete_account takes the token back when nothing was sent.
AfterMail(r, sent) ==
    CASE req[r].op \in ResendOps -> Goto(r, "store") /\ UNCHANGED held
      [] req[r].op = "delete" /\ ~sent -> Goto(r, "retract") /\ UNCHANGED held
      [] OTHER -> Finish(r) /\ held' = held \cup {req[r].tok}

\* send_verification_email
Mail(r) ==
    /\ At(r, "mail")
    /\ mailed' = [mailed EXCEPT ![req[r].tok] = @ \cup {req[r].code}]
    /\ AfterMail(r, TRUE)
    /\ UNCHANGED <<data, drawn, unmailed, used, disturbed>>

\* It returns False when the server cannot be reached: logged.
MailFails(r) ==
    /\ At(r, "mail")
    /\ unmailed' = unmailed \cup {req[r].tok}
    /\ AfterMail(r, FALSE)
    /\ UNCHANGED <<data, drawn, mailed, used, disturbed>>

Retract(r) ==
    /\ At(r, "retract")
    /\ temp' = Dropped({req[r].tok})
    /\ Finish(r)
    /\ UNCHANGED <<account, lastId, drawn, post, used, disturbed>>

(* ------------------------------- resend --------------------------------- *)

\* A client offers k; an expired or deleted row, or another type, is a 401.
Presents(k, type) == k \in held /\ temp[k].type = type /\ ~temp[k].expired

\* The codes drawn for resends so far.
Resends == Cardinality({c \in Temps \X (2..MaxCodes) : c[2] <= codes[c[1]]})

\* resend_signup_code, resend_reset_code and admin_reset_resend: at most one a
\* minute, by created_at.
StartResend(r, op, k) ==
    /\ op \in ResendOps
    /\ Presents(k, "password_reset") \/ (op = "resend" /\ Presents(k, "email_verify"))
    /\ ~temp[k].young /\ codes[k] < MaxCodes /\ Resends < MaxResends
    /\ codes' = [codes EXCEPT ![k] = @ + 1]
    /\ Begin(r, [Idle EXCEPT !.op = op, !.pc = "mail", !.tok = k, !.code = codes[k] + 1])
    /\ UNCHANGED <<data, kind, post, used>>

\* Mutant: a code is drawn for the mail and another one for the row.
StoreCodeDrawsAgain(r) ==
    /\ At(r, "store")
    /\ LET k == req[r].tok IN
         IF Exists(k)
           THEN /\ temp' = [temp EXCEPT ![k].code = codes[k] + 1, ![k].young = @ \/ req[r].op = "resend"]
                /\ codes' = [codes EXCEPT ![k] = @ + 1]
           ELSE UNCHANGED <<temp, codes>>
    /\ Finish(r)
    /\ UNCHANGED <<account, lastId, kind, post, used, disturbed>>

\* The mailed code replaces the stored one, whether or not the mail went out;
\* only the admin handler leaves created_at alone.  A vanished row is a 500.
StoreCode(r) ==
    /\ At(r, "store")
    /\ LET k == req[r].tok IN
         IF Exists(k)
           THEN temp' = [temp EXCEPT ![k].code = req[r].code,
                                     ![k].young = @ \/ req[r].op = "resend"]
           ELSE UNCHANGED temp
    /\ Finish(r)
    /\ UNCHANGED <<account, lastId, drawn, post, used, disturbed>>

(* ------------------------- acting upon a code ---------------------------- *)

\* A code the client was mailed equals the stored one; a wrong one is a 401.
Proves(k, type) == Presents(k, type) /\ temp[k].code \in mailed[k]

StartVerify(r, k) ==
    /\ Proves(k, "email_verify")
    /\ Begin(r, [Idle EXCEPT !.op = "verify", !.pc = "load", !.tok = k, !.uid = temp[k].uid])
    /\ UNCHANGED <<data, drawn, post, used>>

\* Mutant: the profile is taken to exist, as if signup had created it.
LoadUserNoProfile(r) ==
    /\ At(r, "load")
    /\ IF Present(req[r].uid)
         THEN Become(r, [req[r] EXCEPT !.pc = "activate", !.profile = TRUE])
         ELSE Finish(r)
    /\ UNCHANGED <<data, drawn, post, used, disturbed>>

\* The account is loaded together with its profile; none is a 404.
LoadUser(r) ==
    /\ At(r, "load")
    /\ IF Present(req[r].uid)
         THEN Become(r, [req[r] EXCEPT !.pc = "activate", !.profile = account.profile])
         ELSE Finish(r)
    /\ UNCHANGED <<data, drawn, post, used, disturbed>>

\* Mutant: the token outlives its use.
ActivateKeepsToken(r) ==
    /\ At(r, "activate")
    /\ IF Present(req[r].uid) /\ (req[r].profile \/ ~account.profile)
         THEN /\ account' = [account EXCEPT !.verified = TRUE,
                                            !.profile = account.profile \/ ~req[r].profile]
              /\ used' = used \cup {req[r].tok}
         ELSE UNCHANGED <<account, used>>
    /\ Finish(r)
    /\ UNCHANGED <<lastId, temp, drawn, post, disturbed>>

\* One commit sets email_verified, inserts the profile that was missing and
\* deletes the token, gone or not.  A second profile violates its primary key,
\* and an account that vanished fails the UPDATE or the refresh: both 500.
Activate(r) ==
    /\ At(r, "activate")
    /\ IF Present(req[r].uid) /\ (req[r].profile \/ ~account.profile)
         THEN /\ account' = [account EXCEPT !.verified = TRUE,
                                            !.profile = account.profile \/ ~req[r].profile]
              /\ temp' = Dropped({req[r].tok})
              /\ used' = used \cup {req[r].tok}
         ELSE UNCHANGED <<account, temp, used>>
    /\ Finish(r)
    /\ UNCHANGED <<lastId, drawn, post, disturbed>>

StartConfirm(r, k) ==
    /\ Proves(k, "password_reset")
    /\ Begin(r, [Idle EXCEPT !.op = "confirm", !.pc = "set_password", !.tok = k,
                             !.uid = temp[k].uid])
    /\ UNCHANGED <<data, drawn, post, used>>

\* The new password and the end of the token; email_verified is not looked at.
SetPassword(r) ==
    /\ At(r, "set_password")
    /\ IF Present(req[r].uid)
         THEN /\ account' = [account EXCEPT !.pw = req[r].tok]
              /\ temp' = Dropped({req[r].tok})
              /\ used' = used \cup {req[r].tok}
         ELSE UNCHANGED <<account, temp, used>>
    /\ Finish(r)
    /\ UNCHANGED <<lastId, drawn, post, disturbed>>

StartDeleteVerify(r, k) ==
    /\ Proves(k, "delete_account")
    /\ Begin(r, [Idle EXCEPT !.op = "delete_verify", !.pc = "erase", !.tok = k, !.uid = temp[k].uid])
    /\ UNCHANGED <<data, drawn, post, used>>

\* The account goes and everything that refers to it cascades; deleting an
\* account that is gone already succeeds as well.
Erase(r) ==
    /\ At(r, "erase")
    /\ IF Present(req[r].uid)
         THEN /\ account' = NoAccount
              /\ temp' = Dropped({k \in Temps : temp[k].uid = req[r].uid})
         ELSE UNCHANGED <<account, temp>>
    /\ used' = used \cup {req[r].tok}
    /\ Finish(r)
    /\ UNCHANGED <<lastId, drawn, post, disturbed>>

(* --------------------------- time and cleanup ---------------------------- *)

Busy(k) == \E r \in Requests : req[r].tok = k

\* A minute passes for k; no request lasts that long.
Minute(k) ==
    /\ Exists(k) /\ ~Busy(k) /\ temp[k].young
    /\ temp' = [temp EXCEPT ![k].young = FALSE]
    /\ UNCHANGED <<account, lastId, drawn, post, req, disturbed, used>>

\* Five minutes pass, possibly while a handler that found k valid is under way.
Expire(k) ==
    /\ Exists(k) /\ ~temp[k].expired
    /\ temp' = [temp EXCEPT ![k].expired = TRUE]
    /\ UNCHANGED <<account, lastId, drawn, post, req, disturbed, used>>

Expired == {k \in Temps : temp[k].expired}

\* A handler offered an expired token deletes its row and answers 401.
RefuseExpired(k) ==
    /\ k \in held \cap Expired
    /\ temp' = Dropped({k})
    /\ UNCHANGED <<account, lastId, drawn, post, req, disturbed, used>>

\* cleanup_expired_temp_tokens
CleanTemps ==
    /\ Expired # {}
    /\ temp' = Dropped(Expired)
    /\ UNCHANGED <<account, lastId, drawn, post, req, disturbed, used>>

\* A worker dies: what its handler committed or mailed stays, nobody is answered.
Crash(r) ==
    /\ ~At(r, "idle")
    /\ Finish(r)
    /\ disturbed' = TRUE
    /\ unmailed' = IF At(r, "mail") THEN unmailed \cup {req[r].tok} ELSE unmailed
    /\ UNCHANGED <<data, drawn, mailed, held, used>>

-----------------------------------------------------------------------------
HandlerStep(r) ==
    \/ CreateAccount(r) \/ DropOldTokens(r) \/ ReRegister(r) \/ InsertToken(r)
    \/ Mail(r) \/ MailFails(r) \/ Retract(r) \/ StoreCode(r)
    \/ LoadUser(r) \/ Activate(r) \/ SetPassword(r) \/ Erase(r)

Arrive(r, k) ==
    \/ StartSignup(r, k) \/ \E op \in {"reset", "delete"} : StartIssue(r, op, k)
    \/ \E op \in ResendOps : StartResend(r, op, k)
    \/ StartVerify(r, k) \/ StartConfirm(r, k) \/ StartDeleteVerify(r, k)

Next ==
    \/ \E r \in Requests : HandlerStep(r) \/ Crash(r) \/ \E k \in Temps : Arrive(r, k)
    \/ \E k \in Temps : Minute(k) \/ Expire(k) \/ RefuseExpired(k)
    \/ CleanTemps

Spec == Init /\ [][Next]_vars

-----------------------------------------------------------------------------
(* Properties *)

Types == {"email_verify", "password_reset", "delete_account"}
PCs   == {"idle", "register", "reregister", "insert", "mail", "retract", "store", "load",
          "activate", "set_password", "erase"}

Accounts == [id : 0..MaxIds, verified : BOOLEAN, profile : BOOLEAN, pw : Temps \cup {None}]
Rows     == [uid : 0..MaxIds, type : Types \cup {"none"}, code : 0..MaxCodes,
             young : BOOLEAN, expired : BOOLEAN]
Handlers == [op : OpNames \cup {"none"}, pc : PCs, tok : Temps \cup {None},
             uid : 0..MaxIds, code : 0..MaxCodes, profile : BOOLEAN, doomed : SUBSET Temps]

\* Every variable has its type.
TypeOK ==
    /\ account \in Accounts /\ lastId \in 0..MaxIds
    /\ temp \in [Temps -> Rows]
    /\ held \subseteq Temps /\ unmailed \subseteq Temps /\ used \subseteq Temps
    /\ kind \in [Temps -> IssueOps \cup {"none"}]
    /\ codes \in [Temps -> 0..MaxCodes]
    /\ mailed \in [Temps -> SUBSET (0..MaxCodes)]
    /\ req \in [Requests -> Handlers]
    /\ disturbed \in BOOLEAN

\* Every account that can log in has its user_profile row, which the profile
\* endpoints read, and every stored token belongs to the account there is.
RowsComplete ==
    /\ account.verified => account.profile
    /\ \A k \in Temps : Exists(k) => temp[k].uid = account.id

\* When nobody works on a token, the code in its row is one that was mailed,
\* unless a mail was not sent: resends that overlap, or that die between mailing
\* and storing, never lock the client out.
StoredCodeWasMailed ==
    \A k \in Temps \ unmailed : Exists(k) /\ ~Busy(k) => temp[k].code \in mailed[k]

\* A token whose code was accepted is gone, whatever resends were under way.
UsedTokenIsGone == \A k \in used : ~Exists(k)

Phase == IF account.id = 0 THEN "none" ELSE IF account.verified THEN "active" ELSE "pending"

Lifecycle == INSTANCE AccountLifecycle WITH id <- lastId, phase <- Phase

\* The handlers implement AccountLifecycle: a verified account never becomes
\* unverified again, and a deleted one is not activated by a late verification.
FollowsLifecycle == Lifecycle!Spec

\* Signup never touches a verified account: its password changes by a reset only
\* (signup: "Already verified account - cannot re-register").
VerifiedChange == account.verified /\ account'.verified /\ account'.pw # account.pw
                      => kind[account'.pw] = "reset"

VerifiedIsFinal == [][VerifiedChange]_vars

\* The same as long as requests for the address come one at a time and no
\* worker dies.
VerifiedIsFinalAlone == [][~disturbed => VerifiedChange]_vars

\* One at a time, a verification activates the password it was requested with,
\* or one that was reset since, never that of another signup.
ActivatesItsOwnPassword ==
    [][~disturbed /\ ~account.verified /\ account'.verified =>
          \/ account.pw \in used' \ used
          \/ kind[account.pw] = "reset"]_vars
=============================================================================
