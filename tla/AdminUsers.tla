----------------------------- MODULE AdminUsers -----------------------------
(***************************************************************************)
(* Administrators: require_admin, blocking, roles and deletion of accounts, *)
(* and the sessions of the administrators themselves (login, device list,  *)
(* device logout, logout of all devices).  A step ends where a handler      *)
(* awaits.  An administrator's token is a JWT: require_admin asks the       *)
(* account row and never the session store, which the same token also has   *)
(* a row and a key in.  user and pro_user are treated alike here.           *)
(***************************************************************************)
EXTENDS Naturals, FiniteSets

CONSTANTS Accounts, \* accounts, administrators or not
          Supers,   \* those seeded as super administrators
          Tokens,   \* JWTs (bounds the logins)
          Requests, \* handlers in flight at the same time
          None      \* no account, no token

Assignable == {"user", "admin"}
Roles      == Assignable \cup {"super"}
Statuses   == {"active", "blocked"}
Rows       == [role : Roles, status : Statuses]

ASSUME AdminUsersAssumption ==
    Supers \subseteq Accounts /\ None \notin Accounts \cup Tokens \cup Rows

VARIABLES
  account,   \* account[a]: user_type and is_blocked of the row, or None
  jwt,       \* jwt[t]: the account t was signed for and its user_type claim, or None
  held,      \* tokens a login has answered with
  row,       \* row[t]: user_id of the refresh_token row with t's digest, or None
  cached,    \* tokens with a session:{digest} in Redis
  req,       \* req[r]: the handler in slot r
  ended      \* history: tokens that a logout reported ended which nobody overlapped
             \* and Redis did not fail

vars == <<account, jwt, held, row, cached, req, ended>>

tokens   == <<jwt, held>>
sessions == <<row, cached, ended>>

\* A request record: the caller as require_admin read it, the target as the handler
\* read it, the value to store, whether others have written that field of the target
\* (or the row of the token to log out) since the request began, whether it has had the
\* system to itself so far and Redis has not failed it, and the tokens a logout works on.
Idle == [op |-> "none", pc |-> "idle", tok |-> None, caller |-> None, crole |-> "none",
         target |-> None, loaded |-> "none", value |-> "none", touched |-> FALSE,
         alone |-> FALSE, seen |-> {}]

Init ==
    /\ account \in [Accounts -> [role : Roles, status : {"active"}]]
    /\ \A a \in Accounts : account[a].role = "super" <=> a \in Supers
    /\ jwt = [t \in Tokens |-> None] /\ held = {}
    /\ row = [t \in Tokens |-> None] /\ cached = {}
    /\ req = [r \in Requests |-> Idle]
    /\ ended = {}

-----------------------------------------------------------------------------
At(r, pc)      == req[r].pc = pc
Become(r, rec) == req' = [req EXCEPT ![r] = rec]
Goto(r, pc)    == Become(r, [req[r] EXCEPT !.pc = pc])
Finish(r)      == Become(r, Idle)

\* From now on nobody is alone but r, if nobody else is there.
Begin(r, rec) ==
    /\ At(r, "idle")
    /\ req' = [s \in Requests |->
                 IF s = r THEN [rec EXCEPT !.alone = \A q \in Requests : At(q, "idle")]
                          ELSE [req[s] EXCEPT !.alone = FALSE]]

\* UserType.is_admin_level.
AdminLevel(a) == account[a].role \in {"admin", "super"}

(* ------------------------------ admin_login ------------------------------ *)

\* create_access_token draws nothing at random: a login within the second of another
\* one of the account gets the same token, as long as the claims are the same.  Taken
\* here for logins in flight together.
Claim(a) == [sub |-> a, role |-> account[a].role]

Signs(a) ==
    {t \in Tokens : jwt[t] = None}
    \cup {req[s].tok : s \in {q \in Requests : req[q].op = "login" /\ jwt[req[q].tok] = Claim(a)}}

\* The password is right, the account an administrator's and not blocked.
StartLogin(r, a) ==
    /\ account[a] # None /\ AdminLevel(a) /\ account[a].status = "active"
    /\ \E t \in Signs(a) :
         /\ jwt' = [jwt EXCEPT ![t] = Claim(a)]
         /\ Begin(r, [Idle EXCEPT !.op = "login", !.pc = "insert", !.caller = a, !.tok = t])
    /\ UNCHANGED <<account, held, sessions>>

\* A row with this digest violates its unique key, a caller that is gone the foreign
\* key: either is a 500.  A logout that has found an earlier row of this token goes by
\* its id and will not delete the new one.
InsertRow(r) ==
    /\ At(r, "insert")
    /\ LET t == req[r].tok IN
         IF row[t] = None /\ account[req[r].caller] # None
           THEN /\ row' = [row EXCEPT ![t] = req[r].caller]
                /\ ended' = ended \ {t}
                /\ req' = [s \in Requests |->
                             IF s = r THEN [req[r] EXCEPT !.pc = "save"]
                             ELSE IF req[s].op = "logout" /\ t \in req[s].seen
                               THEN [req[s] EXCEPT !.touched = TRUE] ELSE req[s]]
           ELSE Finish(r) /\ UNCHANGED <<row, ended>>
    /\ UNCHANGED <<account, tokens, cached>>

\* Mutant: the user goes where the token should.
SaveSessionSwapped(r) ==
    /\ At(r, "save")
    /\ cached' = cached \cup {req[r].caller}
    /\ held' = held \cup {req[r].tok}
    /\ Finish(r)
    /\ UNCHANGED <<account, jwt, row, ended>>

\* save_session, which swallows a failure.
SaveSession(r) ==
    /\ At(r, "save")
    /\ cached' \in {cached, cached \cup {req[r].tok}}
    /\ held' = held \cup {req[r].tok}
    /\ Finish(r)
    /\ UNCHANGED <<account, jwt, row, ended>>

(* ----------------------------- require_admin ----------------------------- *)

\* Mutant: the user_type claim is believed.
AuthorizedByClaim(t) ==
    /\ t \in held
    /\ account[jwt[t].sub] # None
    /\ account[jwt[t].sub].status = "active"
    /\ jwt[t].role \in {"admin", "super"}

\* The account the token names, as its row is now.
Authorized(t) ==
    /\ t \in held
    /\ account[jwt[t].sub] # None
    /\ account[jwt[t].sub].status = "active"
    /\ AdminLevel(jwt[t].sub)

Caller(t, op, pc) ==
    LET a == jwt[t].sub
    IN  [Idle EXCEPT !.op = op, !.pc = pc, !.caller = a, !.crole = account[a].role]

(* -------------------------- other people's accounts ----------------------- *)

Changes == {"block", "unblock", "delete", "role"}

ValuesOf(op) == CASE op = "block"   -> {"blocked"}
                  [] op = "unblock" -> {"active"}
                  [] op = "role"    -> Assignable
                  [] op = "delete"  -> {"none"}
Field(op) == IF op = "role" THEN "role" ELSE "status"

\* What of the target's row still matters once it is loaded.
Loaded(op, target) == IF op = "delete" THEN "none" ELSE target[Field(op)]

\* What a handler asks before it reads the target: delete_user and change_user_role
\* spare the caller's own account, which block_user and unblock_user refuse later, the
\* row being the administrator's that require_admin has loaded; change_user_role is for
\* super administrators only.
MayTry(op, a, b) ==
    /\ a # b
    /\ op = "role" => account[a].role = "super"

\* What it asks of the target's row.  change_user_role has only the first conjunct, its
\* caller being a super administrator.
May(crole, target) ==
    /\ target.role # "super"
    /\ target.role = "admin" => crole = "super"

\* block_user, unblock_user, delete_user; change_user_role with an assignable role.
StartChange(r, t, op, b, value) ==
    /\ Authorized(t) /\ MayTry(op, jwt[t].sub, b)
    /\ Begin(r, [Caller(t, op, "load") EXCEPT !.target = b, !.value = value])
    /\ UNCHANGED <<account, tokens, sessions>>

\* 404 or 403 end the handler.  The values are kept in the ORM object.
LoadTarget(r) ==
    /\ At(r, "load")
    /\ LET target == account[req[r].target] IN
         IF target # None /\ May(req[r].crole, target)
           THEN Become(r, [req[r] EXCEPT !.pc = "commit", !.crole = "none",
                                         !.loaded = Loaded(req[r].op, target)])
           ELSE Finish(r)
    /\ UNCHANGED <<account, tokens, sessions>>

\* Everyone else at work on field f of account b learns that it was written.
Touch(r, b, f, rec) ==
    req' = [s \in Requests |->
              IF s = r THEN rec
              ELSE IF req[s].target = b /\ f \in {Field(req[s].op), "row"}
                     THEN [req[s] EXCEPT !.touched = TRUE] ELSE req[s]]

\* The request is done; what it was about is kept for AnsweredAsDone.
Done(r) == [req[r] EXCEPT !.pc = "answer", !.caller = None, !.loaded = "none", !.alone = FALSE]

\* Mutant: no commit.
CommitForgotten(r) ==
    /\ At(r, "commit") /\ req[r].op # "delete"
    /\ Become(r, Done(r))
    /\ UNCHANGED <<account, tokens, sessions>>

\* The UPDATE is emitted only when the value differs from the one loaded; an UPDATE of
\* a row that is gone is an error.
Commit(r) ==
    /\ At(r, "commit") /\ req[r].op # "delete"
    /\ LET b == req[r].target
           f == Field(req[r].op)
       IN  IF req[r].loaded = req[r].value THEN Become(r, Done(r)) /\ UNCHANGED account
           ELSE IF account[b] = None THEN Finish(r) /\ UNCHANGED account
           ELSE /\ account' = [account EXCEPT ![b][f] = req[r].value]
                /\ Touch(r, b, f, Done(r))
    /\ UNCHANGED <<tokens, sessions>>

Gone(b) ==
    /\ account' = [account EXCEPT ![b] = None]
    /\ row' = [t \in Tokens |-> IF row[t] = b THEN None ELSE row[t]]

\* The account and, by cascade, its rows; Redis keeps its keys.  That another
\* deletion came first is only a warning.
Delete(r) ==
    /\ At(r, "commit") /\ req[r].op = "delete"
    /\ Gone(req[r].target)
    /\ Touch(r, req[r].target, "row", Done(r))
    /\ UNCHANGED <<tokens, cached, ended>>

\* 200.
Answer(r) ==
    /\ At(r, "answer")
    /\ Finish(r)
    /\ UNCHANGED <<account, tokens, sessions>>

\* Mutant: super administrators may leave as well.
SelfDeleteAnyone(b) ==
    /\ account[b] # None
    /\ Gone(b)
    /\ req' = [s \in Requests |-> [req[s] EXCEPT !.alone = FALSE, !.touched = @ \/ req[s].target = b]]
    /\ cached' = {t \in cached : jwt[t].sub # b}
    /\ UNCHANGED <<tokens, ended>>

\* The owner deletes the account (auth.py), which super administrators cannot.  The
\* steps of it are in Sessions, Registration and TwoFactor.
SelfDelete(b) ==
    /\ account[b] # None /\ account[b].role # "super"
    /\ Gone(b)
    /\ req' = [s \in Requests |-> [req[s] EXCEPT !.alone = FALSE, !.touched = @ \/ req[s].target = b]]
    /\ cached' = {t \in cached : jwt[t].sub # b}
    /\ UNCHANGED <<tokens, ended>>

(* ------------------------------ own sessions ------------------------------ *)

StartDevices(r, t) ==
    /\ Authorized(t)
    /\ Begin(r, [Caller(t, "devices", "list") EXCEPT !.tok = t])
    /\ UNCHANGED <<account, tokens, sessions>>

\* admin_get_devices: the row of the current token is made when there is none.
ListDevices(r) ==
    /\ At(r, "list")
    /\ IF row[req[r].tok] = req[r].caller THEN Finish(r) ELSE Goto(r, "insert")
    /\ UNCHANGED <<account, tokens, sessions>>

\* admin_logout_device: the row is looked up (404 without it).
StartLogout(r, t, d) ==
    /\ Authorized(t) /\ row[d] = jwt[t].sub
    /\ Begin(r, [Caller(t, "logout", "drop") EXCEPT !.seen = {d}])
    /\ UNCHANGED <<account, tokens, sessions>>

StartLogoutAll(r, t) ==
    /\ Authorized(t)
    /\ Begin(r, [Caller(t, "logout_all", "drop") EXCEPT !.seen = {d \in Tokens : row[d] = jwt[t].sub}])
    /\ UNCHANGED <<account, tokens, sessions>>

\* One key less to delete, the last one of a device's logout.
KeyDone(r, d, alone) ==
    IF req[r].op = "logout" THEN Become(r, [req[r] EXCEPT !.pc = "drop_row", !.alone = alone])
                            ELSE Become(r, [req[r] EXCEPT !.seen = @ \ {d}, !.alone = alone])

\* delete_session_by_hash, once for each row found.
DropKey(r, d) ==
    /\ At(r, "drop") /\ d \in req[r].seen
    /\ cached' = cached \ {d}
    /\ KeyDone(r, d, req[r].alone)
    /\ UNCHANGED <<account, tokens, row, ended>>

\* It fails, which it swallows, or there is no Redis: the handler goes on, and the row
\* will go and the answer be 200 with the key still there.
KeepKey(r, d) ==
    /\ At(r, "drop") /\ d \in req[r].seen
    /\ KeyDone(r, d, FALSE)
    /\ UNCHANGED <<account, tokens, row, cached, ended>>

\* The row may be gone by now: 404.
DropRow(r) ==
    /\ At(r, "drop_row")
    /\ LET gone == {d \in req[r].seen : row[d] = req[r].caller /\ ~req[r].touched} IN
         /\ row' = [d \in Tokens |-> IF d \in gone THEN None ELSE row[d]]
         /\ ended' = IF req[r].alone THEN ended \cup gone ELSE ended
    /\ Finish(r)
    /\ UNCHANGED <<account, tokens, cached>>

\* Mutant: the rows are deleted, their keys left.
DropRowsOnly(r) ==
    /\ At(r, "drop") /\ req[r].op = "logout_all"
    /\ LET gone == {d \in Tokens : row[d] = req[r].caller} IN
         /\ row' = [d \in Tokens |-> IF d \in gone THEN None ELSE row[d]]
         /\ ended' = IF req[r].alone THEN ended \cup gone ELSE ended
    /\ Finish(r)
    /\ UNCHANGED <<account, tokens, cached>>

\* admin_logout_all_devices, once the keys are gone: all rows there are now.
DropRows(r) ==
    /\ At(r, "drop") /\ req[r].op = "logout_all" /\ req[r].seen = {}
    /\ LET gone == {d \in Tokens : row[d] = req[r].caller} IN
         /\ row' = [d \in Tokens |-> IF d \in gone THEN None ELSE row[d]]
         /\ ended' = IF req[r].alone THEN ended \cup gone ELSE ended
    /\ Finish(r)
    /\ UNCHANGED <<account, tokens, cached>>

\* A worker dies, or a statement raises: the handler ends where it is.
Crash(r) ==
    /\ ~At(r, "idle")
    /\ Finish(r)
    /\ UNCHANGED <<account, tokens, sessions>>

-----------------------------------------------------------------------------
Arrive(r) ==
    \/ \E a \in Accounts : StartLogin(r, a)
    \/ \E t \in Tokens : \/ StartDevices(r, t) \/ StartLogoutAll(r, t)
                         \/ \E d \in Tokens : StartLogout(r, t, d)
                         \/ \E b \in Accounts, op \in Changes : \E v \in ValuesOf(op) :
                              StartChange(r, t, op, b, v)

HandlerStep(r) ==
    \/ InsertRow(r) \/ SaveSession(r)
    \/ LoadTarget(r) \/ Commit(r) \/ Delete(r) \/ Answer(r)
    \/ ListDevices(r) \/ (\E d \in Tokens : DropKey(r, d) \/ KeepKey(r, d)) \/ DropRow(r) \/ DropRows(r)

Next ==
    \/ \E r \in Requests : Arrive(r) \/ HandlerStep(r) \/ Crash(r)
    \/ \E b \in Accounts : SelfDelete(b)

Spec == Init /\ [][Next]_vars

-----------------------------------------------------------------------------
(* Properties *)

Claims   == [sub : Accounts, role : Roles]
OpNames  == {"none", "login", "block", "unblock", "delete", "role", "devices", "logout", "logout_all"}
PCs      == {"idle", "insert", "save", "load", "commit", "answer", "list", "drop", "drop_row"}
Values   == Roles \cup Statuses \cup {"none"}
Handlers == [op : OpNames, pc : PCs, tok : Tokens \cup {None}, caller : Accounts \cup {None},
             crole : Roles \cup {"none"}, target : Accounts \cup {None},
             loaded : Values, value : Values, touched : BOOLEAN, alone : BOOLEAN,
             seen : SUBSET Tokens]

\* Every variable has its type.
TypeOK ==
    /\ account \in [Accounts -> Rows \cup {None}]
    /\ jwt \in [Tokens -> Claims \cup {None}] /\ held \subseteq Tokens
    /\ row \in [Tokens -> Accounts \cup {None}] /\ cached \subseteq Tokens
    /\ req \in [Requests -> Handlers]
    /\ ended \subseteq Tokens

\* Whatever administrators do to each other, and however their requests overlap, the
\* super administrators stay, unblocked, and are the only ones: somebody can always
\* undo what was done (delete_user, block_user, change_user_role, and the refusals
\* in auth.py).
SuperAdminStands ==
    /\ \A a \in Supers : account[a] = [role |-> "super", status |-> "active"]
    /\ \A a \in Accounts \ Supers : account[a] # None => account[a].role # "super"

\* Whoever changes or deletes the account of another, by a request that nobody
\* overlaps, is an unblocked administrator at that moment, and a super administrator
\* when the account is an administrator's: the token may be old, the account since
\* demoted, blocked or deleted (require_admin and the handlers' checks).
Outranked(r) ==
    LET a == account[req[r].caller]
        b == account[req[r].target]
    IN  /\ a # None /\ a.status = "active"
        /\ a.role = "super" \/ (a.role = "admin" /\ b # None /\ b.role = "user")

OutrankedAlone ==
    [][\A r \in Requests : req[r].alone /\ (Commit(r) \/ Delete(r)) /\ account' # account
          => Outranked(r)]_vars

\* A 200 of block, unblock, role or delete is true of the row when it is sent, unless
\* another request has written the same field since this one began.  The UPDATE that
\* was not emitted, because the value loaded was already the one wanted, does not
\* break that.
AnsweredAsDone ==
    \A r \in Requests : At(r, "answer") /\ ~req[r].touched =>
        IF req[r].op = "delete" THEN account[req[r].target] = None
        ELSE account[req[r].target] # None /\ account[req[r].target][Field(req[r].op)] = req[r].value

\* A token whose session ended with a logout that nobody overlapped, and whose keys
\* Redis did delete, is not in the session store, neither as a row nor as a key, until
\* a login or a device list puts it back (admin_logout_device,
\* admin_logout_all_devices).  Where Redis failed, the key outlives the 200.
EndedStaysOut == \A t \in ended : row[t] = None /\ t \notin cached
=============================================================================
