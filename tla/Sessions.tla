------------------------------ MODULE Sessions ------------------------------
(***************************************************************************)
(* Refresh-token sessions of the backend: the refresh_token rows in        *)
(* PostgreSQL, the session:{digest} keys and user_sessions:{uid} sets that *)
(* cache them in Redis, the handlers of several workers that create and    *)
(* revoke them, and the periodic cleanup.  Every await of a handler ends a *)
(* step, so handlers interleave between any two database or Redis calls.   *)
(***************************************************************************)
CONSTANTS Users,     \* account ids
          Tokens,    \* refresh tokens create_temp_token can draw (bounds the sign-ins)
          Requests,  \* handler slots: requests in flight at the same time
          Cleaners,  \* periodic_cleanup tasks, one per worker
          Ops,       \* the endpoints the clients of an instance call
          Faults,    \* "redis": Redis calls may fail; "crash": a worker may die
          None       \* no user

IssueOps == {"login", "verify_signup"}
SweepOps == {"logout_all", "delete_account"}
OpNames  == IssueOps \cup SweepOps \cup {"logout", "logout_device", "admin_delete"}

ASSUME SessionsAssumption == /\ Ops \subseteq OpNames
                             /\ Faults \subseteq {"redis", "crash"}
                             /\ None \notin Users \cup Tokens

VARIABLES
  account,  \* users whose account row exists
  owner,    \* owner[t]: the user t was drawn for, None while t is fresh
  row,      \* row[t]: user_id of t's refresh_token row, None without a row
  cache,    \* cache[t]: user_id in t's session hash, None without the key
  index,    \* index[u]: the digests in user_sessions:{u}
  aged,     \* tokens older than thirty days (row expired, key TTL elapsed)
  issued,   \* tokens a sign-in response has handed to a client
  req,      \* req[r]: the handler running in slot r
  cleaner,  \* cleaner[c]: the cleanup task of one worker
  revoked,  \* history: sessions a logout or device logout answered 200 for
  swept,    \* history: sessions clients held when a sign-out-everywhere answered 200
  uncleared,\* history: sessions whose delete in Redis failed and was only logged
  early,    \* history: sessions dropped from Redis by a device logout before their
            \* sign-in had saved them there
  unlisted, \* history: sessions saved while a sign-out-everywhere of their user was
            \* between reading the index and deleting it
  unswept   \* history: sessions a sign-out-everywhere left when Redis failed

db    == <<account, row>>
redis == <<cache, index>>
excused == <<uncleared, early, unlisted, unswept>>
ghost == <<revoked, swept, excused>>
vars  == <<account, owner, row, cache, index, aged, issued, req, cleaner, ghost>>

\* A request record: the endpoint, the next step, the caller's user id and
\* token, the digests the handler holds in a local, the sessions its success
\* response claims to have ended.
Idle == [op |-> "none", pc |-> "idle", user |-> None, tok |-> None, seen |-> {}, due |-> {}]

PCs == {"idle", "commit", "save", "auth_row", "sweep_rows", "members", "ttl", "clear",
        "erase", "pick", "drop_cached", "drop_row", "logout_row", "logout_read", "logout_clear"}

Init ==
    /\ account = Users
    /\ owner = [t \in Tokens |-> None]
    /\ row   = [t \in Tokens |-> None]
    /\ cache = [t \in Tokens |-> None]
    /\ index = [u \in Users |-> {}]
    /\ aged = {} /\ issued = {} /\ revoked = {} /\ swept = {}
    /\ uncleared = {} /\ early = {} /\ unlisted = {} /\ unswept = {}
    /\ req = [r \in Requests |-> Idle]
    /\ cleaner = [c \in Cleaners |-> [pc |-> "idle", seen |-> {}]]

-----------------------------------------------------------------------------
At(r, pc)      == req[r].pc = pc
Become(r, rec) == req' = [req EXCEPT ![r] = rec]
Goto(r, pc)    == Become(r, [req[r] EXCEPT !.pc = pc])
Finish(r)      == Become(r, Idle)

Without(f, S) == [t \in Tokens |-> IF t \in S THEN None ELSE f[t]]
Rows(u)       == {t \in Tokens : row[t] = u}
IssuedTo(u)   == {t \in issued : owner[t] = u}
RedisFails    == "redis" \in Faults

\* The sign-in that drew t is still under way.
SigningIn(t) == \E r \in Requests : req[r].pc \in {"commit", "save"} /\ req[r].tok = t

\* A sign-out-everywhere of u has read u's index and has not deleted it yet.
BeingSwept(u) == \E r \in Requests : req[r].pc \in {"ttl", "clear"} /\ req[r].user = u

\* The digests S leave the cache and the index of the user each row names.
Evicted(S) == /\ cache' = Without(cache, S)
              /\ index' = [u \in Users |-> index[u] \ {t \in S : owner[t] = u}]

(* ------------------------------ sign-in -------------------------------- *)

\* Mutant: the secret is not drawn at random, so a token comes up twice.
StartIssueTokenTwice(r, op, u, t) ==
    /\ op \in Ops \cap IssueOps /\ At(r, "idle")
    /\ u \in account
    /\ owner' = [owner EXCEPT ![t] = u]
    /\ Become(r, [Idle EXCEPT !.op = op, !.pc = "commit", !.user = u, !.tok = t])
    /\ UNCHANGED <<db, redis, aged, issued, cleaner, ghost>>

\* login, passkey_login_verify and verify_2fa find the account and draw a
\* token; which accounts pass their checks is left open.  verify_signup_email
\* has activated its account in an earlier commit.
StartIssue(r, op, u, t) ==
    /\ op \in Ops \cap IssueOps /\ At(r, "idle")
    /\ u \in account /\ owner[t] = None
    /\ owner' = [owner EXCEPT ![t] = u]
    /\ Become(r, [Idle EXCEPT !.op = op, !.pc = "commit", !.user = u, !.tok = t])
    /\ UNCHANGED <<db, redis, aged, issued, cleaner, ghost>>

\* The refresh_token row is committed; verify_signup_email answers at once and
\* never calls save_session.
CommitRow(r) ==
    /\ At(r, "commit") /\ req[r].user \in account
    /\ row' = [row EXCEPT ![req[r].tok] = req[r].user]
    /\ IF req[r].op = "verify_signup"
         THEN issued' = issued \cup {req[r].tok} /\ Finish(r)
         ELSE Goto(r, "save") /\ UNCHANGED issued
    /\ UNCHANGED <<account, owner, redis, aged, cleaner, ghost>>

\* The account is gone: the foreign key refuses the row and the handler ends in 500.
CommitRefused(r) ==
    /\ At(r, "commit") /\ req[r].user \notin account
    /\ Finish(r)
    /\ UNCHANGED <<db, owner, redis, aged, issued, cleaner, ghost>>

\* Mutant: the hash stores the digest where the user id belongs.
SaveSessionStoresDigest(r) ==
    /\ At(r, "save")
    /\ cache' = [cache EXCEPT ![req[r].tok] = req[r].tok]
    /\ index' = [index EXCEPT ![req[r].user] = @ \cup {req[r].tok}]
    /\ issued' = issued \cup {req[r].tok}
    /\ Finish(r)
    /\ UNCHANGED <<db, owner, aged, cleaner, ghost>>

\* save_session: one pipeline; a failure is logged and the token handed out anyway.
SaveSession(r) ==
    /\ At(r, "save")
    /\ \/ /\ cache' = [cache EXCEPT ![req[r].tok] = req[r].user]
          /\ index' = [index EXCEPT ![req[r].user] = @ \cup {req[r].tok}]
          /\ unlisted' = IF BeingSwept(req[r].user) THEN unlisted \cup {req[r].tok} ELSE unlisted
       \/ RedisFails /\ UNCHANGED <<redis, unlisted>>
    /\ issued' = issued \cup {req[r].tok}
    /\ Finish(r)
    /\ UNCHANGED <<db, owner, aged, cleaner, revoked, swept, uncleared, early, unswept>>

(* --------------------------- authentication ---------------------------- *)

FirstStep(op) == IF op = "logout_all" THEN "sweep_rows" ELSE "pick"

\* get_current_user_id: a cache hit is trusted without looking at the row.
StartCached(r, op, t) ==
    /\ op \in Ops \cap {"logout_all", "logout_device"} /\ At(r, "idle")
    /\ t \in issued /\ cache[t] # None
    /\ Become(r, [Idle EXCEPT !.op = op, !.pc = FirstStep(op), !.user = cache[t], !.tok = t])
    /\ UNCHANGED <<db, owner, redis, aged, issued, cleaner, ghost>>

\* A miss, or a failed call, falls back to the refresh_token row.
StartUncached(r, op, t) ==
    /\ op \in Ops \cap {"logout_all", "logout_device"} /\ At(r, "idle")
    /\ t \in issued /\ (cache[t] = None \/ RedisFails)
    /\ Become(r, [Idle EXCEPT !.op = op, !.pc = "auth_row", !.tok = t])
    /\ UNCHANGED <<db, owner, redis, aged, issued, cleaner, ghost>>

\* Mutant: a read-through cache, the row found is put back into Redis.
AuthRowRefillsCache(r) ==
    /\ At(r, "auth_row")
    /\ IF row[req[r].tok] = None
         THEN Finish(r) /\ UNCHANGED redis
         ELSE /\ Become(r, [req[r] EXCEPT !.pc = FirstStep(req[r].op), !.user = row[req[r].tok]])
              /\ cache' = [cache EXCEPT ![req[r].tok] = row[req[r].tok]]
              /\ index' = [index EXCEPT ![row[req[r].tok]] = @ \cup {req[r].tok}]
    /\ UNCHANGED <<db, owner, aged, issued, cleaner, ghost>>

\* The row decides; expire_at is not looked at.
AuthRow(r) ==
    /\ At(r, "auth_row")
    /\ IF row[req[r].tok] = None
         THEN Finish(r)
         ELSE Become(r, [req[r] EXCEPT !.pc = FirstStep(req[r].op), !.user = row[req[r].tok]])
    /\ UNCHANGED <<db, owner, redis, aged, issued, cleaner, ghost>>

(* ------------------------------- logout -------------------------------- *)

\* logout selects the row, with or without a cache hit first; no row is a 401.
StartLogout(r, t) ==
    /\ "logout" \in Ops /\ At(r, "idle")
    /\ t \in issued /\ row[t] # None
    /\ Become(r, [Idle EXCEPT !.op = "logout", !.pc = "logout_row", !.user = row[t], !.tok = t])
    /\ UNCHANGED <<db, owner, redis, aged, issued, cleaner, ghost>>

LogoutRow(r) ==
    /\ At(r, "logout_row")
    /\ row' = Without(row, {req[r].tok})
    /\ Goto(r, "logout_read")
    /\ UNCHANGED <<account, owner, redis, aged, issued, cleaner, ghost>>

Logout200(r) == /\ revoked' = revoked \cup {req[r].tok}
                /\ Finish(r)

\* delete_session reads the hash to learn whose index to clean.
LogoutRead(r) ==
    /\ At(r, "logout_read")
    /\ Become(r, [req[r] EXCEPT !.pc = "logout_clear", !.user = cache[req[r].tok]])
    /\ UNCHANGED <<db, owner, redis, aged, issued, cleaner, ghost>>

\* Mutant: the key is deleted only while the user's index still lists it.
LogoutClearIfIndexed(r) ==
    /\ At(r, "logout_clear")
    /\ IF \E u \in Users : req[r].tok \in index[u]
         THEN cache' = Without(cache, {req[r].tok}) ELSE UNCHANGED cache
    /\ index' = [u \in Users |-> IF u = req[r].user THEN index[u] \ {req[r].tok} ELSE index[u]]
    /\ Logout200(r)
    /\ UNCHANGED <<db, owner, aged, issued, cleaner, swept, excused>>

\* Mutant: only the index entry is removed.
LogoutClearIndexOnly(r) ==
    /\ At(r, "logout_clear")
    /\ index' = [u \in Users |-> IF u = req[r].user THEN index[u] \ {req[r].tok} ELSE index[u]]
    /\ Logout200(r)
    /\ UNCHANGED <<db, owner, cache, aged, issued, cleaner, swept, excused>>

LogoutClear(r) ==
    /\ At(r, "logout_clear")
    /\ cache' = Without(cache, {req[r].tok})
    /\ index' = [u \in Users |-> IF u = req[r].user THEN index[u] \ {req[r].tok} ELSE index[u]]
    /\ Logout200(r)
    /\ UNCHANGED <<db, owner, aged, issued, cleaner, swept, excused>>

\* Either Redis call of delete_session fails: logged, and the client still gets 200.
LogoutUncleared(r) ==
    /\ RedisFails
    /\ At(r, "logout_read") \/ At(r, "logout_clear")
    /\ Logout200(r)
    /\ uncleared' = uncleared \cup {req[r].tok}
    /\ UNCHANGED <<db, owner, redis, aged, issued, cleaner, swept, early, unlisted, unswept>>

(* ---------------------------- device logout ---------------------------- *)

\* Mutant: the session is looked up by its id alone.
PickDeviceOfAnyone(r, v) ==
    /\ At(r, "pick")
    /\ row[v] # None /\ v # req[r].tok
    /\ Become(r, [req[r] EXCEPT !.pc = "drop_cached", !.seen = {v}, !.due = {v}])
    /\ UNCHANGED <<db, owner, redis, aged, issued, cleaner, ghost>>

\* The session must be the caller's and not the one the request came with.
PickDevice(r, v) ==
    /\ At(r, "pick")
    /\ row[v] = req[r].user /\ v # req[r].tok
    /\ Become(r, [req[r] EXCEPT !.pc = "drop_cached", !.seen = {v}, !.due = {v}])
    /\ UNCHANGED <<db, owner, redis, aged, issued, cleaner, ghost>>

\* 404 for an unknown session id, 400 for the current device.
PickRefused(r) ==
    /\ At(r, "pick")
    /\ Finish(r)
    /\ UNCHANGED <<db, owner, redis, aged, issued, cleaner, ghost>>

\* delete_session_by_hash, before the row is deleted.  A login between its commit
\* and save_session has a row to pick and no key to drop yet.
DropCached(r) ==
    /\ At(r, "drop_cached")
    /\ \/ /\ cache' = Without(cache, req[r].seen)
          /\ index' = [index EXCEPT ![req[r].user] = @ \ req[r].seen]
          /\ early' = early \cup {t \in req[r].seen : SigningIn(t)}
          /\ UNCHANGED uncleared
       \/ /\ RedisFails
          /\ uncleared' = uncleared \cup req[r].seen
          /\ UNCHANGED <<redis, early>>
    /\ Goto(r, "drop_row")
    /\ UNCHANGED <<db, owner, aged, issued, cleaner, revoked, swept, unlisted, unswept>>

\* The DELETE names the user again; no row left is a 404.
DropRow(r) ==
    /\ At(r, "drop_row")
    /\ LET gone == req[r].seen \cap Rows(req[r].user) IN
         /\ row' = Without(row, gone)
         /\ revoked' = IF gone = {} THEN revoked ELSE revoked \cup req[r].due
    /\ Finish(r)
    /\ UNCHANGED <<account, owner, redis, aged, issued, cleaner, swept, excused>>

(* ------------------- sign-out everywhere, account deletion ------------- *)

\* logout_all_devices deletes and commits the rows first.
SweepRows(r) ==
    /\ At(r, "sweep_rows")
    /\ row' = Without(row, Rows(req[r].user))
    /\ Become(r, [req[r] EXCEPT !.pc = "members", !.due = IssuedTo(req[r].user)])
    /\ UNCHANGED <<account, owner, redis, aged, issued, cleaner, ghost>>

\* verify_delete_2fa and verify_delete_email: the temp token and the code have
\* been accepted, delete_all_user_sessions comes next.
StartDelete(r, u) ==
    /\ "delete_account" \in Ops /\ At(r, "idle") /\ u \in account
    /\ Become(r, [Idle EXCEPT !.op = "delete_account", !.pc = "members", !.user = u,
                              !.due = IssuedTo(u)])
    /\ UNCHANGED <<db, owner, redis, aged, issued, cleaner, ghost>>

\* What follows delete_all_user_sessions, whether or not it worked.
Swept200(r) == IF req[r].op = "logout_all"
                 THEN swept' = swept \cup req[r].due /\ Finish(r)
                 ELSE Goto(r, "erase") /\ UNCHANGED swept

\* smembers; an empty index ends delete_all_user_sessions.
Members(r) ==
    /\ At(r, "members")
    /\ IF index[req[r].user] = {}
         THEN Swept200(r)
         ELSE /\ Become(r, [req[r] EXCEPT !.pc = "ttl", !.seen = index[req[r].user]])
              /\ UNCHANGED swept
    /\ UNCHANGED <<db, owner, redis, aged, issued, cleaner, revoked, excused>>

\* Mutant: live and stale digests swapped.
TtlKeepsStale(r) ==
    /\ At(r, "ttl")
    /\ Become(r, [req[r] EXCEPT !.pc = "clear", !.seen = {t \in @ : cache[t] = None}])
    /\ UNCHANGED <<db, owner, redis, aged, issued, cleaner, ghost>>

\* The ttl pipeline keeps the digests whose session key still exists.
Ttl(r) ==
    /\ At(r, "ttl")
    /\ Become(r, [req[r] EXCEPT !.pc = "clear", !.seen = {t \in @ : cache[t] # None}])
    /\ UNCHANGED <<db, owner, redis, aged, issued, cleaner, ghost>>

\* The last pipeline deletes those keys and the whole index key.
Clear(r) ==
    /\ At(r, "clear")
    /\ cache' = Without(cache, req[r].seen)
    /\ index' = [index EXCEPT ![req[r].user] = {}]
    /\ Swept200(r)
    /\ UNCHANGED <<db, owner, aged, issued, cleaner, revoked, excused>>

\* Any of the three Redis calls fails: logged, and the handler goes on.
SweepFails(r) ==
    /\ RedisFails
    /\ At(r, "members") \/ At(r, "ttl") \/ At(r, "clear")
    /\ Swept200(r)
    /\ unswept' = unswept \cup req[r].due
    /\ UNCHANGED <<db, owner, redis, aged, issued, cleaner, revoked, uncleared, early, unlisted>>

\* The account row goes and its refresh_token rows cascade.
Erase(r) ==
    /\ At(r, "erase")
    /\ account' = account \ {req[r].user}
    /\ row' = Without(row, Rows(req[r].user))
    /\ swept' = swept \cup req[r].due
    /\ Finish(r)
    /\ UNCHANGED <<owner, redis, aged, issued, cleaner, revoked, excused>>

\* delete_user in the admin router: the same cascade and no Redis call.
AdminDelete(u) ==
    /\ "admin_delete" \in Ops /\ u \in account
    /\ account' = account \ {u}
    /\ row' = Without(row, Rows(u))
    /\ UNCHANGED <<owner, redis, aged, issued, req, cleaner, ghost>>

(* --------------------------- time and cleanup --------------------------- *)

\* Thirty days pass; no request lasts that long.
Age(t) ==
    /\ owner[t] # None /\ t \notin aged
    /\ \A r \in Requests : req[r].tok # t
    /\ aged' = aged \cup {t}
    /\ UNCHANGED <<db, owner, redis, issued, req, cleaner, ghost>>

\* Redis drops the session key at its TTL and leaves the index alone.
KeyExpires(t) ==
    /\ t \in aged /\ cache[t] # None
    /\ cache' = [cache EXCEPT ![t] = None]
    /\ UNCHANGED <<db, owner, index, aged, issued, req, cleaner, ghost>>

Expired == {t \in aged : row[t] # None}

\* Mutant: the rows to clean are found through the cache, which misses the
\* sessions verify_signup_email never cached.
CleanSelectCached(c) ==
    LET cached == {t \in Expired : cache[t] # None} IN
    /\ cleaner[c].pc = "idle" /\ cached # {}
    /\ cleaner' = [cleaner EXCEPT ![c] = [pc |-> "redis", seen |-> cached]]
    /\ UNCHANGED <<db, owner, redis, aged, issued, req, ghost>>

\* cleanup_expired_refresh_tokens: a worker without Redis goes straight to the DELETE.
CleanSelect(c) ==
    /\ cleaner[c].pc = "idle" /\ Expired # {}
    /\ \/ cleaner' = [cleaner EXCEPT ![c] = [pc |-> "redis", seen |-> Expired]]
       \/ RedisFails /\ cleaner' = [cleaner EXCEPT ![c] = [pc |-> "rows", seen |-> Expired]]
    /\ UNCHANGED <<db, owner, redis, aged, issued, req, ghost>>

CleanRedis(c) ==
    /\ cleaner[c].pc = "redis"
    /\ Evicted(cleaner[c].seen)
    /\ cleaner' = [cleaner EXCEPT ![c].pc = "rows"]
    /\ UNCHANGED <<db, owner, aged, issued, req, ghost>>

\* Mutant: the round that fails puts the keys it may have deleted back.
CleanAbortsRestores(c) ==
    /\ RedisFails /\ cleaner[c].pc = "redis"
    /\ cache' = [t \in Tokens |-> IF t \in cleaner[c].seen THEN owner[t] ELSE cache[t]]
    /\ cleaner' = [cleaner EXCEPT ![c] = [pc |-> "idle", seen |-> {}]]
    /\ UNCHANGED <<db, owner, index, aged, issued, req, ghost>>

\* A failed pipeline, executed or not, aborts this round of the cleanup.
CleanAborts(c) ==
    /\ RedisFails /\ cleaner[c].pc = "redis"
    /\ Evicted(cleaner[c].seen) \/ UNCHANGED redis
    /\ cleaner' = [cleaner EXCEPT ![c] = [pc |-> "idle", seen |-> {}]]
    /\ UNCHANGED <<db, owner, aged, issued, req, ghost>>

CleanRows(c) ==
    /\ cleaner[c].pc = "rows"
    /\ row' = Without(row, cleaner[c].seen)
    /\ cleaner' = [cleaner EXCEPT ![c] = [pc |-> "idle", seen |-> {}]]
    /\ UNCHANGED <<account, owner, redis, aged, issued, req, ghost>>

\* The worker dies: what a handler or a cleanup had done stays, nobody is answered.
Crash(r) ==
    /\ "crash" \in Faults /\ ~At(r, "idle")
    /\ Finish(r)
    /\ UNCHANGED <<db, owner, redis, aged, issued, cleaner, ghost>>

CleanerDies(c) ==
    /\ "crash" \in Faults /\ cleaner[c].pc # "idle"
    /\ cleaner' = [cleaner EXCEPT ![c] = [pc |-> "idle", seen |-> {}]]
    /\ UNCHANGED <<db, owner, redis, aged, issued, req, ghost>>

-----------------------------------------------------------------------------
\* The steps a handler takes once it runs.
HandlerStep(r) ==
    \/ CommitRow(r) \/ CommitRefused(r) \/ SaveSession(r) \/ AuthRow(r)
    \/ LogoutRow(r) \/ LogoutRead(r) \/ LogoutClear(r) \/ LogoutUncleared(r)
    \/ \E v \in Tokens : PickDevice(r, v)
    \/ PickRefused(r) \/ DropCached(r) \/ DropRow(r)
    \/ SweepRows(r) \/ Members(r) \/ Ttl(r) \/ Clear(r) \/ SweepFails(r) \/ Erase(r)

\* A client calls an endpoint.
Arrive(r) ==
    \/ \E op \in IssueOps, u \in Users, t \in Tokens : StartIssue(r, op, u, t)
    \/ \E op \in {"logout_all", "logout_device"}, t \in Tokens :
           StartCached(r, op, t) \/ StartUncached(r, op, t)
    \/ \E t \in Tokens : StartLogout(r, t)
    \/ \E u \in Users : StartDelete(r, u)

CleanerStep(c) == CleanSelect(c) \/ CleanRedis(c) \/ CleanAborts(c) \/ CleanRows(c)

Next ==
    \/ \E r \in Requests : Arrive(r) \/ HandlerStep(r) \/ Crash(r)
    \/ \E u \in Users : AdminDelete(u)
    \/ \E t \in Tokens : Age(t) \/ KeyExpires(t)
    \/ \E c \in Cleaners : CleanerStep(c) \/ CleanerDies(c)

Spec == Init /\ [][Next]_vars

\* The event loop runs every handler to its end, the clock and the Redis TTLs
\* advance, and the hourly cleanup comes round again; clients need not call.
Fairness ==
    /\ \A r \in Requests : WF_vars(HandlerStep(r))
    /\ \A t \in Tokens : WF_vars(Age(t)) /\ WF_vars(KeyExpires(t))
    /\ \A c \in Cleaners : WF_vars(CleanerStep(c))

FairSpec == Spec /\ Fairness

-----------------------------------------------------------------------------
(* Properties *)

RequestRecords == [op : OpNames \cup {"none"}, pc : PCs, user : Users \cup {None},
                   tok : Tokens \cup {None}, seen : SUBSET Tokens, due : SUBSET Tokens]

\* Every variable has its type.
TypeOK ==
    /\ account \subseteq Users
    /\ owner \in [Tokens -> Users \cup {None}]
    /\ row \in [Tokens -> Users \cup {None}]
    /\ cache \in [Tokens -> Users \cup {None}]
    /\ index \in [Users -> SUBSET Tokens]
    /\ aged \subseteq Tokens /\ issued \subseteq Tokens
    /\ revoked \subseteq Tokens /\ swept \subseteq Tokens
    /\ uncleared \subseteq Tokens /\ early \subseteq Tokens
    /\ unlisted \subseteq Tokens /\ unswept \subseteq Tokens
    /\ req \in [Requests -> RequestRecords]
    /\ cleaner \in [Cleaners -> [pc : {"idle", "redis", "rows"}, seen : SUBSET Tokens]]

\* The database and the cache never disagree on whose session a token is, an
\* index lists its own user's tokens only, and a handler acts for the user its
\* token was drawn for, on that user's sessions: get_current_user_id may trust
\* a cache hit without reading the row.
OwnerAgreement ==
    /\ \A t \in Tokens : row[t] \in {None, owner[t]} /\ cache[t] \in {None, owner[t]}
    /\ \A u \in Users : \A t \in index[u] : owner[t] = u
    /\ \A r \in Requests :
          /\ req[r].user # None /\ req[r].tok # None => owner[req[r].tok] = req[r].user
          /\ \A t \in req[r].seen : owner[t] = req[r].user

\* Would get_current_user_id accept t now?
Usable(t) == row[t] # None \/ cache[t] # None

\* A session its holder logged out, or that another device of the user logged
\* out, is never accepted again, however the handlers interleave and whatever
\* crashes.  Two cases are exempt: Redis failed to delete it, or its sign-in had
\* not saved it yet when the device logout deleted its key (logout, logout_device).
RevokedStaysOut == \A t \in revoked \ (uncleared \cup early) : ~Usable(t)

\* After a sign-out-everywhere answers, no session a client held when it began
\* is accepted, whatever overlaps, fails or crashes (logout_all_devices, account
\* deletion).  Exempt are the sessions it left because Redis failed, and those
\* that were saved into an index another one had read and then deleted whole.
SweptStaysOut == \A t \in swept \ (unswept \cup unlisted) : ~Usable(t)

\* Between requests every cached session has its row and is in its user's index,
\* so every session a client can use can be logged out, listed and swept.
CachedIsBacked ==
    ((\A r \in Requests : At(r, "idle")) /\ (\A c \in Cleaners : cleaner[c].pc = "idle")) =>
        \A t \in Tokens : cache[t] # None => row[t] = cache[t] /\ t \in index[cache[t]]

\* A session young enough to live ends only by a step taken for its own user or
\* with its account: no handler, however late, ends another user's session.
OwnSessionsOnly ==
    [][\A t \in Tokens \ aged :
          (row[t] # None /\ row'[t] = None) \/ (cache[t] # None /\ cache'[t] = None) =>
              \/ owner[t] \notin account'
              \/ \E r \in Requests : req[r] # req'[r] /\ (req[r].user = owner[t] \/ req[r].tok = t)]_vars

\* A token past its thirty days is eventually refused.
ExpiredSessionDies == \A t \in Tokens : t \in aged ~> ~Usable(t)

\* A token is live while it is usable or its sign-in is still under way.
Status == [t \in Tokens |-> IF owner[t] = None THEN "fresh"
                            ELSE IF Usable(t) \/ SigningIn(t) THEN "live" ELSE "dead"]

Contract == INSTANCE SessionContract WITH status <- Status, holder <- owner

\* The handlers implement the contract of SessionContract: whatever the order of
\* the steps, the failures of Redis and the crashes, a dead token stays dead.
ImplementsContract == Contract!Spec
=============================================================================
