# A TLA+ model of the U-Finder backend

The backend is a FastAPI application (`src/app/main.py`, `src/src/`) on
PostgreSQL and Redis.  It runs as several uvicorn workers (`WORKERS` in
`docker-compose.yml`, 2 by default in production), each an asyncio event loop:
a handler runs undisturbed up to its next `await`, and at every `await` on the
database, Redis or the mail server any other handler of any worker may run.
Transactions are READ COMMITTED; sessions use `autoflush=False` and
`expire_on_commit=False`, so an ORM object keeps the values it was loaded with
until the handler ends.  What is hard in this code is exactly that: values read
before an `await` and acted upon after it, state kept twice (rows in PostgreSQL,
keys in Redis) and changed in two steps, and failures that are logged and
passed over.

## 1. Components

| Component | State | Operations | Hard behaviour | What makes it correct |
|---|---|---|---|---|
| Sessions: `utils/session_utils.py`, `utils/auth_deps.py`, the session part of `routers/auth.py` | `refresh_token` rows; Redis hashes `session:{digest}`; Redis sets `user_sessions:{uid}` | login, authentication, logout, logout-all, device logout, account deletion, admin delete | row, hash and index change in separate steps; cache hits are trusted; Redis errors are logged and ignored | one owner per token everywhere; a revoked token stays revoked; sign-out-everywhere is complete; expired tokens die |
| Cleanup: `utils/cleanup.py`, `periodic_cleanup` | none of its own | hourly deletion of expired rows and their keys | runs in every worker at once; a failing pipeline aborts a round half way | never revives or removes a live session |
| Registration and reset: `routers/auth.py`, the reset endpoints of `routers/admin.py` | `account`, `user_profile`, `temp_token` rows | signup, resend, verify, reset, confirm, delete by e-mail | two commits per signup; mail between two commits; check-then-act on rate limit and verification | the account lifecycle; the code in the row is one the user holds; a token is used once |
| Two-factor: `routers/two_factor.py`, `utils/totp_utils.py`, the `2fa` endpoints of `routers/admin.py` | `account.is_2fa_enabled`, secret, `totp_backup_code` rows; Redis `2fa_setup:`, `totp_used:` | setup, confirm, verify, disable, regenerate | overlapping confirms, one-time codes, replay window | a code is accepted once; the stored secret was proven |
| Passkeys: `routers/passkey.py` | `passkey` rows, `account.passkey_enabled`; Redis challenges | registration, sign-in | challenge read, verified and deleted in three steps, with a commit between | a challenge serves one ceremony; a clone is caught |
| Administrators: `routers/admin.py` | `account.user_type`, `is_blocked`, JWTs, their `refresh_token` rows and keys | block, unblock, role, delete, admin login, devices, logouts | authorisation read before the write it guards; a JWT that any logout leaves valid | super administrators stand; nobody acts on those above; a 200 is true |
| Profile, avatar: `routers/profile.py` | `user_profile` columns; files | writing all, personal data or one section; upload and removal of an avatar | rows written from what was read earlier; files one by one on a disk that workers share | no section is lost; an avatar's files are of one image |
| University, likes: `services/university_service.py`, `routers/profile.py` | `university_program`, `user_liked_university` | deduplicating check, like, unlike | check-then-insert; unique URL, names that are not | one program per URL; stable units; likes stand |
| Chat, CV parsing: `routers/chat.py`, `services/dify_service.py` | no table; the connection and the exchange a request holds | stream, stop, feedback, rename, delete, lists, CV | a pool of connections held by streams; lost answers; errors after the first frame; clients that leave | answers are true, streams faithful, nothing stays held, every request ends |
| Billing, dashboard, logs, mail, Turnstile, settings | none | read-only or external | none | not modelled |

Handlers interact only through PostgreSQL, Redis, the avatar directory and, within a
worker, the connection pool.  Authentication
(`get_current_user_id`) joins every user endpoint to the session store;
verification (`_verify_signup_email_impl`), `passkey_login_verify` and
`verify_2fa` end in the same "insert row, commit, save session" tail as `login`;
deleting an account cascades to all tables.

## 2. Modules

| Module | Contents |
|---|---|
| `SessionContract` | what a refresh token promises: fresh, live, dead, never back, one holder |
| `Sessions` | the session store, its handlers and the cleanup, step by step; refines `SessionContract` |
| `SessionsProofs` | TLAPS proofs about `Sessions` |
| `AccountLifecycle` | what one address's account goes through: none, pending, active, none |
| `Registration` | the account and temp tokens of one address; refines `AccountLifecycle` |
| `RegistrationProofs` | TLAPS proofs about `Registration` |
| `TwoFactor` | two-factor authentication of one account: enrolment, codes, sign-in, switching off |
| `TwoFactorProofs` | TLAPS proofs about `TwoFactor` |
| `AdminUsers` | administrators acting on accounts, and their own sessions |
| `AdminUsersProofs` | TLAPS proofs about `AdminUsers` |
| `Passkey` | the passkeys of one account |
| `PasskeyProofs` | TLAPS proofs about `Passkey` |
| `University` | the deduplicated programs and the likes |
| `UniversityProofs` | TLAPS proofs about `University` |
| `Profile` | the profile row and the avatar directory of one user |
| `ProfileProofs` | TLAPS proofs about `Profile` |
| `Chat` | requests of one worker that are passed on to Dify |
| `ChatProofs` | TLAPS proofs about `Chat` |
| `MCSessions`, `MCRegistration`, `MCTwoFactor`, `MCAdminUsers`, `MCPasskey`, `MCUniversity`, `MCProfile`, `MCChat` | model values, sample data and symmetry for TLC |

A definition whose comment starts with "Mutant:" is a deliberate slip of the one
that follows it; no specification uses it.  It shows that a property can fail:
with the body of the real definition replaced by the mutant, TLC finds the property
violated.

### Sessions

State and code: `account` and `row` are the `account` and `refresh_token` tables
(`row[t]` is the row's `user_id`); `cache[t]` is the hash `session:{digest}`,
`index[u]` the set `user_sessions:{u}`; `aged` holds the tokens past thirty days;
`issued` those a response has handed out.  A token and its HMAC digest are
one value, since the digest is deterministic and the token random.  `req[r]` is a
handler: its endpoint, the step it is about to take, the caller's id and token,
the digests kept in a local variable (`seen`) and the sessions its 200 claims
to have ended (`due`).  The rest is history, which guards nothing.  `revoked` and
`swept` are the sessions that clients were told have ended: by a logout or a device
logout, and by a sign-out-everywhere (those that a client held when it began).  Four
sets name the sessions for which the code does not keep that word: `uncleared` and
`unswept`, which Redis failed to delete for a logout and for a sign-out-everywhere;
`early`, whose key a device logout deleted before their sign-in had written it; and
`unlisted`, saved into an index that a sign-out-everywhere had read and was about to
delete.

Every `await` of a handler ends an action.  `login` is
`StartIssue; CommitRow; SaveSession`; `logout` is
`StartLogout; LogoutRow; LogoutRead; LogoutClear`; `logout_all_devices` is
authentication (`StartCached`, or `StartUncached; AuthRow`), `SweepRows`,
`Members`, `Ttl`, `Clear`; `logout_device` is authentication, `PickDevice`,
`DropCached`, `DropRow`; account deletion is `StartDelete`, the same sweep, and
`Erase`.  The admin's delete is one commit (`AdminDelete`).  `StartIssue` does
not model who may sign in: `login`, `passkey_login_verify` and `verify_2fa` are
free to start for any existing account.  Authentication of the endpoints that
change no session (profile, chat, settings) takes the same two reads and
changes nothing, so it is not an action.

Faults are a constant: with `"redis"` every Redis call may fail where the code
catches the failure (and the cleanup's pipeline may fail after having run); with
`"crash"` a worker may die between any two steps.

`Age(t)` lets thirty days pass for a token no request is working on: requests
last seconds.  `KeyExpires` is the Redis TTL.

### Registration

One e-mail address: accounts of different addresses share no row.  `account` is
the row (id, `email_verified`, whether its profile exists, the password, named by
the temp token of the request that chose it), `temp[k]` the row of temp token
`k`: account, type, current code, whether `created_at` is less than a minute old
(`young`), whether `expire_at` has passed (`expired`).  Codes are numbered per
token; `mailed[k]` are those that reached the user.  The lookups at the start of
a handler, before its first write or mail, are one action: nothing the handler
does later depends on their order except through the values kept in `req`.
`SetPassword`, `Activate` and `Erase` are the final commits, each with its
rowcount behaviour: an UPDATE of a row that vanished is an error and rolls back
everything, a DELETE of one is not.  `signup` is `StartSignup`, `CreateAccount` or
`DropOldTokens; ReRegister`, `InsertToken`, `Mail`/`MailFails`; the DELETE of old tokens reaches
the rows committed so far (`doomed`), which go with the commit of the new password, while a token
inserted between the two survives.  `reset` stands for `reset_password` and
`admin_reset_password`, `confirm` for `_reset_password_with_code` (both of its
callers) and `admin_reset_verify`.  A worker may die between any two steps
(`Crash`); `disturbed` remembers that two requests have overlapped or one has
died, for the properties that the code promises only without either.

### TwoFactor

One account: `account` is its flag and secret, `codes` its `totp_backup_code` rows.
One row stands for the eight of a batch: the eight are inserted and deleted
together, and what matters of one of them, that it is used once, is the same for
each.  `pending` is `2fa_setup:{uid}`, a draw `d` being the secret and the batch
that one call of setup (or, for the batch, of regeneration) drew.  A TOTP code
is a secret and the thirty-second step it belongs to; `replay` holds the keys
`totp_used:{uid}:{code}` with the step in which they were set, `clock` the present
step.  `challenge` holds the `2fa_verify` temp tokens.

The handlers of `two_factor.py` and of the administrator's endpoints are the same
statements and share their actions: `setup` is `StartSetup; StoreSetup`,
`confirm` is `StartConfirm; GetSetup; Check; Mark; Enable; DropSetup`,
`verify_2fa` is `StartVerify; LoadUser`, then `Check; Mark` or `PickCode`, then
`SignIn`; `disable` is `StartDisable; Wipe; Lock; Disable`; `regenerate` is
`StartRegenerate; Check; Mark; Wipe; Lock; Replace`; `verify_delete_2fa` is
`StartDelete`, a code, `Erase`.  `Wipe` and `Lock` are one `DELETE`: under READ
COMMITTED it deletes the rows it saw when it started, after waiting for the
transactions that hold their locks (`Locked`), and does not see a batch that one
of them has inserted.  `PickCode` and `SignIn` are verification by backup code: the
row is read as unused, and marked by its primary key in the final commit without another
look.  A row's `spent` is history: its code has signed in while no other request had read
the row (`Contended`).

`Tick` drops a replay key in the third step after the one it was set in: that is
the earliest its ninety seconds can end.  `Check` and `Mark` are separate because
the validity of a code is decided before the `SET NX` is awaited; `twice` counts
the codes accepted again that were still valid at the `SET`.

### AdminUsers

`account[a]` is role and status of the row, `jwt[t]` what an administrator's token
says (account and `user_type` claim), `held` the tokens that were answered, `row`
and `cached` the same token's `refresh_token` row and Redis key.  `require_admin`
is `Authorized`: the account row decides, neither the claim nor the session
store, so a JWT outlives every logout.  Block, unblock, role and delete are
`StartChange; LoadTarget; Commit` (or `Delete`)`; Answer`: the caller's role is the one
`require_admin` loaded, the target's the one loaded next, and the UPDATE names the
account by its id, if the value differs from the loaded one at all.  `admin_login` is
`StartLogin; InsertRow; SaveSession`; its token has no random part, so logins within
one second get the same one.  The device list is `StartDevices; ListDevices`, which goes on
to `InsertRow; SaveSession` where the current token has no row.  The logouts are
`StartLogout; DropKey; DropRow` and `StartLogoutAll; DropKey...; DropRows`, with `KeepKey`
where `delete_session_by_hash` swallows a Redis failure: the key stays, the handler goes on, deletes
the row and answers 200.  `SaveSession` may fail the same way.  `SelfDelete` is the owner's
own deletion as one step (`Sessions` has its steps); the account id of a deleted
administrator does not return.  `ended`, `alone` and `touched` are history; a request is
no longer `alone` once another has overlapped it or Redis has failed it.

### Passkey

One account with its `passkey` rows (`keys[c]` is the stored counter), and the two Redis
keys, `webauthn:reg:{uid}` and `webauthn:auth:{email}`, each holding one challenge at a
time.  Registration is `StartRegOptions; RegAccount; StoreRegChallenge`, then
`StartRegVerify; RegChallenge; StoreKey; RegCleanup`; sign-in is `StartLoginOptions;
LoginOptionsAccount; LoginOptionsKeys; StoreAuthChallenge`, then `StartLoginVerify;
LoginChallenge; LoginAccount; LoginKey; SignIn; LoginCleanup`.  An authenticator, or a clone of
it, signs any challenge that was handed out, with any counter, as often as it likes.
`Verifies` is what the WebAuthn library checks of challenge and counter; signatures,
origins and key formats are its own.  `mixed` and `left` remember what the code does
not promise: sign-ins with one credential at the same time, and challenges whose
deletion failed.

### University

`programs[p]` is the row with its normalised URL and name; `likes` the pairs of
`user_liked_university`.  `UrlKey` and `NameKey` are the normalisers as functions on the
few URLs and names of an instance: pages with one key, a link without host whose key is
the empty string (`Blank`, false in the code's tests but a value to the unique index), names outside
a-z and 0-9 that share a key.  A check is `StartCheck; FindByUrl; FindByName; Insert;
LookUpLiked; CommitCheck`; the request is one transaction, so an inserted row is seen by nobody
before the commit, while the unique index makes other inserts of that URL wait
(`UrlIsFree`) or fail (`UrlIsTaken`).  A URL to fill in meets the index at the commit.
Like and unlike are `StartLike; LookUpRow; CommitLike` and
`StartUnlike; LookUpRow; CommitUnlike`.

### Profile

`row` is the `user_profile` row, a value for each column; a writer (`update_all_profile`,
`update_personal_info`, `update_array_profile`) is `StartWrite; LoadAccount` (the first two only), `LoadProfile`, `Insert` or `Update`,
`Answer`.  The ORM's UPDATE names the columns that differ from the
values loaded, which is why writers of different sections do not undo each other, and
why one that finds nothing changed writes nothing.  `dir` and `file` are the avatar
directory: `StartUpload; RemoveDir; WriteOriginal; Decode; WriteVariant...; Answer`, and
`StartRemove; RemoveDir; Answer`.  These handlers do not await between two files, but several workers
share the disk, so each file is a step, and what another worker does meanwhile may make `rmtree` or a
write raise; a removal whose directory is gone when `rmtree` comes to it is a 500.  An image is its format, its smaller dimension and whether Pillow can read it.

### Chat

A request (`Calls`) authenticates (`Start`, from the cache; otherwise `Connect` and `AuthRow`),
may need the profile (`ReadProfile`), and is passed on (`Call`).  `conn` are the requests
that hold a connection of the worker's pool: the first query takes one, it is given back
when the response is over, which for a stream is its end.  `open` are
those whose exchange with Dify is open.  Dify is a process beside the handlers: it may carry
out or refuse a call and its answer may be lost (`RequestError`), late
(`DifyTimeout`), an error, no JSON, or JSON of another shape than the routers expect
(`misfit`); a stream is lines that are frames, frames that are no JSON
object, or keep-alives.  `Relay` is the routers' translation into a status: an
answer that is no JSON becomes a 502 and one that is no object, or fails the response model, a
500, both of a call that Dify may have carried out; deleting a conversation looks at no body.  `Forward` passes a
frame on and then looks at it for the log, so an odd frame reaches the client
and then ends the stream with an error frame.  `Disconnect` is `CancelledError` running through
both generators.

## 3. What the runs show

| Run | Bounds | Result |
|---|---|---|
| `sessions_races` | 2 users, 2 tokens, 2 requests, 1 cleaner, all endpoints, no faults | types, one owner, only one's own sessions end |
| `sessions_faults` | 1 user, 2 tokens, 2 requests, 1 cleaner, Redis failures and crashes | what was logged out and what was swept stays out, but for the sessions named above; contract |
| `sessions_sequential` | 2 users, 2 tokens, 1 request, 2 cleaners, fairness | cache backed by row and index at rest, expired tokens die |
| `registration` | 3 temp tokens, up to 3 codes each, 2 resends, 2 requests, 2 account ids, all endpoints | types, complete rows, lifecycle, stored codes were mailed, used tokens are gone; for requests one at a time also that signup leaves verified accounts alone and a verification activates its own password |
| `registration_reregister` | 3 temp tokens, 1 code each, 2 requests | violation, see below |
| `twofactor` | 2 draws, 1 challenge, 2 requests, clock 1..3, the codes of steps 2 and 3 | types; flag and secret agree; the secret was proven; TOTP codes accepted once; a backup code that has signed in is got hold of by nobody; for requests one at a time one batch of backup codes |
| `admin` | 1 super administrator, 2 accounts of any lower role, 2 tokens, 2 requests | types; super administrators stand; a 200 is true; for requests that do not overlap: nobody acts on those above, and sessions stay ended if Redis did what it was told |
| `passkey` | 1 credential, 3 challenges, counters 0..2, 2 requests | types; unless sign-ins overlap, a clone is caught and an assertion accepted once |
| `university` | 2 users, 4 cards, 2 programs, 2 requests | types with one program per URL; likes stand; settled cards keep their unit unless checks overlap |
| `university_unit` | 1 user, 4 cards, 2 programs, 1 request | violation, see below |
| `profile` | 3 columns, 2 values, 3 images, 2 requests | types; no section lost; an avatar's files are of one image |
| `chat` | 2 requests, 1 connection, 2 lines per stream, fairness | types; true answers; faithful streams; nothing held; every request ends |

Why these bounds suffice to show something: a session race needs a victim token
and a second request of the same user, cross-user mixing needs a second user, so
two tokens, two users and two requests at once reach every pair of handler steps;
a registration race needs two flows for the address and a third for a password
reset between them; two resends of one token at once need three codes, and `MaxResends` keeps
the three tokens from having as many each; a second
account id is needed for deletion followed by a new signup.  For two-factor, two draws
give a second set-up or a regeneration against the first, and the code of step 2
is valid in every step of a clock from 1 to 3, so its replay key has to live
through its longest window; that of step 3 lets a handler prove itself again
after a confirmation.  Three accounts are an administrator, a rival and someone above
both, and two tokens one for each of two callers, or an old and a new one of the same.  A
passkey is registered with the first challenge, and two more give a sign-in and its replay
beside a newer challenge; counters 0, 1 and 2 are one that does not count, one and a
later one.  Two programs are what two cards of one name can come to; the four cards
share a URL, a name, or have none.  The
images are one above every variant's size, one above none and one that cannot be read.  One
connection for two requests is a pool that is full, and two lines hold a frame before or
after an odd one.

`MaxCodes`, `MaxResends`, `MaxIds`, `MaxClock`, `Steps`, `MaxCount`, `MaxLines` and the
finite sets of tokens, draws, challenges and programs are the only bounds; they stop new
flows from being started, or Dify from sending more, with one exception: a check
that finds no id in `Units` for its new program stays where it is until it is
rolled back.  `CHECK_DEADLOCK FALSE` is set because an instance
really comes to rest once its tokens are used up or its requests are over.

Symmetry is used in runs with safety properties only.

### Disagreements between the code and its own words

1. **Signup can overwrite a verified account's password**
   (`registration_reregister`): it checked before the verification committed.
2. **A card's unit is not stable** (`university_unit`).  `resolve_university_program`
   answers a card whose URL is unknown with the one program of its name, although
   that program has another URL, and stores the card's URL nowhere.  When a card of
   another name brings that URL into the table, the first card's next check finds that program
   first: another `unit_id`, another `is_liked`.  The endpoint says "return its stable
   unit_id" (`profile.py:687`).  Cards whose URL the program carries are stable
   (`StableAlone`).

The code also does the following, which the properties exempt or do not demand and no run
reports as a violation:

- A device logout can leave the session it ended usable.  `login` commits the row
  (`auth.py:243`) and then saves the session (`auth.py:246`).  A device logout in between finds
  the row, deletes a key that is not there yet, deletes the row and answers 200; the key that is
  saved afterwards is accepted without a row, although `logout_device` deletes the key first in
  order that no usable token is left behind (`auth.py:1611-1614`).  `RevokedStaysOut` exempts
  this session (`early`): without the exemption TLC finds it violated by a login and a device
  logout.
- A sign-out-everywhere can miss a session.  `delete_all_user_sessions` reads the index, then
  deletes the keys it read and the *whole* index key (`session_utils.py:208`).  A login that
  saves its session in between keeps its key without an index entry; the next
  sign-out-everywhere deletes its row, finds nothing in the index and answers 200, and the cache
  hit is still trusted.  `SweptStaysOut` exempts this session (`unlisted`): without the exemption
  TLC finds it violated by a login and two sign-outs-everywhere.
- A failing Redis defeats every logout: the failure is logged or, in `delete_session_by_hash`,
  swallowed; the row is deleted, the answer is 200, and the key is accepted until it
  expires.  `RevokedStaysOut`, `SweptStaysOut` and `EndedStaysOut` (administrators) exempt such
  sessions and no others.
- A logout of an administrator's devices promises nothing about a session that appears while
  it is under way: `EndedStaysOut` counts logouts that nobody overlapped.
- An administrator's delete leaves the cached sessions of the account: `delete_user`
  makes no Redis call.  `sessions_sequential` leaves that endpoint out.
- Two verifications that have both read a backup code as unused both sign in:
  `BackupCodeOnce` exempts a row that two requests had read before either committed, and nothing
  else.  Two confirmations of one set-up store its codes twice, as rows of their own.
- Two sign-ins with one passkey assertion can both succeed.  The properties
  ending in `Alone` are about requests that do not overlap.
- `admin_reset_resend` limits nothing after the first minute: it never restarts `created_at`.
- An administrator's JWT works until it expires, whatever logout came in between, and
  the device list puts its session back.
- Two checks of cards with different URLs and one name, at the same time, store two
  programs of that name; from then on a card of that name whose URL is unknown is a 500.

## 4. Fairness

`FairSpec` of `Sessions` (used by `sessions_sequential` only) assumes weak fairness
of every running handler (the event loop resumes it when its I/O completes; a
worker crash is off in that run), of the clock and the Redis TTLs, and of each
cleanup task (`periodic_cleanup` loops for ever and catches every exception).
Nothing is assumed of clients.

`FairSpec` of `Chat` assumes weak fairness of the handlers of every request: the event loop resumes
a handler whose step is ready, the pool gives up after its thirty seconds (`PoolTimeout`) and
httpx after `dify_timeout` without a byte (`DifyTimeout`).  Fairness of `Forward` and `Respond`
assumes of a client that it goes on reading or leaves (`Disconnect`): one that keeps its
socket open and reads nothing would hold its stream, and with it a connection of the pool, for
as long as it likes.  Of Dify nothing is assumed, except that a stream has at most
`MaxLines` lines: one that sends a byte every minute for ever would never end in the code either.

The other modules have no liveness property: their handlers are finite sequences of
steps with no waiting on each other but for row locks and the unique index, and what
they leave for later (a code, a challenge, a token) may simply lapse.

## 5. What is proved

Every safety invariant but `CachedIsBacked`, every action property of the passing runs, and
both refinements are theorems: TLC checks them on the instances of section 3, TLAPS for all values of the
constants.  Each proof has the same shape.  The invariant of a run is seldom inductive;
`TypeInv` and the invariants named below strengthen it, TLC has checked them on
the instance of the run before they were proved, and a lemma per action or group of
actions shows that a step keeps them.  The temporal step is closed by PTL.

`SessionsProofs` proves, for all sets of users, tokens, requests and cleaners,
all sets of endpoints and faults, and from `SessionsAssumption` only (the
endpoint and fault names are known, `None` is no user and no token):

- `TypeCorrect`: `Spec => []TypeOK`;
- `OneOwner`: `Spec => []OwnerAgreement`;
- `LoggedOutStaysOut`: `Spec => []RevokedStaysOut`;
- `SessionsEndByTheirOwn`: `Spec => OwnSessionsOnly`;
- `Refinement`: `Spec => ImplementsContract`;
- `SweptStayOut`: `Spec => []SweptStaysOut`.

No theorem restricts overlaps, faults or crashes: what the code does not promise is exempt by
token, in the sets `uncleared`, `early`, `unswept` and `unlisted` of section 2.

Argument.  `TypeInv` is `TypeOK` with `LocalsKnown`: in the steps that use them, a
handler's user and token really are a user and a token; without it, `SaveSession`
could index by `None`.  `OwnerInv` adds that nothing is stored or kept in a
local of a token nobody drew, which makes drawing a fresh token harmless, and
that every place that names a token's user names its one owner, which makes
the cache's and the index's deletions name the right set.  `EndInv`, which the two theorems about ended sessions share, adds
why none of them comes back.  A session is `Settled` once its sign-in is over; from then on no
step writes its row or its key (`Onward`; `OneSignIn`: at most one request is in the sign-in
steps for a token).  `EndRecord` says what a handler has brought about on its way to a
200: a logout between its two deletes has already removed the row; a device logout about to
delete the row has deleted the key, of a session that is settled unless `early`; and a sweep
between `SMEMBERS` and its deletes has read every key of its user there is, but for the `unlisted`,
because a cached session is in its user's index (`Indexed`) and one that is saved meanwhile is put on
record.
The step simulation of `Refinement` uses the same facts: a token is live as
long as it has a row, a key, or an unfinished sign-in, and no step outside a
sign-in gives a dead token any of the three.  `OwnInv` adds to `OwnerInv` that the cleanup
holds aged tokens only (`CleansAged`), so that a young session ends by a step of a
handler of its user or on its own token.

`TwoFactorProofs` proves, for any draws, challenges and codes, any finite set of
requests and any clock, from `TwoFactorAssumption` (the clock's bound is a positive
number, steps are numbers, requests finitely many, `None` is no draw and no
challenge):

- `TypeCorrect`: `Spec => []TypeOK`;
- `FlagMeansSecret`: `Spec => []SecretIffEnabled`;
- `SecretWasProven`: `Spec => []ProvenSecret`;
- `CodeAcceptedOnce`: `Spec => []TotpOnce`;
- `OneBatchWhileOn`: `Spec => []OneBatchAlone`;
- `BackupCodesAreOneTime`: `Spec => []BackupCodeOnce`.

`TypeInv` adds to `TypeOK` what the locals of a handler hold in the steps that use
them (`Known`): the secret a code is checked against was drawn, the secret about to
be stored was proven; and that rows and remembered ids are finitely many, so
that a new row finds an id (`FreshId`).  Only `Enable`, `Disable` and `Erase`
change flag and secret, each both together, which with `Known` gives the
second and third theorem.  The fourth rests on `KeyKept`: an accepted code has a
replay key set at most one step before the code's own, or is past its validity;
and on `CheckedInTime`: no handler is about to mark a code of a step to come.  If
a code is still valid, its key is therefore younger than three steps: the SET
NX fails.  The fifth rests on `BatchInv`: while nothing has overlapped, at most one
handler is under way, there is one row exactly while the flag is set (`Batch`), and the
handler finds what it found (`Steady`): two-factor is still off when a confirmation
commits, on when a regeneration does, and the rows a `DELETE` saw are all there are.  The last
holds under every overlap, by `SpentInv`: ids tell rows apart, a spent row is marked as used
(`Marked`), and no request about to sign in or delete by code remembers a spent row
(`Unspent`): a marked row is not picked, and the commit that spends one does so only where no other
request remembers it.

`AdminUsersProofs` proves, for any sets of accounts, super administrators, tokens and
requests, from `AdminUsersAssumption` (super administrators are accounts, `None` is
no account, token or row):

- `TypeCorrect`: `Spec => []TypeOK`;
- `SuperAdminsStay`: `Spec => []SuperAdminStands`;
- `AnswersHold`: `Spec => []AnsweredAsDone`;
- `OnlyOutranked`: `Spec => OutrankedAlone`;
- `LoggedOutStaysOut`: `Spec => []EndedStaysOut`.

`TypeInv` adds to `TypeOK` what a handler's locals hold in the steps that use them
(`Known`) and that every token answered or kept has claims (`Signed`).  `SuperInv` adds
that the target of a request about to commit is no super administrator: the check
of `LoadTarget` was made before the commit, but nothing makes a super administrator
in between.  `AnswerInv` relates a request nobody `touched` to the row (`Agrees`): the
value it loaded, or the value it wrote, is still there.  `AloneInv` says that while
a request is alone every other slot is idle; with it, what an alone request has
checked of caller and target is still so at its commit (`Entitled`), and what a
logout has dropped stays dropped until its answer (`Careful`); a logout that Redis failed is no
longer alone.

`UniversityProofs` proves, for any users, cards, requests, program ids and any two key
functions, from `UniversityAssumption` (`None` is no id, card or row, and cards have
URLs and names that the key functions know):

- `TypeCorrect`: `Spec => []TypeOK`, with one program for a URL in it;
- `LikesAreKept`: `Spec => []LikesStand`;
- `CardsKeepTheirProgram`: `Spec => StableAlone`.

`TypeInv` adds to `TypeOK` what a handler holds in the steps that use it (`Known`): a
check about to insert has an id that is not stored, nobody else's (`RowsApart`), and a
URL that no stored row has (`RowsClear`); every other handler's id is stored.  An
insert brings that about because it waits for an uncommitted row of the URL and is
refused by a committed one, and a URL filled in meets the same two obstacles at
its commit.  `LikeInv`: a like whose answer will be a promise has no unlike of its
pair in flight (`Quiet`) and the row it saw is still there (`Promising`), because
only an unlike of the pair or the account's deletion can take it; a promised pair is
quiet as well, since an unlike that starts takes the promise back.  `StableInv`: while
a check is alone nobody else writes programs or answers, so it is on the way to the
program its card had (`Sure`); a card without a URL was answered a program of its name
(`Named`), which the look by name finds or, having a namesake, refuses.

`RegistrationProofs` proves, for any temp tokens and requests and any bounds, from
`RegistrationAssumption` (the endpoint names are known, `None` is no token, a token
has at least one code):

- `TypeCorrect`: `Spec => []TypeOK`;
- `UsedTokensGone`: `Spec => []UsedTokenIsGone`;
- `RowsAreComplete`: `Spec => []RowsComplete`;
- `LifecycleFollowed`: `Spec => FollowsLifecycle`, the refinement of `AccountLifecycle`;
- `StoredCodesWereMailed`: `Spec => []StoredCodeWasMailed`;
- `VerifiedStaysFinal`: `Spec => VerifiedIsFinalAlone`;
- `ActivatesOwnPassword`: `Spec => ActivatesItsOwnPassword`.

`TypeInv` adds what a handler's locals hold (`Known`).  `TokenInv`: no two handlers are
issuing one token (`Distinct`), a client holds only tokens that were drawn, and a used one
was held; so nobody inserts the row of a used token again.  `AccountInv`: the account
id and every id a handler remembers are at most `lastId`, which is why an id that vanished never
comes back, and a verification that loaded an account with a profile finds it so while
that account is there (`ReaderOK`).  The refinement is a case for each of the few
commits that write the account; every other step is a stutter.  `MailInv`: a handler about
to store a code has mailed it, unless the token is one of those whose mail was not
sent (`SenderOK`).  `AloneInv`: while nothing has overlapped, one handler is under
way, a signup that goes on to `register` still faces an unverified account, and the
stored password is the one its token's request chose (`Chosen`, `OwnerOK`).

`ProfileProofs` proves, for any columns, values, images and requests, from
`ProfileAssumption` (`None` is no value, an image has a known format, a size, and can be
read or not):

- `TypeCorrect`: `Spec => []TypeOK`;
- `NoSectionIsLost`: `Spec => []NoSectionLost`;
- `AvatarsAsAnswered`: `Spec => []AvatarAsAnswered`.

`SectionInv` is about the columns a handler writes and nobody else has `touched` since it
began: before its commit the row holds what it loaded, so a column that the UPDATE does
not name has the wanted value already, and before its answer the row holds what it wrote.  Other handlers' commits keep
it because they name only columns they were asked to write (`RowStays`).  `AvatarInv`: a
handler that has the disk to itself is the only one on it (`Sole`), and the
directory holds exactly the files of its image it has got to (`AvatarOK`).

`PasskeyProofs` proves, for any credentials, challenges, counters and requests, from
`PasskeyAssumption` (`None` is none of them):

- `TypeCorrect`: `Spec => []TypeOK`;
- `ClonesAreCaught`: `Spec => []CloneIsCaughtAlone`;
- `AssertionsSignInOnce`: `Spec => []AssertionOnceAlone`.

`CountInv`: two sign-ins under way with one credential make it mixed (`Apart`), one that is
about to commit has a stored credential (`SignedInIsStored`), and the stored counter of a
credential that is not mixed is the highest accepted (`CounterIsHighest`); the
counter verified against the stored one is then above all.  `OnceInv`: a verified
assertion answers the challenge its handler read (`VerifiedAnswers`), and the challenge
of an accepted one is about to be deleted, or gone from Redis and from every other sign-in
(`AcceptedIsConsumed`), unless its deletion failed.

`ChatProofs` proves, for any requests, pool and lines, from `ChatAssumption` (a pool has
a connection) and `NoneAssumption` (`None` is no reply and no answer):

- `TypeCorrect`: `Spec => []TypeOK`;
- `AnswersTellTheTruth`: `Spec => []AnswersAreTrue`;
- `StreamsAreFaithful`: `Spec => []FramesAreFaithful`;
- `NothingLeaks`: `Spec => []NothingIsLeaked`.

`CallInv` says of each call that Dify knows nothing of it before the handler calls and
that it has no answer before its end (`InOrder`); that what came back is what Dify did, an
answer of the wrong shape included (`Heard`); the first property (`Told`); and in which steps a request may hold its exchange
and its connection (`Holding`).  A step of one call spares the others, except that a stop
ends the stream it is about (`Spares`).  `StreamInv` says what was passed on in terms
of the lines the handler has taken.  `PassedOn` states that by an increasing
enumeration of the frames' positions, rather than with `SelectSeq`, whose recursion the
provers cannot unfold: a frame passed on extends the enumeration by one position, a
line that Dify adds leaves it as it is.

Only model-checked: the invariant `CachedIsBacked` of `Sessions`, which the code keeps for
requests one at a time only and which `sessions_sequential` checks so; the liveness properties `ExpiredSessionDies` of `Sessions` and
`EveryRequestEnds` of `Chat`, which are outside the prover's reach (fairness and ENABLED),
on the instances of `sessions_sequential` and `chat`.  That the code violates what
`registration_reregister` and `university_unit` check is shown by TLC's counterexamples.

## 6. Not modelled

- Endpoints that change nothing: `list_users`, reading the profile, the avatar and the
  liked programs, the dashboard, the logs, the billing services.  The `record_*` helpers of
  `llm_usage_service.py` have no caller.
- Who is allowed to sign in, in `Sessions`: `StartIssue` is open to any account.
  `TwoFactor` and `Passkey` have the second factor and the passkeys of one account,
  without the session that follows.
- In `TwoFactor`: the temp token of an account deletion (a `StartDelete` is one that
  was accepted).
  `redis is None` does not occur once the application has started: the client
  is created before the first request and never reset to `None` while requests run.  (Without it
  every Redis call would do what the failing ones do in the models.)
- In `University`: `program_data`, which every check overwrites with its card; the
  string operations of the normalisers, of which `UrlKey` and `NameKey` are samples.
- In `Profile`: which shapes of a section the schemas accept; the migration of older
  formats on reading.
- In `Chat`: a worker that dies (its connections die with it), a missing Dify
  configuration, the text of prompts and frames, other endpoints' use of the pool.
- Cryptography, the WebAuthn library, SMTP, Turnstile, HTML templates, user-agent parsing,
  logging, configuration, the DDL at startup: no protocol state.
- Database failures: a failed statement ends the
  handler with a rollback, which is what a crash does in the models.
- The lifetime of the index set: `EXPIRE ... GT` never gives a TTL to a key that
  has none, so the set does not expire, as in the model.

## 7. Plan

What is left, in order:

1. `CachedIsBacked` for overlapping requests, with the sessions that lose their row or their
   index entry counted out one by one, as `RevokedStaysOut` and `SweptStaysOut` do, and a proof of it.
2. The safety half of the two liveness properties: an aged token that has lost its key is
   never cached again, and every step of a request of `Chat` brings it nearer to its end.
3. The one-minute limit of the resends (`auth.py:915`), which two resends at once both
   pass: no document promises more, so there is no property yet.
