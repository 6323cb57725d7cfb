--------------------------- MODULE SessionsProofs ---------------------------
(***************************************************************************)
(* What holds of Sessions for any number of users, tokens, requests and    *)
(* workers, whatever Redis calls fail and whatever crashes.                *)
(***************************************************************************)
EXTENDS Sessions, TLAPS

-----------------------------------------------------------------------------
(* Type correctness *)

SigningPCs == {"commit", "save"}
TokenPCs   == SigningPCs \cup {"auth_row", "logout_row", "logout_read", "logout_clear"}
CallerPCs  == SigningPCs \cup {"sweep_rows", "members", "ttl", "clear", "erase",
                               "pick", "drop_cached", "drop_row"}

\* A handler past its authentication knows its user, one that works on a token has it.
LocalsKnown == \A r \in Requests :
    /\ req[r].pc \in TokenPCs => req[r].tok \in Tokens
    /\ req[r].pc \in CallerPCs => req[r].user \in Users

TypeInv == TypeOK /\ LocalsKnown

\* The idle record is a request record, and rewriting rows keeps the type of a column.
LEMMA IdleType == Idle \in RequestRecords
BY DEF Idle, RequestRecords, PCs

\* Deleting a set of keys leaves a function from tokens to users.
LEMMA WithoutType ==
    ASSUME NEW f \in [Tokens -> Users \cup {None}], NEW S
    PROVE  Without(f, S) \in [Tokens -> Users \cup {None}]
BY DEF Without

\* Initially everything has its type.
LEMMA TypeInit == Init => TypeInv
BY IdleType DEF Init, TypeInv, TypeOK, LocalsKnown, Idle, TokenPCs, CallerPCs, SigningPCs

\* Replacing one request record by a well-formed one.
LEMMA BecomeType ==
    ASSUME TypeInv, NEW r \in Requests, NEW rec \in RequestRecords,
           rec.pc \in TokenPCs => rec.tok \in Tokens,
           rec.pc \in CallerPCs => rec.user \in Users,
           Become(r, rec)
    PROVE  req' \in [Requests -> RequestRecords] /\ LocalsKnown'
BY DEF Become, TypeInv, TypeOK, LocalsKnown

\* Ending a handler, or moving it to a step whose locals it has.
LEMMA FinishType ==
    ASSUME TypeInv, NEW r \in Requests, Finish(r)
    PROVE  req' \in [Requests -> RequestRecords] /\ LocalsKnown'
BY IdleType, BecomeType DEF Finish, Idle, TokenPCs, CallerPCs, SigningPCs

\* Moving a handler on to a step whose locals it has.
LEMMA GotoType ==
    ASSUME TypeInv, NEW r \in Requests, NEW p \in PCs, Goto(r, p),
           p \in TokenPCs => req[r].tok \in Tokens,
           p \in CallerPCs => req[r].user \in Users
    PROVE  req' \in [Requests -> RequestRecords] /\ LocalsKnown'
<1> DEFINE new == [req[r] EXCEPT !.pc = p]
<1>1. req[r] \in RequestRecords
  BY DEF TypeInv, TypeOK
<1>2. new \in RequestRecords /\ new.pc = p /\ new.tok = req[r].tok /\ new.user = req[r].user
  BY <1>1 DEF RequestRecords
<1> HIDE DEF new
<1>3. Become(r, new)
  BY DEF Goto, new
<1>4. QED
  BY <1>2, <1>3, BecomeType

\* A sign-in keeps the types.
LEMMA TypeSignIn ==
    ASSUME TypeInv, NEW r \in Requests,
           \/ \E op \in IssueOps, u \in Users, t \in Tokens : StartIssue(r, op, u, t)
           \/ CommitRow(r) \/ CommitRefused(r) \/ SaveSession(r)
    PROVE  TypeInv'
<1> USE DEF TypeInv, TypeOK, db, redis, ghost, excused
<1>1. ASSUME NEW op \in IssueOps, NEW u \in Users, NEW t \in Tokens, StartIssue(r, op, u, t)
      PROVE  TypeInv'
  <2> DEFINE new == [Idle EXCEPT !.op = op, !.pc = "commit", !.user = u, !.tok = t]
  <2>1. new \in RequestRecords /\ new.pc = "commit" /\ new.user = u /\ new.tok = t
    BY DEF Idle, RequestRecords, PCs, OpNames
  <2> HIDE DEF new
  <2>2. req' \in [Requests -> RequestRecords] /\ LocalsKnown'
    BY <1>1, <2>1, BecomeType DEF StartIssue, new
  <2>3. QED
    BY <1>1, <2>2 DEF StartIssue
<1>2. CASE CommitRow(r)
  <2>1. req[r].tok \in Tokens /\ req[r].user \in Users
    BY <1>2 DEF CommitRow, At, LocalsKnown, TokenPCs, CallerPCs, SigningPCs
  <2>2. req' \in [Requests -> RequestRecords] /\ LocalsKnown'
    BY <1>2, <2>1, FinishType, GotoType DEF CommitRow, PCs
  <2>3. issued' \subseteq Tokens
    BY <1>2, <2>1 DEF CommitRow
  <2>4. QED
    BY <1>2, <2>1, <2>2, <2>3 DEF CommitRow
<1>3. CASE CommitRefused(r)
  BY <1>3, FinishType DEF CommitRefused
<1>4. CASE SaveSession(r)
  <2>1. req[r].tok \in Tokens /\ req[r].user \in Users
    BY <1>4 DEF SaveSession, At, LocalsKnown, TokenPCs, CallerPCs, SigningPCs
  <2>2. QED
    BY <1>4, <2>1, FinishType DEF SaveSession
<1>5. QED
  BY <1>1, <1>2, <1>3, <1>4

\* Authentication and logout keep the types.
LEMMA TypeLogout ==
    ASSUME TypeInv, NEW r \in Requests,
           \/ \E op \in {"logout_all", "logout_device"}, t \in Tokens :
                  StartCached(r, op, t) \/ StartUncached(r, op, t)
           \/ AuthRow(r)
           \/ \E t \in Tokens : StartLogout(r, t)
           \/ LogoutRow(r) \/ LogoutRead(r) \/ LogoutClear(r) \/ LogoutUncleared(r)
    PROVE  TypeInv'
<1> USE DEF TypeInv, TypeOK, db, redis, ghost, excused
<1> DEFINE Start(op, pc, u, t) == [Idle EXCEPT !.op = op, !.pc = pc, !.user = u, !.tok = t]
<1>1. ASSUME NEW op \in OpNames, NEW pc \in PCs, NEW u \in Users \cup {None}, NEW t \in Tokens,
             Become(r, Start(op, pc, u, t)), pc \in CallerPCs => u \in Users
      PROVE  req' \in [Requests -> RequestRecords] /\ LocalsKnown'
  <2>1. /\ Start(op, pc, u, t) \in RequestRecords
        /\ Start(op, pc, u, t).pc = pc
        /\ Start(op, pc, u, t).user = u
        /\ Start(op, pc, u, t).tok = t
    BY DEF Idle, RequestRecords
  <2> HIDE DEF Start
  <2>2. QED
    BY <1>1, <2>1, BecomeType
<1> HIDE DEF Start
<1>2. ASSUME NEW op \in {"logout_all", "logout_device"}, NEW t \in Tokens, StartCached(r, op, t)
      PROVE  TypeInv'
  <2>1. op \in OpNames /\ FirstStep(op) \in PCs /\ cache[t] \in Users
    BY <1>2 DEF StartCached, OpNames, SweepOps, FirstStep, PCs
  <2>2. Become(r, Start(op, FirstStep(op), cache[t], t))
    BY <1>2 DEF StartCached, Start
  <2>3. req' \in [Requests -> RequestRecords] /\ LocalsKnown'
    BY <1>1, <2>1, <2>2
  <2>4. QED
    BY <1>2, <2>3 DEF StartCached
<1>3. ASSUME NEW op \in {"logout_all", "logout_device"}, NEW t \in Tokens, StartUncached(r, op, t)
      PROVE  TypeInv'
  <2> DEFINE new == [Idle EXCEPT !.op = op, !.pc = "auth_row", !.tok = t]
  <2>1. new \in RequestRecords /\ new.pc = "auth_row" /\ new.tok = t
    BY DEF Idle, RequestRecords, PCs, OpNames, SweepOps
  <2> HIDE DEF new
  <2>2. Become(r, new) /\ "auth_row" \notin CallerPCs
    BY <1>3 DEF StartUncached, new, CallerPCs, SigningPCs
  <2>3. QED
    BY <1>3, <2>1, <2>2, BecomeType DEF StartUncached
<1>4. CASE AuthRow(r)
  <2> DEFINE new == [req[r] EXCEPT !.pc = FirstStep(req[r].op), !.user = row[req[r].tok]]
  <2>1. req[r].tok \in Tokens /\ req[r] \in RequestRecords
    BY <1>4 DEF AuthRow, At, LocalsKnown, TokenPCs
  <2>2. CASE row[req[r].tok] = None
    BY <1>4, <2>2, FinishType DEF AuthRow
  <2>3. CASE row[req[r].tok] # None
    <3>1. row[req[r].tok] \in Users /\ FirstStep(req[r].op) \in {"sweep_rows", "pick"}
      BY <2>1, <2>3 DEF FirstStep
    <3>2. new \in RequestRecords /\ new.user \in Users /\ new.tok \in Tokens
      BY <2>1, <3>1 DEF RequestRecords, PCs
    <3> HIDE DEF new
    <3>3. Become(r, new)
      BY <1>4, <2>3 DEF AuthRow, new
    <3>4. QED
      BY <1>4, <3>2, <3>3, BecomeType DEF AuthRow
  <2>4. QED
    BY <2>2, <2>3
<1>5. ASSUME NEW t \in Tokens, StartLogout(r, t)
      PROVE  TypeInv'
  <2>1. "logout" \in OpNames /\ "logout_row" \in PCs /\ row[t] \in Users
    BY <1>5 DEF StartLogout, OpNames, PCs
  <2>2. Become(r, Start("logout", "logout_row", row[t], t))
    BY <1>5 DEF StartLogout, Start
  <2>3. req' \in [Requests -> RequestRecords] /\ LocalsKnown'
    BY <1>1, <2>1, <2>2
  <2>4. QED
    BY <1>5, <2>3 DEF StartLogout
<1>6. CASE LogoutRow(r)
  <2>1. req[r].tok \in Tokens /\ "logout_read" \in PCs /\ "logout_read" \notin CallerPCs
    BY <1>6 DEF LogoutRow, At, LocalsKnown, TokenPCs, PCs, CallerPCs, SigningPCs
  <2>2. QED
    BY <1>6, <2>1, GotoType, WithoutType DEF LogoutRow
<1>7. CASE LogoutRead(r)
  <2> DEFINE new == [req[r] EXCEPT !.pc = "logout_clear", !.user = cache[req[r].tok]]
  <2>1. req[r].tok \in Tokens /\ req[r] \in RequestRecords
    BY <1>7 DEF LogoutRead, At, LocalsKnown, TokenPCs
  <2>2. new \in RequestRecords /\ new.pc = "logout_clear" /\ new.tok \in Tokens
    BY <2>1 DEF RequestRecords, PCs
  <2> HIDE DEF new
  <2>3. Become(r, new) /\ "logout_clear" \notin CallerPCs
    BY <1>7 DEF LogoutRead, new, CallerPCs, SigningPCs
  <2>4. QED
    BY <1>7, <2>2, <2>3, BecomeType DEF LogoutRead
<1>8. CASE LogoutClear(r)
  <2>1. req[r].tok \in Tokens
    BY <1>8 DEF LogoutClear, At, LocalsKnown, TokenPCs
  <2>2. QED
    BY <1>8, <2>1, FinishType, WithoutType DEF LogoutClear, Logout200
<1>9. CASE LogoutUncleared(r)
  <2>1. req[r].tok \in Tokens
    BY <1>9 DEF LogoutUncleared, At, LocalsKnown, TokenPCs
  <2>2. QED
    BY <1>9, <2>1, FinishType DEF LogoutUncleared, Logout200
<1>10. QED
  BY <1>2, <1>3, <1>4, <1>5, <1>6, <1>7, <1>8, <1>9

\* A device logout keeps the types.
LEMMA TypeDevice ==
    ASSUME TypeInv, NEW r \in Requests,
           \/ \E v \in Tokens : PickDevice(r, v)
           \/ PickRefused(r) \/ DropCached(r) \/ DropRow(r)
    PROVE  TypeInv'
<1> USE DEF TypeInv, TypeOK, db, redis, ghost, excused
<1>0. req[r] \in RequestRecords
  OBVIOUS
<1>1. ASSUME NEW v \in Tokens, PickDevice(r, v)
      PROVE  TypeInv'
  <2> DEFINE new == [req[r] EXCEPT !.pc = "drop_cached", !.seen = {v}, !.due = {v}]
  <2>1. req[r].user \in Users
    BY <1>1 DEF PickDevice, At, LocalsKnown, CallerPCs
  <2>2. /\ new \in RequestRecords /\ new.pc = "drop_cached"
        /\ new.user = req[r].user /\ new.tok = req[r].tok
    BY <1>0 DEF RequestRecords, PCs
  <2> HIDE DEF new
  <2>3. Become(r, new) /\ "drop_cached" \notin TokenPCs
    BY <1>1 DEF PickDevice, new, TokenPCs, SigningPCs
  <2>4. QED
    BY <1>1, <2>1, <2>2, <2>3, BecomeType DEF PickDevice
<1>2. CASE PickRefused(r)
  BY <1>2, FinishType DEF PickRefused
<1>3. CASE DropCached(r)
  <2>1. req[r].user \in Users /\ req[r].seen \subseteq Tokens
    BY <1>0, <1>3 DEF DropCached, At, LocalsKnown, CallerPCs, RequestRecords
  <2>2. "drop_row" \in PCs /\ "drop_row" \notin TokenPCs
    BY DEF PCs, TokenPCs, SigningPCs
  <2>3. req' \in [Requests -> RequestRecords] /\ LocalsKnown'
    BY <1>3, <2>1, <2>2, GotoType DEF DropCached
  <2>4. QED
    BY <1>3, <2>1, <2>3, WithoutType DEF DropCached
<1>4. CASE DropRow(r)
  <2>1. req[r].due \subseteq Tokens
    BY <1>0 DEF RequestRecords
  <2>2. QED
    BY <1>4, <2>1, FinishType, WithoutType DEF DropRow
<1>5. QED
  BY <1>1, <1>2, <1>3, <1>4

\* Sign-out everywhere and account deletion keep the types.
LEMMA TypeSweep ==
    ASSUME TypeInv, NEW r \in Requests,
           \/ \E u \in Users : StartDelete(r, u)
           \/ SweepRows(r) \/ Members(r) \/ Ttl(r) \/ Clear(r) \/ SweepFails(r) \/ Erase(r)
    PROVE  TypeInv'
<1> USE DEF TypeInv, TypeOK, db, redis, ghost, excused
<1>0. req[r] \in RequestRecords /\ req[r].seen \subseteq Tokens /\ req[r].due \subseteq Tokens
  BY DEF RequestRecords
<1>1. req[r].pc \in CallerPCs => req[r].user \in Users
  BY DEF LocalsKnown
<1>2. ASSUME Swept200(r), req[r].user \in Users
      PROVE  req' \in [Requests -> RequestRecords] /\ LocalsKnown' /\ swept' \subseteq Tokens
  <2>1. "erase" \in PCs /\ "erase" \notin TokenPCs
    BY DEF PCs, TokenPCs, SigningPCs
  <2>2. QED
    BY <1>0, <1>2, <2>1, GotoType, FinishType DEF Swept200
<1>3. ASSUME NEW u \in Users, StartDelete(r, u)
      PROVE  TypeInv'
  <2> DEFINE new == [Idle EXCEPT !.op = "delete_account", !.pc = "members", !.user = u,
                                 !.due = IssuedTo(u)]
  <2>1. new \in RequestRecords /\ new.pc = "members" /\ new.user = u
    BY DEF Idle, RequestRecords, PCs, OpNames, SweepOps, IssuedTo
  <2> HIDE DEF new
  <2>2. Become(r, new) /\ "members" \notin TokenPCs
    BY <1>3 DEF StartDelete, new, TokenPCs, SigningPCs
  <2>3. QED
    BY <1>3, <2>1, <2>2, BecomeType DEF StartDelete
<1>4. CASE SweepRows(r)
  <2> DEFINE new == [req[r] EXCEPT !.pc = "members", !.due = IssuedTo(req[r].user)]
  <2>1. new \in RequestRecords /\ new.pc = "members" /\ new.user = req[r].user
    BY <1>0 DEF RequestRecords, PCs, IssuedTo
  <2> HIDE DEF new
  <2>2. Become(r, new) /\ "members" \notin TokenPCs /\ req[r].user \in Users
    BY <1>1, <1>4 DEF SweepRows, At, new, TokenPCs, CallerPCs, SigningPCs
  <2>3. QED
    BY <1>4, <2>1, <2>2, BecomeType, WithoutType DEF SweepRows
<1>5. CASE Members(r)
  <2> DEFINE new == [req[r] EXCEPT !.pc = "ttl", !.seen = index[req[r].user]]
  <2>1. req[r].user \in Users
    BY <1>1, <1>5 DEF Members, At, CallerPCs
  <2>2. CASE index[req[r].user] = {}
    BY <1>2, <1>5, <2>1, <2>2 DEF Members
  <2>3. CASE index[req[r].user] # {}
    <3>1. new \in RequestRecords /\ new.pc = "ttl" /\ new.user = req[r].user
      BY <1>0, <2>1 DEF RequestRecords, PCs
    <3> HIDE DEF new
    <3>2. Become(r, new) /\ "ttl" \notin TokenPCs
      BY <1>5, <2>3 DEF Members, new, TokenPCs, SigningPCs
    <3>3. QED
      BY <1>5, <2>1, <2>3, <3>1, <3>2, BecomeType DEF Members
  <2>4. QED
    BY <2>2, <2>3
<1>6. CASE Ttl(r)
  <2> DEFINE new == [req[r] EXCEPT !.pc = "clear", !.seen = {t \in @ : cache[t] # None}]
  <2>1. new \in RequestRecords /\ new.pc = "clear" /\ new.user = req[r].user
    BY <1>0 DEF RequestRecords, PCs
  <2> HIDE DEF new
  <2>2. Become(r, new) /\ "clear" \notin TokenPCs /\ req[r].user \in Users
    BY <1>1, <1>6 DEF Ttl, At, new, TokenPCs, CallerPCs, SigningPCs
  <2>3. QED
    BY <1>6, <2>1, <2>2, BecomeType DEF Ttl
<1>7. CASE Clear(r)
  <2>1. req[r].user \in Users
    BY <1>1, <1>7 DEF Clear, At, CallerPCs
  <2>2. QED
    BY <1>2, <1>7, <2>1, WithoutType DEF Clear
<1>8. CASE SweepFails(r)
  <2>1. req[r].user \in Users
    BY <1>1, <1>8 DEF SweepFails, At, CallerPCs
  <2>2. req[r].due \subseteq Tokens
    BY <1>0 DEF RequestRecords
  <2>3. QED
    BY <1>2, <1>8, <2>1, <2>2 DEF SweepFails
<1>9. CASE Erase(r)
  BY <1>0, <1>9, FinishType, WithoutType DEF Erase
<1>10. QED
  BY <1>3, <1>4, <1>5, <1>6, <1>7, <1>8, <1>9

\* Administrator, time, cleanup and crashes keep the types.
LEMMA TypeEnvironment ==
    ASSUME TypeInv,
           \/ \E r \in Requests : Crash(r)
           \/ \E u \in Users : AdminDelete(u)
           \/ \E t \in Tokens : Age(t) \/ KeyExpires(t)
           \/ \E c \in Cleaners : CleanerStep(c) \/ CleanerDies(c)
           \/ UNCHANGED vars
    PROVE  TypeInv'
<1> USE DEF TypeInv, TypeOK, db, redis, ghost, excused
<1>1. ASSUME NEW r \in Requests, Crash(r)
      PROVE  TypeInv'
  BY <1>1, FinishType DEF Crash
<1>2. ASSUME req' = req
      PROVE  LocalsKnown'
  BY <1>2 DEF LocalsKnown
<1>3. ASSUME NEW u \in Users, AdminDelete(u)
      PROVE  TypeInv'
  BY <1>2, <1>3, WithoutType DEF AdminDelete
<1>4. ASSUME NEW t \in Tokens, Age(t) \/ KeyExpires(t)
      PROVE  TypeInv'
  BY <1>2, <1>4 DEF Age, KeyExpires
<1>5. ASSUME NEW c \in Cleaners, CleanSelect(c)
      PROVE  TypeInv'
  BY <1>2, <1>5 DEF CleanSelect, Expired
<1>6. ASSUME NEW S \in SUBSET Tokens, Evicted(S)
      PROVE  cache' \in [Tokens -> Users \cup {None}] /\ index' \in [Users -> SUBSET Tokens]
  BY <1>6, WithoutType DEF Evicted
<1>7. ASSUME NEW c \in Cleaners, CleanRedis(c)
      PROVE  TypeInv'
  BY <1>2, <1>6, <1>7 DEF CleanRedis
<1>8. ASSUME NEW c \in Cleaners, CleanAborts(c)
      PROVE  TypeInv'
  BY <1>2, <1>6, <1>8 DEF CleanAborts
<1>9. ASSUME NEW c \in Cleaners, CleanRows(c) \/ CleanerDies(c)
      PROVE  TypeInv'
  <2>1. CASE CleanRows(c)
    BY <1>2, <2>1, WithoutType DEF CleanRows
  <2>2. CASE CleanerDies(c)
    BY <1>2, <2>2 DEF CleanerDies
  <2>3. QED
    BY <1>9, <2>1, <2>2
<1>10. CASE UNCHANGED vars
  BY <1>2, <1>10 DEF vars, ghost, excused
<1>11. QED
  BY <1>1, <1>3, <1>4, <1>5, <1>7, <1>8, <1>9, <1>10 DEF CleanerStep

\* Every step keeps the types.
LEMMA TypeStep == TypeInv /\ [Next]_vars => TypeInv'
BY TypeSignIn, TypeLogout, TypeDevice, TypeSweep, TypeEnvironment
   DEF Next, Arrive, HandlerStep

\* Type correctness, for every instance: every variable keeps its type.
THEOREM TypeCorrect == Spec => []TypeOK
<1>1. Spec => []TypeInv
  BY TypeInit, TypeStep, PTL DEF Spec
<1>2. QED
  BY <1>1, PTL DEF TypeInv

-----------------------------------------------------------------------------
(* Refinement of SessionContract *)

Live(t) == Usable(t) \/ SigningIn(t)

\* A handler that moves to a step outside sign-in starts no sign-in.
LEMMA BecomeNoSignIn ==
    ASSUME TypeInv, NEW r \in Requests, NEW new, Become(r, new), new.pc \notin SigningPCs,
           NEW x \in Tokens, SigningIn(x)'
    PROVE  SigningIn(x)
BY DEF TypeInv, TypeOK, Become, SigningIn, SigningPCs

\* The same for the record updates of Finish and Goto.
LEMMA FinishNoSignIn ==
    ASSUME TypeInv, NEW r \in Requests, Finish(r), NEW x \in Tokens, SigningIn(x)'
    PROVE  SigningIn(x)
BY BecomeNoSignIn DEF Finish, Idle, SigningPCs

\* Moving a handler to a step outside the sign-ins starts no sign-in.
LEMMA GotoNoSignIn ==
    ASSUME TypeInv, NEW r \in Requests, NEW p, Goto(r, p), p \notin SigningPCs,
           NEW x \in Tokens, SigningIn(x)'
    PROVE  SigningIn(x)
<1>1. [req[r] EXCEPT !.pc = p].pc = p
  BY DEF TypeInv, TypeOK, RequestRecords
<1>2. QED
  BY <1>1, BecomeNoSignIn DEF Goto

\* Forgetting keys makes no session usable.
LEMMA WithoutShrinks ==
    ASSUME NEW f, NEW S, NEW x \in Tokens, Without(f, S)[x] # None
    PROVE  f[x] # None
BY DEF Without

\* A step after which no more tokens are live is an End of the contract.
LEMMA ShrinkingIsEnd ==
    ASSUME owner' = owner, \A x \in Tokens : Live(x)' => Live(x)
    PROVE  Contract!Next
<1> DEFINE S == {x \in Tokens : Status[x] = "live" /\ Status'[x] = "dead"}
<1>1. \A x \in Tokens : /\ Status[x] = IF owner[x] = None THEN "fresh"
                                        ELSE IF Live(x) THEN "live" ELSE "dead"
                        /\ Status'[x] = IF owner[x] = None THEN "fresh"
                                         ELSE IF Live(x)' THEN "live" ELSE "dead"
  BY DEF Status, Live
<1>2. \A x \in Tokens : Status'[x] = IF x \in S THEN "dead" ELSE Status[x]
  BY <1>1
<1>3. Status' = [x \in Tokens |-> Status'[x]]
  BY DEF Status
<1>4. Status' = [x \in Tokens |-> IF x \in S THEN "dead" ELSE Status[x]]
  BY <1>2, <1>3
<1>5. Contract!End(S)
  BY <1>4 DEF Contract!End
<1>6. QED
  BY <1>5 DEF Contract!Next

\* Drawing a token is the contract's Draw.
LEMMA StartIssueDraws ==
    ASSUME TypeInv, NEW r \in Requests, NEW op \in IssueOps, NEW u \in Users, NEW t \in Tokens,
           StartIssue(r, op, u, t)
    PROVE  Contract!Next
<1> USE DEF TypeInv, TypeOK
<1>1. /\ owner[t] = None /\ owner' = [owner EXCEPT ![t] = u] /\ u # None
      /\ row' = row /\ cache' = cache
  BY SessionsAssumption DEF StartIssue, db, redis
<1>2. /\ req[r].pc = "idle"
      /\ req'[r].pc = "commit" /\ req'[r].tok = t
      /\ \A s \in Requests : s # r => req'[s] = req[s]
  BY DEF StartIssue, At, Become, Idle
<1>3. SigningIn(t)'
  BY <1>2 DEF SigningIn
<1>4. \A x \in Tokens : x # t => (SigningIn(x)' <=> SigningIn(x))
  BY <1>2 DEF SigningIn
<1>5. \A x \in Tokens : Usable(x)' <=> Usable(x)
  BY <1>1 DEF Usable
<1>6. Status[t] = "fresh"
  BY <1>1 DEF Status
<1>7. \A x \in Tokens : Status'[x] = IF x = t THEN "live" ELSE Status[x]
  BY <1>1, <1>3, <1>4, <1>5 DEF Status
<1>8. Status' = [Status EXCEPT ![t] = "live"]
  BY <1>7 DEF Status
<1>9. Contract!Draw(t, u)
  BY <1>1, <1>6, <1>8 DEF Contract!Draw
<1>10. QED
  BY <1>9 DEF Contract!Next

\* A step gives x neither a sign-in, nor a row or a key that no sign-in in flight writes.
Keeps(x) == /\ SigningIn(x)' => SigningIn(x)
            /\ row'[x] # None => row[x] # None \/ SigningIn(x)
            /\ cache'[x] # None => cache[x] # None \/ SigningIn(x)

\* A token keeps to its stores and to the sign-ins in flight: no handler step but
\* the draw of a token makes one live.
LEMMA HandlerShrinks ==
    ASSUME TypeInv, NEW r \in Requests, Arrive(r) \/ HandlerStep(r) \/ Crash(r),
           ~ \E op \in IssueOps, u \in Users, t \in Tokens : StartIssue(r, op, u, t)
    PROVE  owner' = owner /\ \A x \in Tokens : Keeps(x)
<1>a. owner' = owner
  BY DEF Arrive, HandlerStep, Crash, StartCached, StartUncached, StartLogout, StartDelete,
         CommitRow, CommitRefused, SaveSession, AuthRow, LogoutRow, LogoutRead, LogoutClear,
         LogoutUncleared, PickDevice, PickRefused, DropCached, DropRow, SweepRows, Members, Ttl,
         Clear, SweepFails, Erase
<1> SUFFICES ASSUME NEW x \in Tokens
             PROVE  Keeps(x)
  BY <1>a
<1> USE DEF db, redis, ghost, excused, Keeps
<1>0. req[r] \in RequestRecords
  BY DEF TypeInv, TypeOK
<1>1. ASSUME NEW op \in {"logout_all", "logout_device"}, NEW t \in Tokens, StartCached(r, op, t)
      PROVE  Keeps(x)
  <2>1. [Idle EXCEPT !.op = op, !.pc = FirstStep(op), !.user = cache[t], !.tok = t].pc
          \notin SigningPCs
    BY DEF Idle, FirstStep, SigningPCs
  <2>2. QED
    BY <1>1, <2>1, BecomeNoSignIn DEF StartCached
<1>2. ASSUME NEW op \in {"logout_all", "logout_device"}, NEW t \in Tokens, StartUncached(r, op, t)
      PROVE  Keeps(x)
  <2>1. [Idle EXCEPT !.op = op, !.pc = "auth_row", !.tok = t].pc \notin SigningPCs
    BY DEF Idle, SigningPCs
  <2>2. QED
    BY <1>2, <2>1, BecomeNoSignIn DEF StartUncached
<1>3. ASSUME NEW t \in Tokens, StartLogout(r, t)
      PROVE  Keeps(x)
  <2>1. [Idle EXCEPT !.op = "logout", !.pc = "logout_row", !.user = row[t], !.tok = t].pc
          \notin SigningPCs
    BY DEF Idle, SigningPCs
  <2>2. QED
    BY <1>3, <2>1, BecomeNoSignIn DEF StartLogout
<1>4. ASSUME NEW u \in Users, StartDelete(r, u)
      PROVE  Keeps(x)
  <2>1. [Idle EXCEPT !.op = "delete_account", !.pc = "members", !.user = u, !.due = IssuedTo(u)].pc
          \notin SigningPCs
    BY DEF Idle, SigningPCs
  <2>2. QED
    BY <1>4, <2>1, BecomeNoSignIn DEF StartDelete
<1>5. CASE CommitRow(r)
  <2>1. row'[x] # None => row[x] # None \/ SigningIn(x)
    BY <1>5 DEF CommitRow, At, SigningIn, TypeInv, TypeOK
  <2>2. SigningIn(x)' => SigningIn(x)
    BY <1>5 DEF CommitRow, At, SigningIn, Goto, Finish, Become, Idle, TypeInv, TypeOK,
                RequestRecords
  <2>3. QED
    BY <1>5, <2>1, <2>2 DEF CommitRow
<1>6. CASE CommitRefused(r)
  BY <1>6, FinishNoSignIn DEF CommitRefused
<1>7. CASE SaveSession(r)
  <2>1. cache'[x] # None => cache[x] # None \/ SigningIn(x)
    BY <1>7 DEF SaveSession, At, SigningIn, TypeInv, TypeOK
  <2>2. QED
    BY <1>7, <2>1, FinishNoSignIn DEF SaveSession
<1>8. CASE AuthRow(r)
  <2>1. [req[r] EXCEPT !.pc = FirstStep(req[r].op), !.user = row[req[r].tok]].pc \notin SigningPCs
    BY <1>0 DEF FirstStep, SigningPCs, RequestRecords
  <2>2. QED
    BY <1>8, <2>1, BecomeNoSignIn, FinishNoSignIn DEF AuthRow
<1>9. CASE LogoutRow(r)
  BY <1>9, WithoutShrinks, GotoNoSignIn DEF LogoutRow, SigningPCs
<1>10. CASE LogoutRead(r)
  <2>1. [req[r] EXCEPT !.pc = "logout_clear", !.user = cache[req[r].tok]].pc \notin SigningPCs
    BY <1>0 DEF SigningPCs, RequestRecords
  <2>2. QED
    BY <1>10, <2>1, BecomeNoSignIn DEF LogoutRead
<1>11. CASE LogoutClear(r)
  BY <1>11, WithoutShrinks, FinishNoSignIn DEF LogoutClear, Logout200
<1>12. CASE LogoutUncleared(r)
  BY <1>12, FinishNoSignIn DEF LogoutUncleared, Logout200
<1>13. ASSUME NEW v \in Tokens, PickDevice(r, v)
       PROVE  Keeps(x)
  <2>1. [req[r] EXCEPT !.pc = "drop_cached", !.seen = {v}, !.due = {v}].pc
          \notin SigningPCs
    BY <1>0 DEF SigningPCs, RequestRecords
  <2>2. QED
    BY <1>13, <2>1, BecomeNoSignIn DEF PickDevice
<1>14. CASE PickRefused(r)
  BY <1>14, FinishNoSignIn DEF PickRefused
<1>15. CASE DropCached(r)
  BY <1>15, WithoutShrinks, GotoNoSignIn DEF DropCached, SigningPCs
<1>16. CASE DropRow(r)
  BY <1>16, WithoutShrinks, FinishNoSignIn DEF DropRow
<1>17. CASE SweepRows(r)
  <2>1. [req[r] EXCEPT !.pc = "members", !.due = IssuedTo(req[r].user)].pc \notin SigningPCs
    BY <1>0 DEF SigningPCs, RequestRecords
  <2>2. QED
    BY <1>17, <2>1, WithoutShrinks, BecomeNoSignIn DEF SweepRows
<1>18. ASSUME Swept200(r)
       PROVE  SigningIn(x)' => SigningIn(x)
  BY <1>18, GotoNoSignIn, FinishNoSignIn DEF Swept200, SigningPCs
<1>19. CASE Members(r)
  <2>1. [req[r] EXCEPT !.pc = "ttl", !.seen = index[req[r].user]].pc \notin SigningPCs
    BY <1>0 DEF SigningPCs, RequestRecords
  <2>2. QED
    BY <1>18, <1>19, <2>1, BecomeNoSignIn DEF Members
<1>20. CASE Ttl(r)
  <2>1. [req[r] EXCEPT !.pc = "clear", !.seen = {t \in @ : cache[t] # None}].pc \notin SigningPCs
    BY <1>0 DEF SigningPCs, RequestRecords
  <2>2. QED
    BY <1>20, <2>1, BecomeNoSignIn DEF Ttl
<1>21. CASE Clear(r)
  BY <1>18, <1>21, WithoutShrinks DEF Clear
<1>22. CASE SweepFails(r)
  BY <1>18, <1>22 DEF SweepFails
<1>23. CASE Erase(r)
  BY <1>23, WithoutShrinks, FinishNoSignIn DEF Erase
<1>24. CASE Crash(r)
  BY <1>24, FinishNoSignIn DEF Crash
<1>25. QED
  BY <1>1, <1>2, <1>3, <1>4, <1>5, <1>6, <1>7, <1>8, <1>9, <1>10, <1>11, <1>12, <1>13, <1>14,
     <1>15, <1>16, <1>17, <1>19, <1>20, <1>21, <1>22, <1>23, <1>24 DEF Arrive, HandlerStep

\* Nor does any step of the administrator, the clock and the cleanup.
LEMMA EnvironmentShrinks ==
    ASSUME TypeInv,
           \/ \E u \in Users : AdminDelete(u)
           \/ \E t \in Tokens : Age(t) \/ KeyExpires(t)
           \/ \E c \in Cleaners : CleanerStep(c) \/ CleanerDies(c)
    PROVE  owner' = owner /\ \A x \in Tokens : Keeps(x)
<1>a. owner' = owner
  BY DEF AdminDelete, Age, KeyExpires, CleanerStep, CleanSelect, CleanRedis, CleanAborts,
         CleanRows, CleanerDies
<1> SUFFICES ASSUME NEW x \in Tokens
             PROVE  Keeps(x)
  BY <1>a
<1> USE DEF db, redis, ghost, excused, Keeps
<1>0. ASSUME req' = req PROVE SigningIn(x)' => SigningIn(x)
  BY <1>0 DEF SigningIn
<1>1. ASSUME NEW u \in Users, AdminDelete(u)
      PROVE  Keeps(x)
  BY <1>0, <1>1, WithoutShrinks DEF AdminDelete
<1>2. ASSUME NEW t \in Tokens, Age(t) \/ KeyExpires(t)
      PROVE  Keeps(x)
  BY <1>0, <1>2 DEF Age, KeyExpires, TypeInv, TypeOK
<1>3. ASSUME NEW c \in Cleaners, CleanerStep(c) \/ CleanerDies(c)
      PROVE  Keeps(x)
  <2>1. ASSUME NEW S, Evicted(S) PROVE cache'[x] # None => cache[x] # None
    BY <2>1, WithoutShrinks DEF Evicted
  <2>2. CASE CleanSelect(c)
    BY <1>0, <2>2 DEF CleanSelect
  <2>3. CASE CleanRedis(c)
    BY <1>0, <2>1, <2>3 DEF CleanRedis
  <2>4. CASE CleanAborts(c)
    BY <1>0, <2>1, <2>4 DEF CleanAborts
  <2>5. CASE CleanRows(c)
    BY <1>0, <2>5, WithoutShrinks DEF CleanRows
  <2>6. CASE CleanerDies(c)
    BY <1>0, <2>6 DEF CleanerDies
  <2>7. QED
    BY <1>3, <2>2, <2>3, <2>4, <2>5, <2>6 DEF CleanerStep
<1>4. QED
  BY <1>1, <1>2, <1>3

\* The initial state is the contract's, and every step one of its steps or a stutter.
LEMMA ContractInit == Init => Contract!Init
BY DEF Init, Contract!Init, Status

\* Every step of Sessions is a step of the contract, or a stutter.
LEMMA ContractStep == TypeInv /\ [Next]_vars => [Contract!Next]_(Contract!vars)
<1> SUFFICES ASSUME TypeInv, [Next]_vars PROVE [Contract!Next]_(Contract!vars)
  OBVIOUS
<1>1. CASE \E r \in Requests, op \in IssueOps, u \in Users, t \in Tokens : StartIssue(r, op, u, t)
  BY <1>1, StartIssueDraws
<1>2. ASSUME NEW r \in Requests, Arrive(r) \/ HandlerStep(r) \/ Crash(r),
             ~ \E op \in IssueOps, u \in Users, t \in Tokens : StartIssue(r, op, u, t)
      PROVE  Contract!Next
  BY <1>2, HandlerShrinks, ShrinkingIsEnd DEF Keeps, Live, Usable
<1>3. CASE \/ \E u \in Users : AdminDelete(u)
           \/ \E t \in Tokens : Age(t) \/ KeyExpires(t)
           \/ \E c \in Cleaners : CleanerStep(c) \/ CleanerDies(c)
  BY <1>3, EnvironmentShrinks, ShrinkingIsEnd DEF Keeps, Live, Usable
<1>4. CASE UNCHANGED vars
  BY <1>4 DEF vars, ghost, excused, Contract!vars, Status, Usable, SigningIn
<1>5. QED
  BY <1>1, <1>2, <1>3, <1>4 DEF Next

\* The handlers, workers, failures and crashes together implement the contract:
\* each token is drawn once, for one user, and once dead is never accepted again.
THEOREM Refinement == Spec => ImplementsContract
<1>1. Spec => []TypeInv
  BY TypeInit, TypeStep, PTL DEF Spec
<1>2. QED
  BY <1>1, ContractInit, ContractStep, PTL DEF Spec, ImplementsContract, Contract!Spec

-----------------------------------------------------------------------------
(* A token belongs to one user everywhere *)

\* The steps at which a handler holds no digests yet.
NoDigestPCs == {"auth_row", "logout_row", "logout_read", "logout_clear"}

\* A handler's locals agree with own, the user each token was drawn for.
OwnedRecord(q, own) ==
    /\ q.tok # None => own[q.tok] # None
    /\ q.user # None /\ q.tok # None => own[q.tok] = q.user
    /\ \A t \in q.seen : own[t] = q.user /\ own[t] # None
    /\ q.pc \in NoDigestPCs => q.seen = {}

\* The rows, the cached sessions and the indexes agree with it.
OwnedStores ==
    /\ \A t \in Tokens : row[t] \in {None, owner[t]} /\ cache[t] \in {None, owner[t]}
    /\ \A u \in Users : \A t \in index[u] : owner[t] = u
    /\ \A t \in issued : owner[t] # None

OwnerInv == TypeInv /\ OwnedStores /\ \A r \in Requests : OwnedRecord(req[r], owner)

\* Replacing one record by one that agrees.
LEMMA BecomeOwned ==
    ASSUME OwnerInv, NEW r \in Requests, NEW new, Become(r, new), owner' = owner,
           OwnedRecord(new, owner)
    PROVE  \A s \in Requests : OwnedRecord(req'[s], owner')
<1>1. \A s \in Requests : req'[s] = IF s = r THEN new ELSE req[s]
  BY DEF OwnerInv, TypeInv, TypeOK, Become
<1>2. QED
  BY <1>1 DEF OwnerInv

\* Ending a handler leaves what all know of owners in order.
LEMMA FinishOwned ==
    ASSUME OwnerInv, NEW r \in Requests, Finish(r), owner' = owner
    PROVE  \A s \in Requests : OwnedRecord(req'[s], owner')
<1>1. OwnedRecord(Idle, owner)
  BY DEF OwnedRecord, Idle
<1>2. QED
  BY <1>1, BecomeOwned DEF Finish

\* So does moving one on.
LEMMA GotoOwned ==
    ASSUME OwnerInv, NEW r \in Requests, NEW p, Goto(r, p), owner' = owner,
           p \in NoDigestPCs => req[r].seen = {}
    PROVE  \A s \in Requests : OwnedRecord(req'[s], owner')
<1> DEFINE new == [req[r] EXCEPT !.pc = p]
<1>1. /\ new.pc = p /\ new.tok = req[r].tok /\ new.user = req[r].user /\ new.seen = req[r].seen
  BY DEF OwnerInv, TypeInv, TypeOK, RequestRecords
<1> HIDE DEF new
<1>2. OwnedRecord(new, owner)
  BY <1>1 DEF OwnedRecord, OwnerInv
<1>3. Become(r, new)
  BY DEF Goto, new
<1>4. QED
  BY <1>2, <1>3, BecomeOwned

\* Stores that only lose entries still agree.
LEMMA ShrinkOwned ==
    ASSUME OwnedStores, owner' = owner, issued' = issued,
           \A t \in Tokens : row'[t] \in {None, row[t]} /\ cache'[t] \in {None, cache[t]},
           \A u \in Users : index'[u] \subseteq index[u]
    PROVE  OwnedStores'
BY DEF OwnedStores

\* Forgetting keys loses entries and changes none.
LEMMA WithoutLoses ==
    ASSUME NEW f, NEW S
    PROVE  \A t \in Tokens : Without(f, S)[t] \in {None, f[t]}
BY DEF Without

\* Drawing a fresh token for u contradicts nothing: no store and no handler knows it.
LEMMA OwnedStartIssue ==
    ASSUME OwnerInv, NEW r \in Requests, NEW op \in IssueOps, NEW u \in Users, NEW t \in Tokens,
           StartIssue(r, op, u, t)
    PROVE  OwnedStores' /\ \A s \in Requests : OwnedRecord(req'[s], owner')
<1> DEFINE new == [Idle EXCEPT !.op = op, !.pc = "commit", !.user = u, !.tok = t]
<1>1. TypeOK /\ OwnedStores /\ u # None
  BY SessionsAssumption DEF OwnerInv, TypeInv
<1>2. /\ owner[t] = None /\ owner' = [owner EXCEPT ![t] = u]
      /\ row' = row /\ cache' = cache /\ index' = index /\ issued' = issued
  BY DEF StartIssue, db, redis
<1>3. \A x \in Tokens : owner'[x] = IF x = t THEN u ELSE owner[x]
  BY <1>1, <1>2 DEF TypeOK
<1>4. \A s \in Requests : req'[s] = IF s = r THEN new ELSE req[s]
  BY <1>1 DEF StartIssue, Become, TypeOK
<1>5. new.pc = "commit" /\ new.user = u /\ new.tok = t /\ new.seen = {}
  BY DEF Idle
<1> HIDE DEF new
<1>6. OwnedRecord(new, owner')
  BY <1>1, <1>3, <1>5 DEF OwnedRecord, NoDigestPCs
<1>7. ASSUME NEW s \in Requests, OwnedRecord(req[s], owner)
      PROVE  OwnedRecord(req[s], owner')
  <2>1. /\ req[s].tok \in Tokens \cup {None} /\ req[s].seen \subseteq Tokens
    BY <1>1 DEF TypeOK, RequestRecords
  <2>2. QED
    BY <1>2, <1>3, <1>7, <2>1 DEF OwnedRecord
<1>8. OwnedStores'
  <2>1. \A v \in Users : index[v] \subseteq Tokens /\ v # None
    BY <1>1, SessionsAssumption DEF TypeOK
  <2>2. QED
    BY <1>1, <1>2, <1>3, <2>1 DEF OwnedStores
<1>9. QED
  BY <1>4, <1>6, <1>7, <1>8 DEF OwnerInv

\* Every other handler step.
LEMMA OwnedHandler ==
    ASSUME OwnerInv, NEW r \in Requests, Arrive(r) \/ HandlerStep(r) \/ Crash(r),
           ~ \E op \in IssueOps, u \in Users, t \in Tokens : StartIssue(r, op, u, t)
    PROVE  OwnedStores' /\ \A s \in Requests : OwnedRecord(req'[s], owner')
<1> DEFINE Goal == OwnedStores' /\ \A s \in Requests : OwnedRecord(req'[s], owner')
<1>0. /\ TypeInv /\ TypeOK /\ OwnedStores
      /\ req[r] \in RequestRecords /\ OwnedRecord(req[r], owner)
      /\ req[r].pc \in TokenPCs => req[r].tok \in Tokens
      /\ req[r].pc \in CallerPCs => req[r].user \in Users
      /\ None \notin Tokens /\ None \notin Users
  BY SessionsAssumption DEF OwnerInv, TypeInv, TypeOK, LocalsKnown
<1>a. owner' = owner
  BY <1>0, HandlerShrinks
<1>b. ASSUME row' = row, cache' = cache, index' = index, issued' = issued PROVE OwnedStores'
  BY <1>0, <1>a, <1>b DEF OwnedStores
<1> USE DEF db, redis
<1>1. ASSUME NEW op \in {"logout_all", "logout_device"}, NEW t \in Tokens, StartCached(r, op, t)
      PROVE  Goal
  <2> DEFINE new == [Idle EXCEPT !.op = op, !.pc = FirstStep(op), !.user = cache[t], !.tok = t]
  <2>1. new.pc \in {"sweep_rows", "pick"} /\ new.user = cache[t] /\ new.tok = t /\ new.seen = {}
    BY DEF Idle, FirstStep
  <2>2. Become(r, new) /\ cache[t] # None
    BY <1>1 DEF StartCached
  <2> HIDE DEF new
  <2>3. OwnedRecord(new, owner)
    BY <1>0, <2>1, <2>2 DEF OwnedRecord, OwnedStores, NoDigestPCs
  <2>4. QED
    BY <1>1, <1>a, <1>b, <2>2, <2>3, BecomeOwned DEF StartCached
<1>2. ASSUME NEW op \in {"logout_all", "logout_device"}, NEW t \in Tokens, StartUncached(r, op, t)
      PROVE  Goal
  <2> DEFINE new == [Idle EXCEPT !.op = op, !.pc = "auth_row", !.tok = t]
  <2>1. new.user = None /\ new.tok = t /\ new.seen = {}
    BY DEF Idle
  <2>2. Become(r, new)
    BY <1>2 DEF StartUncached
  <2> HIDE DEF new
  <2>3. owner[t] # None
    BY <1>0, <1>2 DEF StartUncached, OwnedStores
  <2>4. OwnedRecord(new, owner)
    BY <2>1, <2>3 DEF OwnedRecord
  <2>5. QED
    BY <1>2, <1>a, <1>b, <2>2, <2>4, BecomeOwned DEF StartUncached
<1>3. ASSUME NEW t \in Tokens, StartLogout(r, t)
      PROVE  Goal
  <2> DEFINE new == [Idle EXCEPT !.op = "logout", !.pc = "logout_row", !.user = row[t], !.tok = t]
  <2>1. new.user = row[t] /\ new.tok = t /\ new.seen = {}
    BY DEF Idle
  <2>2. Become(r, new) /\ row[t] # None
    BY <1>3 DEF StartLogout
  <2> HIDE DEF new
  <2>3. OwnedRecord(new, owner)
    BY <1>0, <2>1, <2>2 DEF OwnedRecord, OwnedStores
  <2>4. QED
    BY <1>3, <1>a, <1>b, <2>2, <2>3, BecomeOwned DEF StartLogout
<1>4. ASSUME NEW u \in Users, StartDelete(r, u)
      PROVE  Goal
  <2> DEFINE new == [Idle EXCEPT !.op = "delete_account", !.pc = "members", !.user = u,
                                 !.due = IssuedTo(u)]
  <2>1. new.tok = None /\ new.seen = {}
    BY DEF Idle
  <2>2. Become(r, new)
    BY <1>4 DEF StartDelete
  <2> HIDE DEF new
  <2>3. OwnedRecord(new, owner)
    BY <2>1 DEF OwnedRecord
  <2>4. QED
    BY <1>4, <1>a, <1>b, <2>2, <2>3, BecomeOwned DEF StartDelete
<1>5. CASE CommitRow(r)
  <2>1. /\ req[r].tok \in Tokens /\ req[r].user \in Users
        /\ owner[req[r].tok] = req[r].user
    BY <1>0, <1>5 DEF CommitRow, At, TokenPCs, CallerPCs, SigningPCs, OwnedRecord
  <2>2. OwnedStores'
    BY <1>0, <1>5, <1>a, <2>1 DEF CommitRow, OwnedStores, TypeOK
  <2>3. QED
    BY <1>5, <1>a, <2>2, FinishOwned, GotoOwned DEF CommitRow, NoDigestPCs
<1>6. CASE CommitRefused(r)
  BY <1>6, <1>a, <1>b, FinishOwned DEF CommitRefused
<1>7. CASE SaveSession(r)
  <2>1. /\ req[r].tok \in Tokens /\ req[r].user \in Users
        /\ owner[req[r].tok] = req[r].user
    BY <1>0, <1>7 DEF SaveSession, At, TokenPCs, CallerPCs, SigningPCs, OwnedRecord
  <2>2. OwnedStores'
    BY <1>0, <1>7, <1>a, <1>b, <2>1 DEF SaveSession, OwnedStores, TypeOK
  <2>3. QED
    BY <1>7, <1>a, <2>2, FinishOwned DEF SaveSession
<1>8. CASE AuthRow(r)
  <2> DEFINE new == [req[r] EXCEPT !.pc = FirstStep(req[r].op), !.user = row[req[r].tok]]
  <2>1. /\ req[r].tok \in Tokens /\ req[r].seen = {}
        /\ new.user = row[req[r].tok] /\ new.tok = req[r].tok /\ new.seen = req[r].seen
    BY <1>0, <1>8 DEF AuthRow, At, TokenPCs, OwnedRecord, NoDigestPCs, RequestRecords
  <2>2. row[req[r].tok] # None => Become(r, new)
    BY <1>8 DEF AuthRow
  <2> HIDE DEF new
  <2>3. row[req[r].tok] # None => OwnedRecord(new, owner)
    BY <1>0, <2>1 DEF OwnedRecord, OwnedStores
  <2>4. QED
    BY <1>8, <1>a, <1>b, <2>2, <2>3, BecomeOwned, FinishOwned DEF AuthRow
<1>9. ASSUME NEW S, row' = Without(row, S), cache' = cache, index' = index, issued' = issued
      PROVE  OwnedStores'
  BY <1>0, <1>9, <1>a, WithoutLoses, ShrinkOwned
<1>10. CASE LogoutRow(r)
  <2>1. req[r].seen = {}
    BY <1>0, <1>10 DEF LogoutRow, At, OwnedRecord, NoDigestPCs
  <2>2. QED
    BY <1>9, <1>10, <1>a, <2>1, GotoOwned DEF LogoutRow
<1>11. CASE LogoutRead(r)
  <2> DEFINE new == [req[r] EXCEPT !.pc = "logout_clear", !.user = cache[req[r].tok]]
  <2>1. /\ req[r].tok \in Tokens /\ req[r].seen = {}
        /\ new.user = cache[req[r].tok] /\ new.tok = req[r].tok /\ new.seen = req[r].seen
    BY <1>0, <1>11 DEF LogoutRead, At, TokenPCs, OwnedRecord, NoDigestPCs, RequestRecords
  <2>2. Become(r, new)
    BY <1>11 DEF LogoutRead
  <2> HIDE DEF new
  <2>3. OwnedRecord(new, owner)
    BY <1>0, <2>1 DEF OwnedRecord, OwnedStores
  <2>4. QED
    BY <1>11, <1>a, <1>b, <2>2, <2>3, BecomeOwned DEF LogoutRead
<1>12. ASSUME NEW S, cache' = Without(cache, S), row' = row, issued' = issued,
              \A u \in Users : index'[u] \subseteq index[u]
       PROVE  OwnedStores'
  BY <1>0, <1>12, <1>a, WithoutLoses, ShrinkOwned
<1>13. CASE LogoutClear(r)
  <2>1. \A u \in Users : index'[u] \subseteq index[u]
    BY <1>13 DEF LogoutClear
  <2>2. QED
    BY <1>12, <1>13, <1>a, <2>1, FinishOwned DEF LogoutClear, Logout200
<1>14. CASE LogoutUncleared(r)
  BY <1>14, <1>a, <1>b, FinishOwned DEF LogoutUncleared, Logout200
<1>15. ASSUME NEW v \in Tokens, PickDevice(r, v)
       PROVE  Goal
  <2> DEFINE new == [req[r] EXCEPT !.pc = "drop_cached", !.seen = {v}, !.due = {v}]
  <2>1. /\ new.pc = "drop_cached" /\ new.user = req[r].user /\ new.tok = req[r].tok
        /\ new.seen = {v}
    BY <1>0 DEF RequestRecords
  <2>2. Become(r, new) /\ row[v] = req[r].user /\ req[r].user \in Users
    BY <1>0, <1>15 DEF PickDevice, At, CallerPCs
  <2> HIDE DEF new
  <2>3. OwnedRecord(new, owner)
    BY <1>0, <2>1, <2>2 DEF OwnedRecord, OwnedStores, NoDigestPCs
  <2>4. QED
    BY <1>15, <1>a, <1>b, <2>2, <2>3, BecomeOwned DEF PickDevice
<1>16. CASE PickRefused(r)
  BY <1>16, <1>a, <1>b, FinishOwned DEF PickRefused
<1>17. CASE DropCached(r)
  <2>1. \A u \in Users : index'[u] \subseteq index[u]
    BY <1>0, <1>17 DEF DropCached, TypeOK
  <2>2. OwnedStores'
    BY <1>12, <1>17, <1>b, <2>1 DEF DropCached
  <2>3. QED
    BY <1>17, <1>a, <2>2, GotoOwned DEF DropCached, NoDigestPCs
<1>18. CASE DropRow(r)
  BY <1>9, <1>18, <1>a, FinishOwned DEF DropRow
<1>19. CASE SweepRows(r)
  <2> DEFINE new == [req[r] EXCEPT !.pc = "members", !.due = IssuedTo(req[r].user)]
  <2>1. /\ new.pc = "members" /\ new.user = req[r].user /\ new.tok = req[r].tok
        /\ new.seen = req[r].seen
    BY <1>0 DEF RequestRecords
  <2>2. Become(r, new)
    BY <1>19 DEF SweepRows
  <2> HIDE DEF new
  <2>3. OwnedRecord(new, owner)
    BY <1>0, <2>1 DEF OwnedRecord, NoDigestPCs
  <2>4. QED
    BY <1>9, <1>19, <1>a, <2>2, <2>3, BecomeOwned DEF SweepRows
<1>20. ASSUME Swept200(r)
       PROVE  \A s \in Requests : OwnedRecord(req'[s], owner')
  BY <1>20, <1>a, GotoOwned, FinishOwned DEF Swept200, NoDigestPCs
<1>21. CASE Members(r)
  <2> DEFINE new == [req[r] EXCEPT !.pc = "ttl", !.seen = index[req[r].user]]
  <2>1. /\ new.pc = "ttl" /\ new.user = req[r].user /\ new.tok = req[r].tok
        /\ new.seen = index[req[r].user] /\ req[r].user \in Users
    BY <1>0, <1>21 DEF Members, At, CallerPCs, RequestRecords
  <2>2. index[req[r].user] # {} => Become(r, new)
    BY <1>21 DEF Members
  <2> HIDE DEF new
  <2>3. OwnedRecord(new, owner)
    BY <1>0, <2>1 DEF OwnedRecord, OwnedStores, NoDigestPCs
  <2>4. QED
    BY <1>20, <1>21, <1>a, <1>b, <2>2, <2>3, BecomeOwned DEF Members
<1>22. CASE Ttl(r)
  <2> DEFINE new == [req[r] EXCEPT !.pc = "clear", !.seen = {t \in @ : cache[t] # None}]
  <2>1. /\ new.pc = "clear" /\ new.user = req[r].user /\ new.tok = req[r].tok
        /\ new.seen \subseteq req[r].seen
    BY <1>0 DEF RequestRecords
  <2>2. Become(r, new)
    BY <1>22 DEF Ttl
  <2> HIDE DEF new
  <2>3. OwnedRecord(new, owner)
    BY <1>0, <2>1 DEF OwnedRecord, NoDigestPCs
  <2>4. QED
    BY <1>22, <1>a, <1>b, <2>2, <2>3, BecomeOwned DEF Ttl
<1>23. CASE Clear(r)
  <2>1. \A u \in Users : index'[u] \subseteq index[u]
    BY <1>0, <1>23 DEF Clear, TypeOK
  <2>2. QED
    BY <1>12, <1>20, <1>23, <2>1 DEF Clear
<1>24. CASE SweepFails(r)
  BY <1>20, <1>24, <1>b DEF SweepFails
<1>25. CASE Erase(r)
  BY <1>9, <1>25, <1>a, FinishOwned DEF Erase
<1>26. CASE Crash(r)
  BY <1>26, <1>a, <1>b, FinishOwned DEF Crash
<1>27. QED
  BY <1>1, <1>2, <1>3, <1>4, <1>5, <1>6, <1>7, <1>8, <1>10, <1>11, <1>13, <1>14, <1>15, <1>16,
     <1>17, <1>18, <1>19, <1>21, <1>22, <1>23, <1>24, <1>25, <1>26 DEF Arrive, HandlerStep

\* Administrator, clock and cleanup: the stores only lose entries.
LEMMA EnvironmentLoses ==
    ASSUME OwnerInv,
           \/ \E u \in Users : AdminDelete(u)
           \/ \E t \in Tokens : Age(t) \/ KeyExpires(t)
           \/ \E c \in Cleaners : CleanerStep(c) \/ CleanerDies(c)
           \/ UNCHANGED vars
    PROVE  /\ \A t \in Tokens : row'[t] \in {None, row[t]} /\ cache'[t] \in {None, cache[t]}
           /\ \A u \in Users : index'[u] \subseteq index[u]
<1> USE DEF db, redis
<1>1. CASE \E u \in Users : AdminDelete(u)
  BY <1>1, WithoutLoses DEF AdminDelete
<1>2. CASE \E t \in Tokens : Age(t)
  BY <1>2 DEF Age
<1>3. CASE \E t \in Tokens : KeyExpires(t)
  BY <1>3 DEF KeyExpires, OwnerInv, TypeInv, TypeOK
<1>4. ASSUME NEW S, Evicted(S)
      PROVE  /\ \A t \in Tokens : cache'[t] \in {None, cache[t]}
             /\ \A u \in Users : index'[u] \subseteq index[u]
  BY <1>4, WithoutLoses DEF Evicted
<1>5. ASSUME NEW c \in Cleaners, CleanSelect(c) \/ CleanerDies(c)
      PROVE  row' = row /\ cache' = cache /\ index' = index
  BY <1>5 DEF CleanSelect, CleanerDies
<1>6. ASSUME NEW c \in Cleaners, CleanRedis(c) \/ CleanAborts(c)
      PROVE  row' = row /\ (UNCHANGED redis \/ Evicted(cleaner[c].seen))
  BY <1>6 DEF CleanRedis, CleanAborts
<1>7. ASSUME NEW c \in Cleaners, CleanRows(c)
      PROVE  row' = Without(row, cleaner[c].seen) /\ UNCHANGED redis
  BY <1>7 DEF CleanRows
<1>8. CASE UNCHANGED vars
  BY <1>8 DEF vars, ghost, excused
<1>9. CASE \E c \in Cleaners : CleanRedis(c) \/ CleanAborts(c)
  BY <1>4, <1>6, <1>9
<1>10. CASE \E c \in Cleaners : CleanRows(c)
  BY <1>7, <1>10, WithoutLoses
<1>11. QED
  BY <1>1, <1>2, <1>3, <1>5, <1>8, <1>9, <1>10 DEF CleanerStep

\* So rows, keys and indexes still agree with the handlers.
LEMMA OwnedEnvironment ==
    ASSUME OwnerInv,
           \/ \E u \in Users : AdminDelete(u)
           \/ \E t \in Tokens : Age(t) \/ KeyExpires(t)
           \/ \E c \in Cleaners : CleanerStep(c) \/ CleanerDies(c)
           \/ UNCHANGED vars
    PROVE  OwnedStores' /\ \A s \in Requests : OwnedRecord(req'[s], owner')
<1>1. /\ owner' = owner /\ req' = req /\ issued' = issued
  BY DEF AdminDelete, Age, KeyExpires, CleanerStep, CleanSelect, CleanRedis, CleanAborts,
         CleanRows, CleanerDies, vars
<1>2. \A s \in Requests : OwnedRecord(req'[s], owner')
  BY <1>1 DEF OwnerInv
<1>3. OwnedStores'
  BY <1>1, EnvironmentLoses, ShrinkOwned DEF OwnerInv
<1>4. QED
  BY <1>2, <1>3

\* Nothing is stored at first.
LEMMA OwnerInit == Init => OwnerInv
<1> SUFFICES ASSUME Init PROVE OwnerInv
  OBVIOUS
<1>1. OwnedStores
  BY DEF Init, OwnedStores
<1>2. \A r \in Requests : OwnedRecord(req[r], owner)
  BY DEF Init, OwnedRecord, Idle
<1>3. QED
  BY <1>1, <1>2, TypeInit DEF OwnerInv

\* Every step keeps the owners agreed.
LEMMA OwnerStep == OwnerInv /\ [Next]_vars => OwnerInv'
<1> SUFFICES ASSUME OwnerInv, [Next]_vars PROVE OwnerInv'
  OBVIOUS
<1>1. TypeInv'
  BY TypeStep DEF OwnerInv
<1>2. OwnedStores' /\ \A s \in Requests : OwnedRecord(req'[s], owner')
  BY OwnedStartIssue, OwnedHandler, OwnedEnvironment DEF Next
<1>3. QED
  BY <1>1, <1>2 DEF OwnerInv

\* A token stands for the same user in the database, the cache, the indexes and
\* every handler, so a cache hit authenticates nobody as somebody else.
THEOREM OneOwner == Spec => []OwnerAgreement
<1>1. OwnerInv => OwnerAgreement
  BY DEF OwnerInv, OwnedStores, OwnedRecord, OwnerAgreement
<1>2. QED
  BY <1>1, OwnerInit, OwnerStep, PTL DEF Spec

-----------------------------------------------------------------------------
-----------------------------------------------------------------------------
(* A session that was ended stays out *)

LogoutPCs == {"logout_row", "logout_read", "logout_clear"}
DropPCs   == {"drop_cached", "drop_row"}
SweepPCs  == {"members", "ttl", "clear", "erase"}
PlainPCs  == PCs \ (LogoutPCs \cup DropPCs \cup SweepPCs)

\* Tokens that were drawn and whose sign-in is over: nothing writes their row or
\* their key again.
Settled == {t \in Tokens : owner[t] # None /\ ~SigningIn(t)}

\* A token that is out for good.
Out(t) == t \in Settled /\ ~Usable(t)

\* What the handler in slot r has made true of the sessions its answer will claim
\* to have ended, the exempt ones left out.
EndRecord(r) ==
    /\ req[r].pc \in LogoutPCs => req[r].tok \in Settled
    /\ req[r].pc \in {"logout_read", "logout_clear"} => row[req[r].tok] = None
    /\ req[r].pc \in DropPCs => \E v \in Tokens : req[r].seen = {v} /\ req[r].due = {v}
    /\ req[r].pc = "drop_row" =>
          \A t \in req[r].due \ (uncleared \cup early) : t \in Settled /\ cache[t] = None
    /\ req[r].pc \in SweepPCs =>
          \A t \in req[r].due : /\ t \in Settled /\ owner[t] = req[r].user
                                /\ req[r].op = "logout_all" => row[t] = None
    /\ req[r].pc \in {"ttl", "clear"} =>
          \A t \in Tokens : cache[t] = req[r].user => t \in req[r].seen \cup unlisted
    /\ req[r].pc = "erase" =>
          \A t \in req[r].due \ (unswept \cup unlisted) : cache[t] = None

\* Every cached session is in its user's index, but for those saved into an index
\* that was being swept.
Indexed == \A t \in Tokens : cache[t] # None => t \in index[cache[t]] \cup unlisted

\* Two sign-ins under way have two tokens.
OneSignIn == \A r, s \in Requests :
    r # s /\ req[r].pc \in SigningPCs /\ req[s].pc \in SigningPCs => req[r].tok # req[s].tok

EndedOut == /\ \A t \in revoked \ (uncleared \cup early) : Out(t)
            /\ \A t \in swept \ (unswept \cup unlisted) : Out(t)

EndFacts == /\ \A r \in Requests : EndRecord(r)
            /\ Indexed /\ OneSignIn /\ EndedOut /\ issued \subseteq Settled

EndInv == OwnerInv /\ EndFacts

\* What no step undoes: a settled token stays settled, its user's, and without the
\* row or key it lacks; exemptions stay; a key written under a sweep is on record.
Onward ==
    /\ uncleared \subseteq uncleared' /\ early \subseteq early'
    /\ unlisted \subseteq unlisted' /\ unswept \subseteq unswept'
    /\ \A t \in Settled : /\ t \in Settled' /\ owner'[t] = owner[t]
                          /\ row[t] = None => row'[t] = None
                          /\ cache[t] = None => cache'[t] = None
    /\ \A t \in Tokens : \/ cache'[t] \in {None, cache[t]}
                         \/ t \in unlisted'
                         \/ ~BeingSwept(cache'[t])

\* The histories of exempt sessions only grow.
LEMMA ExemptGrow ==
    ASSUME [Next]_vars
    PROVE  /\ uncleared \subseteq uncleared' /\ early \subseteq early'
           /\ unlisted \subseteq unlisted' /\ unswept \subseteq unswept'
<1> USE DEF ghost, excused
<1>1. ASSUME NEW r \in Requests, Arrive(r) \/ Crash(r)
      PROVE  UNCHANGED excused
  BY <1>1 DEF Arrive, Crash, StartIssue, StartCached, StartUncached, StartLogout, StartDelete
<1>2. ASSUME NEW r \in Requests,
             \/ CommitRow(r) \/ CommitRefused(r) \/ AuthRow(r) \/ LogoutRow(r) \/ LogoutRead(r)
             \/ LogoutClear(r) \/ (\E v \in Tokens : PickDevice(r, v)) \/ PickRefused(r) \/ DropRow(r)
             \/ SweepRows(r) \/ Members(r) \/ Ttl(r) \/ Clear(r) \/ Erase(r)
      PROVE  UNCHANGED excused
  BY <1>2 DEF CommitRow, CommitRefused, AuthRow, LogoutRow, LogoutRead, LogoutClear, PickDevice,
              PickRefused, DropRow, SweepRows, Members, Ttl, Clear, Erase
<1>3. ASSUME NEW r \in Requests,
             SaveSession(r) \/ LogoutUncleared(r) \/ DropCached(r) \/ SweepFails(r)
      PROVE  /\ uncleared \subseteq uncleared' /\ early \subseteq early'
             /\ unlisted \subseteq unlisted' /\ unswept \subseteq unswept'
  BY <1>3 DEF SaveSession, LogoutUncleared, DropCached, SweepFails
<1>4. CASE \/ \E u \in Users : AdminDelete(u)
           \/ \E t \in Tokens : Age(t) \/ KeyExpires(t)
           \/ \E c \in Cleaners : CleanerStep(c) \/ CleanerDies(c)
           \/ UNCHANGED vars
  BY <1>4 DEF AdminDelete, Age, KeyExpires, CleanerStep, CleanSelect, CleanRedis, CleanAborts,
              CleanRows, CleanerDies, vars
<1>5. QED
  BY <1>1, <1>2, <1>3, <1>4 DEF Next, HandlerStep

\* A key appears only in SaveSession, which records it when its user is being swept.
LEMMA KeysAppear ==
    ASSUME OwnerInv, [Next]_vars, NEW t \in Tokens
    PROVE  \/ cache'[t] \in {None, cache[t]}
           \/ t \in unlisted'
           \/ ~BeingSwept(cache'[t])
<1> USE DEF db, redis
<1>1. ASSUME NEW r \in Requests, Arrive(r) \/ Crash(r)
      PROVE  cache' = cache
  BY <1>1 DEF Arrive, Crash, StartIssue, StartCached, StartUncached, StartLogout, StartDelete
<1>2. ASSUME NEW r \in Requests,
             \/ CommitRow(r) \/ CommitRefused(r) \/ AuthRow(r) \/ LogoutRow(r) \/ LogoutRead(r)
             \/ LogoutUncleared(r) \/ (\E v \in Tokens : PickDevice(r, v)) \/ PickRefused(r)
             \/ DropRow(r) \/ SweepRows(r) \/ Members(r) \/ Ttl(r) \/ SweepFails(r) \/ Erase(r)
      PROVE  cache' = cache
  BY <1>2 DEF CommitRow, CommitRefused, AuthRow, LogoutRow, LogoutRead, LogoutUncleared,
              PickDevice, PickRefused, DropRow, SweepRows, Members, Ttl, SweepFails, Erase
<1>3. ASSUME NEW r \in Requests, LogoutClear(r) \/ DropCached(r) \/ Clear(r)
      PROVE  cache'[t] \in {None, cache[t]}
  BY <1>3, WithoutLoses DEF LogoutClear, DropCached, Clear
<1>4. ASSUME NEW r \in Requests, SaveSession(r)
      PROVE  cache'[t] = cache[t] \/ t \in unlisted' \/ ~BeingSwept(cache'[t])
  BY <1>4 DEF SaveSession, OwnerInv, TypeInv, TypeOK
<1>5. CASE \/ \E u \in Users : AdminDelete(u)
           \/ \E x \in Tokens : Age(x) \/ KeyExpires(x)
           \/ \E c \in Cleaners : CleanerStep(c) \/ CleanerDies(c)
           \/ UNCHANGED vars
  BY <1>5, EnvironmentLoses
<1>6. QED
  BY <1>1, <1>2, <1>3, <1>4, <1>5 DEF Next, HandlerStep

\* So every step is one onward.
LEMMA StepOnward == OwnerInv /\ [Next]_vars => Onward
<1> SUFFICES ASSUME OwnerInv, [Next]_vars PROVE Onward
  OBVIOUS
<1>1. ASSUME NEW t \in Settled
      PROVE  owner'[t] = owner[t] /\ Keeps(t)
  <2>1. t \in Tokens /\ owner[t] # None /\ TypeInv
    BY <1>1 DEF Settled, OwnerInv
  <2>2. ASSUME NEW r \in Requests, NEW op \in IssueOps, NEW u \in Users, NEW x \in Tokens,
               StartIssue(r, op, u, x)
        PROVE  owner'[t] = owner[t] /\ Keeps(t)
    <3>1. x # t /\ owner'[t] = owner[t] /\ row' = row /\ cache' = cache
      BY <2>1, <2>2 DEF StartIssue, TypeInv, TypeOK, db, redis
    <3>2. SigningIn(t)' => SigningIn(t)
      BY <2>1, <2>2, <3>1 DEF StartIssue, Become, Idle, SigningIn, TypeInv, TypeOK
    <3>3. QED
      BY <3>1, <3>2 DEF Keeps
  <2>3. CASE UNCHANGED vars
    BY <2>3 DEF vars, Keeps, SigningIn
  <2>4. QED
    BY <2>1, <2>2, <2>3, HandlerShrinks, EnvironmentShrinks DEF Next
<1>2. ASSUME NEW t \in Settled
      PROVE  /\ t \in Settled' /\ owner'[t] = owner[t]
             /\ row[t] = None => row'[t] = None
             /\ cache[t] = None => cache'[t] = None
  BY <1>1 DEF Settled, Keeps
<1>3. QED
  BY <1>2, ExemptGrow, KeysAppear DEF Onward

\* A handler that does not move keeps its record.
LEMMA OthersKeep ==
    ASSUME EndInv, Onward, NEW s \in Requests, req'[s] = req[s]
    PROVE  EndRecord(s)'
<1>1. EndRecord(s)
  BY DEF EndInv, EndFacts
<1>2. req[s].pc \in LogoutPCs => req[s].tok \in Settled'
  BY <1>1 DEF EndRecord, Onward
<1>3. req[s].pc \in {"logout_read", "logout_clear"} => row'[req[s].tok] = None
  BY <1>1 DEF EndRecord, Onward, LogoutPCs
<1>4. req[s].pc = "drop_row" =>
        \A t \in req[s].due \ (uncleared' \cup early') : t \in Settled' /\ cache'[t] = None
  BY <1>1 DEF EndRecord, Onward
<1>5. req[s].pc \in SweepPCs =>
        \A t \in req[s].due : /\ t \in Settled' /\ owner'[t] = req[s].user
                              /\ req[s].op = "logout_all" => row'[t] = None
  BY <1>1 DEF EndRecord, Onward
<1>6. ASSUME req[s].pc \in {"ttl", "clear"}, NEW t \in Tokens, cache'[t] = req[s].user
      PROVE  t \in req[s].seen \cup unlisted'
  <2>1. BeingSwept(cache'[t]) /\ req[s].user # None
    BY <1>6, SessionsAssumption DEF BeingSwept, EndInv, OwnerInv, TypeInv, LocalsKnown, CallerPCs
  <2>2. QED
    BY <1>1, <1>6, <2>1 DEF EndRecord, Onward
<1>7. req[s].pc = "erase" =>
        \A t \in req[s].due \ (unswept' \cup unlisted') : cache'[t] = None
  BY <1>1 DEF EndRecord, Onward, SweepPCs
<1>8. QED
  BY <1>1, <1>2, <1>3, <1>4, <1>5, <1>6, <1>7 DEF EndRecord

\* What the step of handler r itself has to see to.
LEMMA EndClose ==
    ASSUME EndInv, Onward, NEW r \in Requests, NEW new, Become(r, new), EndRecord(r)', Indexed',
           new.pc \in SigningPCs =>
               \A s \in Requests \ {r} : req[s].pc \in SigningPCs => req[s].tok # new.tok,
           issued' \subseteq Settled',
           \A t \in revoked' \ revoked : t \in uncleared' \cup early' \/ Out(t)',
           \A t \in swept' \ swept : t \in unswept' \cup unlisted' \/ Out(t)'
    PROVE  EndFacts'
<1>1. \A s \in Requests : req'[s] = IF s = r THEN new ELSE req[s]
  BY DEF EndInv, OwnerInv, TypeInv, TypeOK, Become
<1>2. \A s \in Requests : EndRecord(s)'
  BY <1>1, OthersKeep
<1>3. OneSignIn'
  BY <1>1 DEF EndInv, EndFacts, OneSignIn
<1>4. ASSUME NEW t, Out(t)
      PROVE  Out(t)'
  BY <1>4 DEF Out, Usable, Onward
<1>5. EndedOut'
  <2>1. \A t \in revoked' \ (uncleared' \cup early') : Out(t)'
    BY <1>4 DEF EndInv, EndFacts, EndedOut, Onward
  <2>2. \A t \in swept' \ (unswept' \cup unlisted') : Out(t)'
    BY <1>4 DEF EndInv, EndFacts, EndedOut, Onward
  <2>3. QED
    BY <2>1, <2>2 DEF EndedOut
<1>6. QED
  BY <1>2, <1>3, <1>5 DEF EndFacts

\* A step of r that leaves Redis alone, ends nothing, and signs in at most where r did.
LEMMA StillStep ==
    ASSUME EndInv, Onward, NEW r \in Requests, NEW new, Become(r, new), EndRecord(r)',
           new.pc \in SigningPCs => req[r].pc \in SigningPCs /\ new.tok = req[r].tok,
           UNCHANGED <<redis, issued, revoked, swept>>
    PROVE  EndFacts'
<1>1. Indexed'
  BY DEF EndInv, EndFacts, Indexed, Onward, redis
<1>2. issued' \subseteq Settled'
  BY DEF EndInv, EndFacts, Onward
<1>3. new.pc \in SigningPCs =>
        \A s \in Requests \ {r} : req[s].pc \in SigningPCs => req[s].tok # new.tok
  BY DEF EndInv, EndFacts, OneSignIn
<1>4. QED
  BY <1>1, <1>2, <1>3, EndClose

\* A step to a record that claims nothing.
LEMMA PlainStep ==
    ASSUME EndInv, Onward, NEW r \in Requests, NEW new, Become(r, new), new.pc \in PlainPCs,
           new.pc \in SigningPCs => req[r].pc \in SigningPCs /\ new.tok = req[r].tok,
           UNCHANGED <<redis, issued, revoked, swept>>
    PROVE  EndFacts'
<1>1. req'[r].pc \in PlainPCs
  BY DEF Become, EndInv, OwnerInv, TypeInv, TypeOK
<1>2. EndRecord(r)'
  BY <1>1 DEF EndRecord, PlainPCs, LogoutPCs, DropPCs, SweepPCs
<1>3. QED
  BY <1>2, StillStep

\* Ending a handler in such a step.
LEMMA PlainFinish ==
    ASSUME EndInv, Onward, NEW r \in Requests, Finish(r), UNCHANGED <<redis, issued, revoked, swept>>
    PROVE  EndFacts'
<1>1. Idle.pc \in PlainPCs /\ Idle.pc \notin SigningPCs
  BY DEF Idle, PlainPCs, PCs, SigningPCs, LogoutPCs, DropPCs, SweepPCs
<1>2. QED
  BY <1>1, PlainStep DEF Finish

\* Drawing a token: no client and no other handler has it yet.
LEMMA EndStartIssue ==
    ASSUME EndInv, Onward, NEW r \in Requests, NEW op \in IssueOps, NEW u \in Users,
           NEW t \in Tokens, StartIssue(r, op, u, t)
    PROVE  EndFacts'
<1> DEFINE new == [Idle EXCEPT !.op = op, !.pc = "commit", !.user = u, !.tok = t]
<1>1. OwnerInv /\ TypeOK /\ owner[t] = None
  BY DEF EndInv, OwnerInv, TypeInv, StartIssue
<1>2. new.pc = "commit" /\ new.tok = t
  BY DEF Idle
<1>3. Become(r, new) /\ UNCHANGED <<redis, issued, revoked, swept>>
  BY DEF StartIssue, redis, ghost
<1> HIDE DEF new
<1>4. req'[r].pc = "commit"
  BY <1>1, <1>2, <1>3 DEF Become, TypeOK
<1>5. EndRecord(r)'
  BY <1>4 DEF EndRecord, LogoutPCs, DropPCs, SweepPCs
<1>6. ASSUME NEW s \in Requests, req[s].pc \in SigningPCs
      PROVE  req[s].tok # t
  BY <1>1, <1>6, SessionsAssumption DEF OwnerInv, OwnedRecord, TypeInv, LocalsKnown, TokenPCs
<1>7. Indexed' /\ issued' \subseteq Settled'
  BY <1>3 DEF EndInv, EndFacts, Indexed, Onward, redis
<1>8. QED
  BY <1>2, <1>3, <1>5, <1>6, <1>7, EndClose

\* Committing the row, and answering the sign-in.
LEMMA EndSignIn ==
    ASSUME EndInv, Onward, NEW r \in Requests, CommitRow(r) \/ CommitRefused(r) \/ SaveSession(r)
    PROVE  EndFacts'
<1>1. /\ TypeOK /\ TypeInv /\ req[r] \in RequestRecords /\ req[r].tok \in Tokens
      /\ req[r].user \in Users /\ req[r].pc \in SigningPCs
      /\ owner[req[r].tok] = req[r].user
  BY SessionsAssumption
     DEF EndInv, OwnerInv, TypeInv, TypeOK, LocalsKnown, OwnedRecord, CommitRow, CommitRefused,
         SaveSession, At, TokenPCs, CallerPCs, SigningPCs
<1>2. CASE CommitRefused(r)
  BY <1>2, PlainFinish DEF CommitRefused, redis, ghost
<1>3. CASE CommitRow(r) /\ req[r].op # "verify_signup"
  <2> DEFINE new == [req[r] EXCEPT !.pc = "save"]
  <2>1. new.pc = "save" /\ new.tok = req[r].tok
    BY <1>1 DEF RequestRecords
  <2>2. Become(r, new) /\ UNCHANGED <<redis, issued, revoked, swept>>
    BY <1>3 DEF CommitRow, Goto, ghost
  <2>3. "save" \in PlainPCs
    BY DEF PlainPCs, PCs, LogoutPCs, DropPCs, SweepPCs
  <2> HIDE DEF new
  <2>4. QED
    BY <1>1, <2>1, <2>2, <2>3, PlainStep
\* The handler that answers was the token's only sign-in.
<1>4. ASSUME Finish(r), owner' = owner, NEW t \in Tokens, t = req[r].tok
      PROVE  t \in Settled'
  <2>1. \A s \in Requests : req'[s] = IF s = r THEN Idle ELSE req[s]
    BY <1>1, <1>4 DEF Finish, Become, TypeOK
  <2>2. ASSUME SigningIn(t)'
        PROVE  FALSE
    <3>1. PICK s \in Requests : req'[s].pc \in SigningPCs /\ req'[s].tok = t
      BY <2>2 DEF SigningIn, SigningPCs
    <3>2. s # r
      BY <2>1, <3>1 DEF Idle, SigningPCs
    <3>3. QED
      BY <1>1, <1>4, <2>1, <3>1, <3>2 DEF EndInv, EndFacts, OneSignIn
  <2>3. owner'[t] # None
    BY <1>1, <1>4, SessionsAssumption
  <2>4. QED
    BY <2>2, <2>3 DEF Settled
<1>5. ASSUME Finish(r), owner' = owner, issued' = issued \cup {req[r].tok}, Indexed',
             revoked' = revoked, swept' = swept
      PROVE  EndFacts'
  <2>0. req[r].tok \in Settled'
    BY <1>1, <1>4, <1>5
  <2>1. issued' \subseteq Settled'
    BY <1>5, <2>0 DEF EndInv, EndFacts, Onward
  <2>2. Idle.pc = "idle" /\ Idle.pc \notin SigningPCs
    BY DEF Idle, SigningPCs
  <2>3. req'[r].pc = "idle"
    BY <1>1, <1>5, <2>2 DEF Finish, Become, TypeOK
  <2>4. EndRecord(r)'
    BY <2>3 DEF EndRecord, LogoutPCs, DropPCs, SweepPCs
  <2>5. QED
    BY <1>5, <2>1, <2>2, <2>4, EndClose DEF Finish
<1>6. CASE CommitRow(r) /\ req[r].op = "verify_signup"
  <2>1. Indexed'
    BY <1>6 DEF CommitRow, redis, ghost, EndInv, EndFacts, Indexed, Onward
  <2>2. QED
    BY <1>5, <1>6, <2>1 DEF CommitRow, ghost
<1>7. CASE SaveSession(r)
  <2>1. ASSUME UNCHANGED redis PROVE Indexed'
    BY <2>1 DEF redis, EndInv, EndFacts, Indexed, Onward
  <2>2. ASSUME cache' = [cache EXCEPT ![req[r].tok] = req[r].user],
               index' = [index EXCEPT ![req[r].user] = @ \cup {req[r].tok}]
        PROVE  Indexed'
    <3> SUFFICES ASSUME NEW t \in Tokens, cache'[t] # None
                 PROVE  t \in index'[cache'[t]] \cup unlisted'
      BY DEF Indexed
    <3>1. CASE t = req[r].tok
      BY <1>1, <2>2, <3>1 DEF TypeOK
    <3>2. CASE t # req[r].tok
      BY <1>1, <2>2, <3>2 DEF EndInv, EndFacts, Indexed, Onward, TypeOK
    <3>3. QED
      BY <3>1, <3>2
  <2>3. Indexed'
    BY <1>7, <2>1, <2>2 DEF SaveSession
  <2>4. QED
    BY <1>5, <1>7, <2>3 DEF SaveSession
<1>8. QED
  BY <1>2, <1>3, <1>6, <1>7

\* Keys taken out of the cache: what is still cached is still listed, when only
\* their own index entries go with them.
LEMMA IndexedAfter ==
    ASSUME EndInv, Onward, NEW S, cache' = Without(cache, S),
           \A t \in Tokens \ S : owner[t] \in Users /\ t \in index[owner[t]] => t \in index'[owner[t]]
    PROVE  Indexed'
<1> SUFFICES ASSUME NEW t \in Tokens, cache'[t] # None
             PROVE  t \in index'[cache'[t]] \cup unlisted'
  BY DEF Indexed
<1>1. t \notin S /\ cache'[t] = cache[t]
  BY DEF Without
<1>2. cache[t] = owner[t] /\ owner[t] \in Users
  BY <1>1 DEF EndInv, OwnerInv, OwnedStores, TypeInv, TypeOK
<1>3. QED
  BY <1>1, <1>2 DEF EndInv, EndFacts, Indexed, Onward

\* The steps of logout.
LEMMA EndLogout ==
    ASSUME EndInv, Onward, NEW r \in Requests,
           \/ \E t \in Tokens : StartLogout(r, t)
           \/ LogoutRow(r) \/ LogoutRead(r) \/ LogoutClear(r) \/ LogoutUncleared(r)
    PROVE  EndFacts'
<1>0. /\ TypeOK /\ req[r] \in RequestRecords /\ EndRecord(r) /\ OwnedRecord(req[r], owner)
      /\ req[r].pc \in LogoutPCs => req[r].tok \in Tokens
  BY DEF EndInv, EndFacts, OwnerInv, TypeInv, TypeOK, LocalsKnown, TokenPCs, LogoutPCs, SigningPCs
<1> USE DEF db, redis, ghost, excused
\* Moving on, with the row gone once logout_row is behind.
<1>1. ASSUME NEW new, Become(r, new), UNCHANGED <<redis, issued, revoked, swept>>,
             new.pc \in LogoutPCs, new.tok \in Settled,
             new.pc # "logout_row" => row'[new.tok] = None
      PROVE  EndFacts'
  <2>1. req'[r] = new
    BY <1>0, <1>1 DEF Become, TypeOK
  <2>2. EndRecord(r)'
    BY <1>1, <2>1 DEF EndRecord, LogoutPCs, DropPCs, SweepPCs, Onward
  <2>3. new.pc \notin SigningPCs
    BY <1>1 DEF LogoutPCs, SigningPCs
  <2>4. QED
    BY <1>1, <2>2, <2>3, StillStep
<1>2. ASSUME NEW t \in Tokens, StartLogout(r, t)
      PROVE  EndFacts'
  <2> DEFINE new == [Idle EXCEPT !.op = "logout", !.pc = "logout_row", !.user = row[t], !.tok = t]
  <2>1. new.pc = "logout_row" /\ new.tok = t
    BY DEF Idle
  <2>2. Become(r, new) /\ UNCHANGED <<redis, issued, revoked, swept>> /\ t \in Settled
    BY <1>2 DEF StartLogout, EndInv, EndFacts
  <2> HIDE DEF new
  <2>3. QED
    BY <1>1, <2>1, <2>2 DEF LogoutPCs
<1>3. CASE LogoutRow(r)
  <2> DEFINE new == [req[r] EXCEPT !.pc = "logout_read"]
  <2>1. new.pc = "logout_read" /\ new.tok = req[r].tok
    BY <1>0 DEF RequestRecords
  <2>2. Become(r, new) /\ UNCHANGED <<redis, issued, revoked, swept>>
    BY <1>3 DEF LogoutRow, Goto
  <2>3. req[r].tok \in Settled /\ req[r].tok \in Tokens
    BY <1>0, <1>3 DEF LogoutRow, At, EndRecord, LogoutPCs
  <2>4. row'[req[r].tok] = None
    BY <1>3, <2>3 DEF LogoutRow, Without
  <2> HIDE DEF new
  <2>5. QED
    BY <1>1, <2>1, <2>2, <2>3, <2>4 DEF LogoutPCs
<1>4. CASE LogoutRead(r)
  <2> DEFINE new == [req[r] EXCEPT !.pc = "logout_clear", !.user = cache[req[r].tok]]
  <2>1. new.pc = "logout_clear" /\ new.tok = req[r].tok
    BY <1>0 DEF RequestRecords
  <2>2. Become(r, new) /\ UNCHANGED <<redis, issued, revoked, swept>> /\ row' = row
    BY <1>4 DEF LogoutRead
  <2>3. req[r].tok \in Settled /\ row[req[r].tok] = None
    BY <1>0, <1>4 DEF LogoutRead, At, EndRecord, LogoutPCs
  <2> HIDE DEF new
  <2>4. QED
    BY <1>1, <2>1, <2>2, <2>3 DEF LogoutPCs
\* The answer: row and key are gone, or the failure is on record.
<1>5. ASSUME LogoutClear(r) \/ LogoutUncleared(r)
      PROVE  EndFacts'
  <2>0. PICK t \in Tokens : t = req[r].tok
    BY <1>0, <1>5 DEF LogoutClear, LogoutUncleared, At, LogoutPCs
  <2>1. /\ t \in Settled /\ row[t] = None
        /\ Finish(r) /\ revoked' = revoked \cup {t}
        /\ issued' = issued /\ swept' = swept /\ row' = row
    BY <1>0, <1>5, <2>0 DEF LogoutClear, LogoutUncleared, At, EndRecord, LogoutPCs, Logout200
  <2>2. Indexed'
    <3>1. CASE LogoutUncleared(r)
      BY <3>1 DEF LogoutUncleared, EndInv, EndFacts, Indexed, Onward
    <3>2. CASE LogoutClear(r)
      <4>1. \A u \in Users : index'[u] = IF u = req[r].user THEN index[u] \ {t} ELSE index[u]
        BY <2>0, <3>2 DEF LogoutClear
      <4>2. cache' = Without(cache, {t})
        BY <2>0, <3>2 DEF LogoutClear
      <4>3. \A x \in Tokens \ {t} : cache'[x] = cache[x] /\ cache[x] \in Users \cup {None}
        BY <1>0, <4>2 DEF Without, TypeOK
      <4>4. cache'[t] = None
        BY <2>1, <4>2 DEF Without
      <4>5. ASSUME NEW x \in Tokens, cache'[x] # None
            PROVE  x \in index'[cache'[x]] \cup unlisted'
        BY <4>1, <4>3, <4>4, <4>5 DEF EndInv, EndFacts, Indexed, Onward
      <4>6. QED
        BY <4>5 DEF Indexed
    <3>3. QED
      BY <1>5, <3>1, <3>2
  <2>3. t \in uncleared' \/ cache'[t] = None
    BY <1>5, <2>0 DEF LogoutClear, LogoutUncleared, Without
  <2>4. t \in uncleared' \/ Out(t)'
    BY <2>1, <2>3 DEF Out, Usable, Onward
  <2>5. Idle.pc = "idle" /\ Idle.pc \notin SigningPCs
    BY DEF Idle, SigningPCs
  <2>6. req'[r].pc = "idle"
    BY <1>0, <2>1, <2>5 DEF Finish, Become, TypeOK
  <2>7. EndRecord(r)'
    BY <2>6 DEF EndRecord, LogoutPCs, DropPCs, SweepPCs
  <2>8. issued' \subseteq Settled'
    BY <2>1 DEF EndInv, EndFacts, Onward
  <2>9. \A x \in revoked' \ revoked : x \in uncleared' \cup early' \/ Out(x)'
    BY <2>1, <2>4
  <2>10. \A x \in swept' \ swept : x \in unswept' \cup unlisted' \/ Out(x)'
    BY <2>1
  <2>11. QED
    BY <2>1, <2>2, <2>5, <2>7, <2>8, <2>9, <2>10, EndClose DEF Finish
<1>6. QED
  BY <1>2, <1>3, <1>4, <1>5

\* The steps of a device logout.
LEMMA EndDevice ==
    ASSUME EndInv, Onward, NEW r \in Requests,
           \/ \E v \in Tokens : PickDevice(r, v)
           \/ PickRefused(r) \/ DropCached(r) \/ DropRow(r)
    PROVE  EndFacts'
<1>0. /\ TypeOK /\ req[r] \in RequestRecords /\ EndRecord(r) /\ OwnedRecord(req[r], owner)
      /\ req[r].pc \in DropPCs => req[r].user \in Users
  BY DEF EndInv, EndFacts, OwnerInv, TypeInv, TypeOK, LocalsKnown, CallerPCs, DropPCs, SigningPCs
<1> USE DEF db, redis, ghost, excused
<1>1. ASSUME NEW v \in Tokens, PickDevice(r, v)
      PROVE  EndFacts'
  <2> DEFINE new == [req[r] EXCEPT !.pc = "drop_cached", !.seen = {v}, !.due = {v}]
  <2>1. new.pc = "drop_cached" /\ new.seen = {v} /\ new.due = {v}
    BY <1>0 DEF RequestRecords
  <2>2. Become(r, new) /\ UNCHANGED <<redis, issued, revoked, swept>>
    BY <1>1 DEF PickDevice
  <2> HIDE DEF new
  <2>3. req'[r] = new
    BY <1>0, <2>2 DEF Become, TypeOK
  <2>4. EndRecord(r)' /\ new.pc \notin SigningPCs
    BY <2>1, <2>3 DEF EndRecord, SigningPCs, LogoutPCs, SweepPCs
  <2>5. QED
    BY <2>2, <2>4, StillStep
<1>2. CASE PickRefused(r)
  BY <1>2, PlainFinish DEF PickRefused
\* The key is gone; if a sign-in has still to write it, that is on record.
<1>3. CASE DropCached(r)
  <2>1. PICK v \in Tokens : req[r].seen = {v} /\ req[r].due = {v}
    BY <1>0, <1>3 DEF DropCached, At, EndRecord, DropPCs
  <2>2. owner[v] = req[r].user /\ owner[v] # None /\ req[r].user \in Users
    BY <1>0, <1>3, <2>1 DEF OwnedRecord, DropCached, At, DropPCs
  <2>3. /\ Goto(r, "drop_row") /\ row' = row /\ UNCHANGED <<issued, revoked, swept>>
        /\ \/ /\ cache' = Without(cache, {v})
              /\ index' = [index EXCEPT ![req[r].user] = @ \ {v}]
              /\ early' = early \cup {t \in {v} : SigningIn(t)}
           \/ UNCHANGED redis /\ uncleared' = uncleared \cup {v}
    BY <1>3, <2>1 DEF DropCached
  <2>4. v \notin uncleared' \cup early' => v \in Settled' /\ cache'[v] = None
    BY <2>1, <2>2, <2>3 DEF Without, Settled, Onward
  <2> DEFINE new == [req[r] EXCEPT !.pc = "drop_row"]
  <2>5. new.pc = "drop_row" /\ new.seen = {v} /\ new.due = {v}
    BY <1>0, <2>1 DEF RequestRecords
  <2>6. Become(r, new)
    BY <2>3 DEF Goto
  <2> HIDE DEF new
  <2>7. req'[r] = new
    BY <1>0, <2>6 DEF Become, TypeOK
  <2>8. EndRecord(r)' /\ new.pc \notin SigningPCs
    BY <2>4, <2>5, <2>7 DEF EndRecord, SigningPCs, LogoutPCs, DropPCs, SweepPCs
  <2>9. Indexed'
    <3>1. CASE UNCHANGED redis
      BY <3>1 DEF EndInv, EndFacts, Indexed, Onward
    <3>2. CASE /\ cache' = Without(cache, {v})
               /\ index' = [index EXCEPT ![req[r].user] = @ \ {v}]
      <4>1. \A t \in Tokens \ {v} : t \in index[owner[t]] => t \in index'[owner[t]]
        BY <1>0, <3>2 DEF TypeOK
      <4>2. QED
        BY <3>2, <4>1, IndexedAfter
    <3>3. QED
      BY <2>3, <3>1, <3>2
  <2>10. issued' \subseteq Settled'
    BY <2>3 DEF EndInv, EndFacts, Onward
  <2>11. QED
    BY <2>3, <2>6, <2>8, <2>9, <2>10, EndClose
\* One session is looked up; when its row was there, it is gone now.
<1>4. CASE DropRow(r)
  <2> DEFINE gone == req[r].seen \cap Rows(req[r].user)
  <2>1. PICK v \in Tokens : req[r].seen = {v} /\ req[r].due = {v}
    BY <1>0, <1>4 DEF DropRow, At, EndRecord, DropPCs
  <2>2. v \notin uncleared \cup early => v \in Settled /\ cache[v] = None
    BY <1>0, <1>4, <2>1 DEF DropRow, At, EndRecord
  <2>3. /\ row' = Without(row, gone)
        /\ revoked' = IF gone = {} THEN revoked ELSE revoked \cup {v}
        /\ UNCHANGED <<redis, issued, swept>> /\ Finish(r)
    BY <1>4, <2>1 DEF DropRow
  <2>4. gone # {} => row'[v] = None
    BY <2>1, <2>3 DEF Without
  <2> HIDE DEF gone
  <2>5. gone # {} => v \in uncleared' \cup early' \/ Out(v)'
    BY <2>2, <2>3, <2>4 DEF Out, Usable, Onward
  <2>6. \A t \in revoked' \ revoked : t \in uncleared' \cup early' \/ Out(t)'
    BY <2>3, <2>5
  <2>7. Idle.pc = "idle" /\ Idle.pc \notin SigningPCs
    BY DEF Idle, SigningPCs
  <2>8. req'[r].pc = "idle"
    BY <1>0, <2>3, <2>7 DEF Finish, Become, TypeOK
  <2>9. EndRecord(r)'
    BY <2>8 DEF EndRecord, LogoutPCs, DropPCs, SweepPCs
  <2>10. Indexed' /\ issued' \subseteq Settled'
    BY <2>3 DEF EndInv, EndFacts, Indexed, Onward
  <2>11. QED
    BY <2>3, <2>6, <2>7, <2>9, <2>10, EndClose DEF Finish
<1>5. QED
  BY <1>1, <1>2, <1>3, <1>4

\* Authentication, and a worker that dies.
LEMMA EndCalls ==
    ASSUME EndInv, Onward, NEW r \in Requests,
           \/ \E op \in {"logout_all", "logout_device"}, t \in Tokens :
                  StartCached(r, op, t) \/ StartUncached(r, op, t)
           \/ AuthRow(r) \/ Crash(r)
    PROVE  EndFacts'
<1>0. req[r] \in RequestRecords /\ TypeOK
  BY DEF EndInv, OwnerInv, TypeInv, TypeOK
<1>1. /\ \A op : FirstStep(op) \in PlainPCs /\ FirstStep(op) \notin SigningPCs
      /\ "auth_row" \in PlainPCs /\ "auth_row" \notin SigningPCs
  BY DEF FirstStep, PlainPCs, PCs, SigningPCs, LogoutPCs, DropPCs, SweepPCs
<1> USE DEF db, redis, ghost, excused
<1>2. ASSUME NEW op \in {"logout_all", "logout_device"}, NEW t \in Tokens, StartCached(r, op, t)
      PROVE  EndFacts'
  <2> DEFINE new == [Idle EXCEPT !.op = op, !.pc = FirstStep(op), !.user = cache[t], !.tok = t]
  <2>1. new.pc = FirstStep(op)
    BY DEF Idle
  <2>2. Become(r, new) /\ UNCHANGED <<redis, issued, revoked, swept>>
    BY <1>2 DEF StartCached
  <2> HIDE DEF new
  <2>3. QED
    BY <1>1, <2>1, <2>2, PlainStep
<1>3. ASSUME NEW op \in {"logout_all", "logout_device"}, NEW t \in Tokens, StartUncached(r, op, t)
      PROVE  EndFacts'
  <2> DEFINE new == [Idle EXCEPT !.op = op, !.pc = "auth_row", !.tok = t]
  <2>1. new.pc = "auth_row"
    BY DEF Idle
  <2>2. Become(r, new) /\ UNCHANGED <<redis, issued, revoked, swept>>
    BY <1>3 DEF StartUncached
  <2> HIDE DEF new
  <2>3. QED
    BY <1>1, <2>1, <2>2, PlainStep
<1>4. CASE AuthRow(r)
  <2> DEFINE new == [req[r] EXCEPT !.pc = FirstStep(req[r].op), !.user = row[req[r].tok]]
  <2>1. new.pc = FirstStep(req[r].op)
    BY <1>0 DEF RequestRecords
  <2>2. UNCHANGED <<redis, issued, revoked, swept>> /\ (Finish(r) \/ Become(r, new))
    BY <1>4 DEF AuthRow
  <2> HIDE DEF new
  <2>3. QED
    BY <1>1, <2>1, <2>2, PlainStep, PlainFinish
<1>5. CASE Crash(r)
  BY <1>5, PlainFinish DEF Crash
<1>6. QED
  BY <1>2, <1>3, <1>4, <1>5

\* A sweep that starts, or is about to read the index, with the sessions clients hold.
LEMMA EndSweepStarts ==
    ASSUME EndInv, Onward, NEW r \in Requests,
           SweepRows(r) \/ \E u \in Users : StartDelete(r, u)
    PROVE  EndFacts'
<1>0. req[r] \in RequestRecords /\ TypeOK
  BY DEF EndInv, OwnerInv, TypeInv, TypeOK
<1> USE DEF db, redis, ghost, excused
<1>1. ASSUME NEW u, NEW new, Become(r, new), UNCHANGED <<redis, issued, revoked, swept>>,
             new.pc = "members", new.user = u, new.due = IssuedTo(u),
             new.op = "logout_all" => \A t \in IssuedTo(u) : row'[t] = None
      PROVE  EndFacts'
  <2>1. req'[r] = new
    BY <1>0, <1>1 DEF Become, TypeOK
  <2>2. \A t \in IssuedTo(u) : t \in Settled' /\ owner'[t] = u
    BY DEF IssuedTo, EndInv, EndFacts, Onward
  <2>3. EndRecord(r)'
    BY <1>1, <2>1, <2>2 DEF EndRecord, LogoutPCs, DropPCs
  <2>4. new.pc \notin SigningPCs
    BY <1>1 DEF SigningPCs
  <2>5. QED
    BY <1>1, <2>3, <2>4, StillStep
<1>2. ASSUME NEW u \in Users, StartDelete(r, u)
      PROVE  EndFacts'
  <2> DEFINE new == [Idle EXCEPT !.op = "delete_account", !.pc = "members", !.user = u,
                                 !.due = IssuedTo(u)]
  <2>1. new.pc = "members" /\ new.user = u /\ new.due = IssuedTo(u) /\ new.op # "logout_all"
    BY DEF Idle
  <2>2. Become(r, new) /\ UNCHANGED <<redis, issued, revoked, swept>>
    BY <1>2 DEF StartDelete
  <2> HIDE DEF new
  <2>3. QED
    BY <1>1, <2>1, <2>2
<1>3. CASE SweepRows(r)
  <2> DEFINE u == req[r].user
             new == [req[r] EXCEPT !.pc = "members", !.due = IssuedTo(req[r].user)]
  <2>1. new.pc = "members" /\ new.user = u /\ new.due = IssuedTo(u)
    BY <1>0 DEF RequestRecords
  <2>2. Become(r, new) /\ UNCHANGED <<redis, issued, revoked, swept>> /\ row' = Without(row, Rows(u))
    BY <1>3 DEF SweepRows
  <2>3. u \in Users
    BY <1>3 DEF SweepRows, At, EndInv, OwnerInv, TypeInv, LocalsKnown, CallerPCs
  <2>4. ASSUME NEW t \in IssuedTo(u)
        PROVE  row'[t] = None
    <3>1. t \in Tokens /\ row[t] \in {None, u}
      BY <1>0, <2>4 DEF IssuedTo, EndInv, OwnerInv, OwnedStores, TypeOK
    <3>2. QED
      BY <2>2, <3>1 DEF Without, Rows
  <2> HIDE DEF new, u
  <2>5. QED
    BY <1>1, <2>1, <2>2, <2>4
<1>4. QED
  BY <1>2, <1>3

\* A sweep that answers, or goes on to erase the account: its sessions have lost
\* their keys, or are exempt.
LEMMA EndSwept ==
    ASSUME EndInv, Onward, NEW r \in Requests, req[r].pc \in SweepPCs, Swept200(r), Indexed',
           UNCHANGED <<issued, revoked>>,
           \A t \in req[r].due : t \in unswept' \cup unlisted' \/ cache'[t] = None
    PROVE  EndFacts'
<1>0. TypeOK /\ req[r] \in RequestRecords /\ EndRecord(r)
  BY DEF EndInv, EndFacts, OwnerInv, TypeInv, TypeOK
<1>1. \A t \in req[r].due : /\ t \in Settled' /\ owner'[t] = req[r].user
                            /\ req[r].op = "logout_all" => row'[t] = None
  BY <1>0 DEF EndRecord, Onward
<1>2. issued' \subseteq Settled'
  BY DEF EndInv, EndFacts, Onward
<1>3. CASE req[r].op = "logout_all"
  <2>1. swept' = swept \cup req[r].due /\ Finish(r)
    BY <1>3 DEF Swept200
  <2>2. ASSUME NEW t \in swept' \ swept
        PROVE  t \in unswept' \cup unlisted' \/ Out(t)'
    BY <1>1, <1>3, <2>1, <2>2 DEF Out, Usable
  <2>3. Idle.pc = "idle" /\ Idle.pc \notin SigningPCs
    BY DEF Idle, SigningPCs
  <2>4. req'[r].pc = "idle"
    BY <1>0, <2>1, <2>3 DEF Finish, Become, TypeOK
  <2>5. EndRecord(r)'
    BY <2>4 DEF EndRecord, LogoutPCs, DropPCs, SweepPCs
  <2>6. QED
    BY <1>2, <2>1, <2>2, <2>3, <2>5, EndClose DEF Finish
<1>4. CASE req[r].op # "logout_all"
  <2> DEFINE new == [req[r] EXCEPT !.pc = "erase"]
  <2>1. new.pc = "erase" /\ new.due = req[r].due /\ new.user = req[r].user /\ new.op = req[r].op
    BY <1>0 DEF RequestRecords
  <2>2. Become(r, new) /\ swept' = swept
    BY <1>4 DEF Swept200, Goto
  <2> HIDE DEF new
  <2>3. req'[r] = new
    BY <1>0, <2>2 DEF Become, TypeOK
  <2>4. EndRecord(r)'
    BY <1>1, <1>4, <2>1, <2>3 DEF EndRecord, LogoutPCs, DropPCs
  <2>5. new.pc \notin SigningPCs
    BY <2>1 DEF SigningPCs
  <2>6. QED
    BY <1>2, <2>2, <2>4, <2>5, EndClose
<1>5. QED
  BY <1>3, <1>4

\* The three calls of delete_all_user_sessions, and the deletion after it.
LEMMA EndSweep ==
    ASSUME EndInv, Onward, NEW r \in Requests,
           Members(r) \/ Ttl(r) \/ Clear(r) \/ SweepFails(r) \/ Erase(r)
    PROVE  EndFacts'
<1>0. /\ TypeOK /\ req[r] \in RequestRecords /\ EndRecord(r)
      /\ req[r].pc \in SweepPCs /\ req[r].user \in Users /\ req[r].user # None
      /\ \A t \in Tokens : cache[t] # None => cache[t] = owner[t]
      /\ \A t \in Tokens : row[t] # None => row[t] = owner[t]
  BY SessionsAssumption
     DEF EndInv, EndFacts, OwnerInv, OwnedStores, TypeInv, TypeOK, LocalsKnown, CallerPCs, SweepPCs,
         Members, Ttl, Clear, SweepFails, Erase, At
<1>a. \A t \in req[r].due : t \in Tokens /\ owner[t] = req[r].user
  BY <1>0 DEF EndRecord, RequestRecords
<1> USE DEF db, redis, ghost, excused
\* On to the next call, with the digests still to clear.
<1>1. ASSUME NEW new, Become(r, new), UNCHANGED <<redis, issued, revoked, swept>>,
             new.pc \in {"ttl", "clear"}, new.due = req[r].due, new.user = req[r].user,
             new.op = req[r].op,
             \A t \in Tokens : cache[t] = req[r].user => t \in new.seen \cup unlisted
      PROVE  EndFacts'
  <2>1. req'[r] = new
    BY <1>0, <1>1 DEF Become, TypeOK
  <2>2. \A t \in req[r].due : /\ t \in Settled' /\ owner'[t] = req[r].user
                              /\ req[r].op = "logout_all" => row'[t] = None
    BY <1>0 DEF EndRecord, Onward
  <2>3. \A t \in Tokens : cache'[t] = req[r].user => t \in new.seen \cup unlisted'
    BY <1>1 DEF Onward
  <2>4. EndRecord(r)'
    BY <1>1, <2>1, <2>2, <2>3 DEF EndRecord, LogoutPCs, DropPCs
  <2>5. new.pc \notin SigningPCs
    BY <1>1 DEF SigningPCs
  <2>6. QED
    BY <1>1, <2>4, <2>5, StillStep
<1>2. CASE Members(r) /\ index[req[r].user] = {}
  <2>1. Swept200(r) /\ UNCHANGED <<redis, issued, revoked>>
    BY <1>2 DEF Members
  <2>2. Indexed'
    BY <2>1 DEF EndInv, EndFacts, Indexed, Onward
  <2>3. ASSUME NEW t \in req[r].due
        PROVE  t \in unswept' \cup unlisted' \/ cache'[t] = None
    BY <1>0, <1>a, <1>2, <2>1 DEF EndInv, EndFacts, Indexed, Onward
  <2>4. QED
    BY <1>0, <2>1, <2>2, <2>3, EndSwept
<1>3. CASE Members(r) /\ index[req[r].user] # {}
  <2> DEFINE new == [req[r] EXCEPT !.pc = "ttl", !.seen = index[req[r].user]]
  <2>1. /\ new.pc = "ttl" /\ new.seen = index[req[r].user] /\ new.due = req[r].due
        /\ new.user = req[r].user /\ new.op = req[r].op
    BY <1>0 DEF RequestRecords
  <2>2. Become(r, new) /\ UNCHANGED <<redis, issued, revoked, swept>>
    BY <1>3 DEF Members
  <2> HIDE DEF new
  <2>3. \A t \in Tokens : cache[t] = req[r].user => t \in new.seen \cup unlisted
    BY <1>0, <2>1 DEF EndInv, EndFacts, Indexed
  <2>4. QED
    BY <1>1, <2>1, <2>2, <2>3
<1>4. CASE Ttl(r)
  <2> DEFINE live == {t \in req[r].seen : cache[t] # None}
             new  == [req[r] EXCEPT !.pc = "clear", !.seen = live]
  <2>1. /\ new.pc = "clear" /\ new.seen = live /\ new.due = req[r].due
        /\ new.user = req[r].user /\ new.op = req[r].op
    BY <1>0 DEF RequestRecords
  <2>2. Become(r, new) /\ UNCHANGED <<redis, issued, revoked, swept>>
    BY <1>4 DEF Ttl
  <2>3. \A t \in Tokens : cache[t] = req[r].user => t \in live \cup unlisted
    BY <1>0, <1>4 DEF EndRecord, Ttl, At
  <2> HIDE DEF new, live
  <2>4. QED
    BY <1>1, <2>1, <2>2, <2>3
\* What the last pipeline misses was saved since the index was read.
<1>5. CASE Clear(r)
  <2>1. /\ cache' = Without(cache, req[r].seen) /\ index' = [index EXCEPT ![req[r].user] = {}]
        /\ Swept200(r) /\ UNCHANGED <<issued, revoked>>
    BY <1>5 DEF Clear
  <2>2. \A t \in Tokens : cache[t] = req[r].user => t \in req[r].seen \cup unlisted
    BY <1>0, <1>5 DEF EndRecord, Clear, At
  <2>3. \A t \in Tokens : cache'[t] = IF t \in req[r].seen THEN None ELSE cache[t]
    BY <2>1 DEF Without
  <2>4. ASSUME NEW t \in Tokens, cache'[t] # None
        PROVE  t \in index'[cache'[t]] \cup unlisted'
    BY <1>0, <2>1, <2>2, <2>3, <2>4 DEF EndInv, EndFacts, Indexed, Onward, TypeOK
  <2>5. Indexed'
    BY <2>4 DEF Indexed
  <2>6. ASSUME NEW t \in req[r].due
        PROVE  t \in unswept' \cup unlisted' \/ cache'[t] = None
    BY <1>0, <1>a, <2>2, <2>3 DEF Onward
  <2>7. QED
    BY <1>0, <2>1, <2>5, <2>6, EndSwept
<1>6. CASE SweepFails(r)
  <2>1. Swept200(r) /\ UNCHANGED <<redis, issued, revoked>> /\ unswept' = unswept \cup req[r].due
    BY <1>6 DEF SweepFails
  <2>2. Indexed'
    BY <2>1 DEF EndInv, EndFacts, Indexed, Onward
  <2>3. QED
    BY <1>0, <2>1, <2>2, EndSwept
\* The rows go with the account.
<1>7. CASE Erase(r)
  <2>1. /\ row' = Without(row, Rows(req[r].user)) /\ swept' = swept \cup req[r].due
        /\ Finish(r) /\ UNCHANGED <<redis, issued, revoked>>
    BY <1>7 DEF Erase
  <2>2. \A t \in req[r].due : /\ t \in Settled' /\ row'[t] = None
                              /\ t \in unswept \cup unlisted \/ cache[t] = None
    BY <1>0, <1>a, <1>7, <2>1 DEF EndRecord, Erase, At, Without, Rows, Onward
  <2>3. ASSUME NEW t \in swept' \ swept
        PROVE  t \in unswept' \cup unlisted' \/ Out(t)'
    BY <2>1, <2>2, <2>3 DEF Out, Usable, Onward
  <2>4. Idle.pc = "idle" /\ Idle.pc \notin SigningPCs
    BY DEF Idle, SigningPCs
  <2>5. req'[r].pc = "idle"
    BY <1>0, <2>1, <2>4 DEF Finish, Become, TypeOK
  <2>6. EndRecord(r)'
    BY <2>5 DEF EndRecord, LogoutPCs, DropPCs, SweepPCs
  <2>7. Indexed' /\ issued' \subseteq Settled'
    BY <2>1 DEF EndInv, EndFacts, Indexed, Onward
  <2>8. QED
    BY <2>1, <2>3, <2>4, <2>6, <2>7, EndClose DEF Finish
<1>8. QED
  BY <1>2, <1>3, <1>4, <1>5, <1>6, <1>7

\* The administrator, the clock and the cleanup move no handler.
LEMMA EndEnvironment ==
    ASSUME EndInv, Onward,
           \/ \E u \in Users : AdminDelete(u)
           \/ \E t \in Tokens : Age(t) \/ KeyExpires(t)
           \/ \E c \in Cleaners : CleanerStep(c) \/ CleanerDies(c)
           \/ UNCHANGED vars
    PROVE  EndFacts'
<1>1. req' = req /\ UNCHANGED <<issued, revoked, swept>>
  BY DEF AdminDelete, Age, KeyExpires, CleanerStep, CleanSelect, CleanRedis, CleanAborts,
         CleanRows, CleanerDies, vars, ghost
<1>2. \A s \in Requests : EndRecord(s)'
  BY <1>1, OthersKeep
<1>3. OneSignIn' /\ issued' \subseteq Settled'
  BY <1>1 DEF EndInv, EndFacts, OneSignIn, Onward
<1>4. ASSUME NEW t, Out(t)
      PROVE  Out(t)'
  BY <1>4 DEF Out, Usable, Onward
<1>5. EndedOut'
  <2>1. \A t \in revoked' \ (uncleared' \cup early') : Out(t)'
    BY <1>1, <1>4 DEF EndInv, EndFacts, EndedOut, Onward
  <2>2. \A t \in swept' \ (unswept' \cup unlisted') : Out(t)'
    BY <1>1, <1>4 DEF EndInv, EndFacts, EndedOut, Onward
  <2>3. QED
    BY <2>1, <2>2 DEF EndedOut
<1>6. Indexed'
  <2>1. CASE \E t \in Tokens : KeyExpires(t)
    <3>1. PICK t \in Tokens : cache' = [cache EXCEPT ![t] = None] /\ index' = index
      BY <2>1 DEF KeyExpires
    <3>2. QED
      BY <3>1 DEF EndInv, EndFacts, Indexed, Onward, OwnerInv, TypeInv, TypeOK
  <2>2. ASSUME NEW S, Evicted(S)
        PROVE  Indexed'
    <3>1. \A t \in Tokens \ S :
              owner[t] \in Users /\ t \in index[owner[t]] => t \in index'[owner[t]]
      BY <2>2 DEF Evicted
    <3>2. QED
      BY <2>2, <3>1, IndexedAfter DEF Evicted
  <2>3. CASE UNCHANGED redis
    BY <2>3 DEF redis, EndInv, EndFacts, Indexed, Onward
  <2>4. UNCHANGED redis \/ (\E t \in Tokens : KeyExpires(t)) \/ \E S : Evicted(S)
    BY DEF AdminDelete, Age, CleanerStep, CleanSelect, CleanRedis, CleanAborts, CleanRows,
           CleanerDies, vars, redis
  <2>5. QED
    BY <2>1, <2>2, <2>3, <2>4
<1>7. QED
  BY <1>2, <1>3, <1>5, <1>6 DEF EndFacts

\* Nothing is issued and nothing ended at first.
LEMMA EndInit == Init => EndInv
<1> SUFFICES ASSUME Init PROVE EndFacts
  BY OwnerInit DEF EndInv
<1>1. \A r \in Requests : req[r].pc = "idle"
  BY DEF Init, Idle
<1>2. QED
  BY <1>1 DEF Init, EndFacts, EndRecord, Indexed, OneSignIn, EndedOut,
              SigningPCs, LogoutPCs, DropPCs, SweepPCs

\* Every step keeps an ended session out.
LEMMA EndStep == EndInv /\ [Next]_vars => EndInv'
<1> SUFFICES ASSUME EndInv, [Next]_vars PROVE EndFacts'
  BY OwnerStep DEF EndInv
<1>1. Onward
  BY StepOnward DEF EndInv
<1>2. ASSUME NEW r \in Requests, Arrive(r) \/ HandlerStep(r) \/ Crash(r)
      PROVE  EndFacts'
  BY <1>1, <1>2, EndStartIssue, EndSignIn, EndLogout, EndDevice, EndCalls, EndSweepStarts, EndSweep
     DEF Arrive, HandlerStep
<1>3. QED
  BY <1>1, <1>2, EndEnvironment DEF Next

\* A session logged out, by its holder or from another device, is accepted by no
\* later request: no sign-in, logout, sweep, cleanup or crash in flight brings its
\* row or its key back.  Exempt are a delete that Redis refused, and a session that
\* a device logout dropped while its own sign-in had still to save it.
THEOREM LoggedOutStaysOut == Spec => []RevokedStaysOut
<1>1. EndInv => RevokedStaysOut
  BY DEF EndInv, EndFacts, EndedOut, Out, RevokedStaysOut
<1>2. QED
  BY <1>1, EndInit, EndStep, PTL DEF Spec

\* After a sign-out-everywhere, or a deletion, no session held when it began is
\* accepted, whatever requests overlap it and whatever crashes.  Exempt are those
\* left because Redis failed, and those saved into an index that a sign-out had
\* read and then deleted.
THEOREM SweptStayOut == Spec => []SweptStaysOut
<1>1. EndInv => SweptStaysOut
  BY DEF EndInv, EndFacts, EndedOut, Out, SweptStaysOut
<1>2. QED
  BY <1>1, EndInit, EndStep, PTL DEF Spec

-----------------------------------------------------------------------------
(* A session ends by its own user *)

\* Session t loses its row or its key.
Loses(t) == (row[t] # None /\ row'[t] = None) \/ (cache[t] # None /\ cache'[t] = None)

\* Its account goes, or a handler of its user, or of its own token, makes the step.
Rightly(t) ==
    \/ owner[t] \notin account'
    \/ \E r \in Requests : req[r] # req'[r] /\ (req[r].user = owner[t] \/ req[r].tok = t)

\* The cleanup holds sessions past their thirty days only.
CleansAged == \A c \in Cleaners : cleaner[c].seen \subseteq aged

OwnInv == OwnerInv /\ CleansAged

\* Deleting keys takes those keys.
LEMMA WithoutTakes ==
    ASSUME NEW f, NEW S, NEW t \in Tokens, f[t] # None, Without(f, S)[t] = None
    PROVE  t \in S
BY DEF Without

\* A handler that changes its step has changed, and the sessions of its user and its own
\* token are its to end.
LEMMA MovedRightly ==
    ASSUME OwnerInv, NEW r \in Requests, NEW t, req'[r].pc # req[r].pc,
           req[r].user = owner[t] \/ req[r].tok = t
    PROVE  Rightly(t)
BY DEF Rightly

\* A handler ends sessions of its user, or that of its own token.
LEMMA HandlerEndsItsOwn ==
    ASSUME OwnerInv, NEW r \in Requests, Arrive(r) \/ HandlerStep(r) \/ Crash(r),
           NEW t \in Tokens, Loses(t)
    PROVE  Rightly(t)
<1> USE DEF db, redis, Loses
<1>1. /\ TypeOK /\ req[r] \in RequestRecords
      /\ row[t] \in {None, owner[t]} /\ cache[t] \in {None, owner[t]}
      /\ \A x \in req[r].seen : owner[x] = req[r].user
      /\ req[r].pc \in SigningPCs => req[r].user \in Users
  BY DEF OwnerInv, OwnedStores, OwnedRecord, TypeInv, TypeOK, LocalsKnown, CallerPCs
<1>2. Idle.pc = "idle"
  BY DEF Idle
<1>3. ASSUME NEW new, Become(r, new) PROVE req'[r] = new
  BY <1>1, <1>3 DEF Become, TypeOK
<1>4. ASSUME NEW p, Goto(r, p) PROVE req'[r].pc = p
  <2>1. [req[r] EXCEPT !.pc = p].pc = p
    BY <1>1 DEF RequestRecords
  <2>2. QED
    BY <1>3, <1>4, <2>1 DEF Goto
<1>5. ASSUME Finish(r) PROVE req'[r].pc = "idle"
  BY <1>2, <1>3, <1>5 DEF Finish
<1>6. ~(row' = row /\ cache' = cache)
  OBVIOUS
<1>7. ~Arrive(r) /\ ~Crash(r) /\ ~CommitRefused(r) /\ ~AuthRow(r) /\ ~LogoutRead(r)
  BY <1>6 DEF Arrive, Crash, StartIssue, StartCached, StartUncached, StartLogout, StartDelete,
              CommitRefused, AuthRow, LogoutRead
<1>8. /\ ~LogoutUncleared(r) /\ ~(\E v \in Tokens : PickDevice(r, v)) /\ ~PickRefused(r)
      /\ ~Members(r) /\ ~Ttl(r) /\ ~SweepFails(r)
  BY <1>6 DEF LogoutUncleared, PickDevice, PickRefused, Members, Ttl, SweepFails
<1>9. ~CommitRow(r) /\ ~SaveSession(r)
  BY <1>1, SessionsAssumption DEF CommitRow, SaveSession, At, TypeOK, SigningPCs
<1>10. CASE LogoutRow(r)
  BY <1>4, <1>10, WithoutTakes, MovedRightly DEF LogoutRow, At
<1>11. CASE LogoutClear(r)
  BY <1>5, <1>11, WithoutTakes, MovedRightly DEF LogoutClear, At, Logout200
<1>12. CASE DropCached(r)
  BY <1>1, <1>4, <1>12, WithoutTakes, MovedRightly DEF DropCached, At
<1>13. CASE DropRow(r)
  BY <1>1, <1>5, <1>13, WithoutTakes, MovedRightly DEF DropRow, At
<1>14. ASSUME t \in Rows(req[r].user), row[t] # None PROVE req[r].user = owner[t]
  BY <1>1, <1>14 DEF Rows
<1>15. CASE SweepRows(r)
  <2>1. [req[r] EXCEPT !.pc = "members", !.due = IssuedTo(req[r].user)].pc = "members"
    BY <1>1 DEF RequestRecords
  <2>2. req[r].pc = "sweep_rows" /\ req'[r].pc = "members"
    BY <1>3, <1>15, <2>1 DEF SweepRows, At
  <2>3. row[t] # None /\ t \in Rows(req[r].user)
    BY <1>15, WithoutTakes DEF SweepRows
  <2>4. QED
    BY <1>14, <2>2, <2>3, MovedRightly
<1>16. CASE Clear(r)
  <2>1. req[r].pc = "clear" /\ req'[r].pc # "clear"
    BY <1>4, <1>5, <1>16 DEF Clear, Swept200, At
  <2>2. t \in req[r].seen
    BY <1>16, WithoutTakes DEF Clear
  <2>3. QED
    BY <1>1, <2>1, <2>2, MovedRightly
<1>17. CASE Erase(r)
  <2>1. req[r].pc = "erase" /\ req'[r].pc = "idle"
    BY <1>5, <1>17 DEF Erase, At
  <2>2. row[t] # None /\ t \in Rows(req[r].user)
    BY <1>17, WithoutTakes DEF Erase
  <2>3. QED
    BY <1>14, <2>1, <2>2, MovedRightly
<1>18. QED
  BY <1>7, <1>8, <1>9, <1>10, <1>11, <1>12, <1>13, <1>15, <1>16, <1>17 DEF HandlerStep

\* The administrator ends the sessions of the account that goes, the clock and the cleanup
\* those past their thirty days.
LEMMA OthersEndTheOld ==
    ASSUME OwnInv, NEW t \in Tokens \ aged, Loses(t),
           \/ \E u \in Users : AdminDelete(u)
           \/ \E x \in Tokens : Age(x) \/ KeyExpires(x)
           \/ \E c \in Cleaners : CleanerStep(c) \/ CleanerDies(c)
    PROVE  Rightly(t)
<1> USE DEF db, redis, Loses
<1>1. TypeOK /\ row[t] \in {None, owner[t]} /\ \A c \in Cleaners : t \notin cleaner[c].seen
  BY DEF OwnInv, OwnerInv, OwnedStores, TypeInv, CleansAged
<1>2. ~(row' = row /\ cache' = cache)
  OBVIOUS
<1>3. ASSUME NEW u \in Users, AdminDelete(u) PROVE Rightly(t)
  <2>1. t \in Rows(u) /\ row[t] # None
    BY <1>3, WithoutTakes DEF AdminDelete
  <2>2. owner[t] = u
    BY <1>1, <2>1 DEF Rows
  <2>3. QED
    BY <1>3, <2>2 DEF AdminDelete, Rightly
<1>4. ASSUME NEW x \in Tokens PROVE ~Age(x) /\ ~KeyExpires(x)
  BY <1>1, <1>2 DEF Age, KeyExpires, TypeOK
<1>5. ASSUME NEW c \in Cleaners PROVE ~CleanSelect(c) /\ ~CleanerDies(c)
  BY <1>2 DEF CleanSelect, CleanerDies
<1>6. ASSUME NEW c \in Cleaners PROVE ~CleanRedis(c) /\ ~CleanAborts(c) /\ ~CleanRows(c)
  BY <1>1, <1>2, WithoutTakes DEF CleanRedis, CleanAborts, CleanRows, Evicted
<1>7. QED
  BY <1>3, <1>4, <1>5, <1>6 DEF CleanerStep

\* The cleanup never holds a young session.
LEMMA OwnInit == Init => OwnInv
BY OwnerInit DEF Init, OwnInv, CleansAged

\* Every step keeps what the cleanup is about to delete aged.
LEMMA OwnStep == OwnInv /\ [Next]_vars => OwnInv'
<1> SUFFICES ASSUME OwnInv, [Next]_vars PROVE CleansAged'
  BY OwnerStep DEF OwnInv
<1> USE DEF CleansAged
<1>1. CleansAged /\ cleaner \in [Cleaners -> [pc : {"idle", "redis", "rows"}, seen : SUBSET Tokens]]
  BY DEF OwnInv, OwnerInv, TypeInv, TypeOK
<1>2. ASSUME NEW r \in Requests, Arrive(r) \/ HandlerStep(r) \/ Crash(r)
      PROVE  cleaner' = cleaner /\ aged' = aged
  <2>1. Arrive(r) => cleaner' = cleaner /\ aged' = aged
    BY DEF Arrive, StartIssue, StartCached, StartUncached, StartLogout, StartDelete
  <2>2. HandlerStep(r) => cleaner' = cleaner /\ aged' = aged
    BY DEF HandlerStep, CommitRow, CommitRefused, SaveSession, AuthRow, LogoutRow, LogoutRead,
           LogoutClear, LogoutUncleared, PickDevice, PickRefused, DropCached, DropRow, SweepRows,
           Members, Ttl, Clear, SweepFails, Erase
  <2>3. QED
    BY <1>2, <2>1, <2>2 DEF Crash
<1>3. CASE UNCHANGED vars \/ (\E u \in Users : AdminDelete(u))
  BY <1>1, <1>3 DEF vars, AdminDelete
<1>4. ASSUME NEW t \in Tokens, Age(t) \/ KeyExpires(t) PROVE CleansAged'
  BY <1>1, <1>4 DEF Age, KeyExpires
<1>5. ASSUME NEW c \in Cleaners, CleanerStep(c) \/ CleanerDies(c) PROVE CleansAged'
  <2>1. aged' = aged
    BY <1>5 DEF CleanerStep, CleanSelect, CleanRedis, CleanAborts, CleanRows, CleanerDies
  <2>2. cleaner'[c].seen \in {{}, cleaner[c].seen, Expired} /\ \A d \in Cleaners \ {c} : cleaner'[d] = cleaner[d]
    <3>1. CASE CleanSelect(c)
      BY <1>1, <3>1 DEF CleanSelect
    <3>2. CASE CleanRedis(c)
      BY <1>1, <3>2 DEF CleanRedis
    <3>3. CASE CleanAborts(c) \/ CleanRows(c) \/ CleanerDies(c)
      BY <1>1, <3>3 DEF CleanAborts, CleanRows, CleanerDies
    <3>4. QED
      BY <1>5, <3>1, <3>2, <3>3 DEF CleanerStep
  <2>3. Expired \subseteq aged
    BY DEF Expired
  <2>4. QED
    BY <1>1, <2>1, <2>2, <2>3
<1>6. QED
  BY <1>1, <1>2, <1>3, <1>4, <1>5 DEF Next

\* A session young enough to live ends only by a step taken for its own user, or with its
\* account.
THEOREM SessionsEndByTheirOwn == Spec => OwnSessionsOnly
<1>1. OwnInv /\ [Next]_vars =>
        [\A t \in Tokens \ aged :
           (row[t] # None /\ row'[t] = None) \/ (cache[t] # None /\ cache'[t] = None) =>
              \/ owner[t] \notin account'
              \/ \E r \in Requests : req[r] # req'[r] /\ (req[r].user = owner[t] \/ req[r].tok = t)]_vars
  <2> SUFFICES ASSUME OwnInv, Next, NEW t \in Tokens \ aged, Loses(t)
               PROVE  Rightly(t)
    BY DEF Loses, Rightly
  <2>1. QED
    BY HandlerEndsItsOwn, OthersEndTheOld DEF Next, OwnInv
<1>2. QED
  BY <1>1, OwnInit, OwnStep, PTL DEF Spec, OwnSessionsOnly
=============================================================================
