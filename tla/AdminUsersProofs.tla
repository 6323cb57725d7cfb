-------------------------- MODULE AdminUsersProofs ---------------------------
(***************************************************************************)
(* What holds of AdminUsers for any accounts, tokens and requests: types,   *)
(* the super administrators' standing, true answers, ended sessions, and    *)
(* who may act on whom when nobody overlaps.                                *)
(***************************************************************************)
EXTENDS AdminUsers, TLAPS

-----------------------------------------------------------------------------
(* What a step does to the handlers *)

\* What a handler's locals hold in the steps that use them; J is jwt.
Known(q, J) ==
    /\ q.op = "login" \/ q.pc \in {"insert", "save", "list"} => q.tok \in Tokens
    /\ q.pc \in {"insert", "save", "list"} => q.caller \in Accounts /\ J[q.tok] \in Claims
    /\ q.pc \in {"load", "commit", "answer"} =>
         q.op \in Changes /\ q.value \in ValuesOf(q.op) /\ q.target \in Accounts
    /\ q.pc \in {"load", "drop", "drop_row"} => q.caller \in Accounts
    /\ q.pc = "drop_row" => q.op = "logout"

HandlersOK == req \in [Requests -> Handlers] /\ \A r \in Requests : Known(req[r], jwt)

Signed == \A t \in held : jwt[t] \in Claims

TypeInv == TypeOK /\ Signed /\ HandlersOK

\* p is q, but that others have been at work.
Marks(p, q) ==
    /\ p \in Handlers
    /\ p.op = q.op /\ p.pc = q.pc /\ p.tok = q.tok /\ p.caller = q.caller /\ p.crole = q.crole
    /\ p.target = q.target /\ p.loaded = q.loaded /\ p.value = q.value /\ p.seen = q.seen
    /\ p.alone => q.alone
    /\ q.touched => p.touched

\* Handler r became rec, the others are as they were but for the marks.
Became(r, rec) ==
    /\ req' \in [Requests -> Handlers]
    /\ req'[r] = rec
    /\ \A s \in Requests \ {r} : Marks(req'[s], req[s])

\* Every record is a mark of itself.
LEMMA MarksItself == ASSUME NEW q \in Handlers PROVE Marks(q, q)
BY DEF Marks

\* The idle record has its type.
LEMMA IdleType == Idle \in Handlers
BY DEF Idle, Handlers, OpNames, PCs, Values, Roles

\* A plain step changes one handler.
LEMMA BecomeOne ==
    ASSUME req \in [Requests -> Handlers], NEW r \in Requests, NEW rec \in Handlers,
           Become(r, rec)
    PROVE  Became(r, rec)
<1>1. req' = [req EXCEPT ![r] = rec]
  BY DEF Become
<1>2. \A s \in Requests \ {r} : req'[s] = req[s]
  BY <1>1
<1>3. QED
  BY <1>1, <1>2, MarksItself DEF Became

\* An arriving request takes the others' solitude.
LEMMA BeginOne ==
    ASSUME req \in [Requests -> Handlers], NEW r \in Requests, NEW rec \in Handlers,
           Begin(r, rec)
    PROVE  /\ At(r, "idle")
           /\ \E b \in BOOLEAN :
                /\ Became(r, [rec EXCEPT !.alone = b])
                /\ b => \A q \in Requests : At(q, "idle")
           /\ \A s \in Requests \ {r} : ~req'[s].alone
<1> DEFINE b == \A q \in Requests : At(q, "idle")
<1>1. b \in BOOLEAN
  OBVIOUS
<1>2. At(r, "idle") /\ req' = [s \in Requests |-> IF s = r THEN [rec EXCEPT !.alone = b]
                                                  ELSE [req[s] EXCEPT !.alone = FALSE]]
  BY DEF Begin
<1> HIDE DEF b
<1>3. [rec EXCEPT !.alone = b] \in Handlers
  BY <1>1 DEF Handlers
<1>4. ASSUME NEW s \in Requests \ {r}
      PROVE  Marks(req'[s], req[s]) /\ ~req'[s].alone
  <2>1. req[s] \in Handlers /\ req'[s] = [req[s] EXCEPT !.alone = FALSE]
    BY <1>2
  <2>2. QED
    BY <2>1 DEF Marks, Handlers
<1>5. req' \in [Requests -> Handlers]
  <2>1. \A s \in Requests : req'[s] \in Handlers
    BY <1>2, <1>3, <1>4 DEF Marks
  <2>2. QED
    BY <1>2, <2>1
<1>6. Became(r, [rec EXCEPT !.alone = b])
  BY <1>2, <1>4, <1>5 DEF Became
<1>7. b => \A q \in Requests : At(q, "idle")
  BY DEF b
<1>8. QED
  BY <1>1, <1>2, <1>4, <1>6, <1>7

\* A write tells those it concerns.
LEMMA TouchOne ==
    ASSUME req \in [Requests -> Handlers], NEW r \in Requests, NEW rec \in Handlers,
           NEW a, NEW f, Touch(r, a, f, rec)
    PROVE  /\ Became(r, rec)
           /\ \A s \in Requests \ {r} :
                req[s].target = a /\ f \in {Field(req[s].op), "row"} => req'[s].touched
<1>1. req' = [s \in Requests |->
              IF s = r THEN rec
              ELSE IF req[s].target = a /\ f \in {Field(req[s].op), "row"}
                     THEN [req[s] EXCEPT !.touched = TRUE] ELSE req[s]]
  BY DEF Touch
<1>2. ASSUME NEW s \in Requests \ {r}
      PROVE  /\ Marks(req'[s], req[s])
             /\ req[s].target = a /\ f \in {Field(req[s].op), "row"} => req'[s].touched
  <2>1. req[s] \in Handlers
    OBVIOUS
  <2>2. CASE req[s].target = a /\ f \in {Field(req[s].op), "row"}
    <3>1. req'[s] = [req[s] EXCEPT !.touched = TRUE]
      BY <1>1, <2>2
    <3>2. QED
      BY <2>1, <3>1 DEF Marks, Handlers
  <2>3. CASE ~(req[s].target = a /\ f \in {Field(req[s].op), "row"})
    <3>1. req'[s] = req[s]
      BY <1>1, <2>3
    <3>2. QED
      BY <2>1, <2>3, <3>1, MarksItself
  <2>4. QED
    BY <2>2, <2>3
<1>3. req' \in [Requests -> Handlers]
  <2>1. \A s \in Requests : req'[s] \in Handlers
    BY <1>1, <1>2 DEF Marks
  <2>2. QED
    BY <1>1, <2>1
<1>4. QED
  BY <1>1, <1>2, <1>3 DEF Became

-----------------------------------------------------------------------------
(* Type correctness *)

\* Handler r changed, the others at most in their marks.
Keeps(r) == HandlersOK' /\ \A s \in Requests \ {r} : Marks(req'[s], req[s])

\* The handlers stay as they should be when the one that moves does.
LEMMA HandlersKept ==
    ASSUME HandlersOK, NEW r \in Requests, NEW rec, Became(r, rec), Known(rec, jwt'),
           \A t \in Tokens : jwt[t] \in Claims => jwt'[t] \in Claims
    PROVE  Keeps(r)
<1>1. ASSUME NEW s \in Requests PROVE Known(req'[s], jwt')
  <2>1. CASE s = r
    BY <2>1 DEF Became
  <2>2. CASE s # r
    <3>1. Marks(req'[s], req[s]) /\ Known(req[s], jwt)
      BY <2>2 DEF Became, HandlersOK
    <3>2. QED
      BY <3>1 DEF Marks, Known
  <2>3. QED
    BY <2>1, <2>2
<1>2. QED
  BY <1>1 DEF Keeps, HandlersOK, Became

\* The idle record's locals are of no use to any step.
LEMMA IdleKnown == \A J : Known(Idle, J)
BY DEF Known, Idle

\* So it is for the handler that becomes rec and touches no token.
LEMMA Becoming ==
    ASSUME HandlersOK, NEW r \in Requests, NEW rec \in Handlers, Become(r, rec),
           Known(rec, jwt), jwt' = jwt
    PROVE  Keeps(r)
BY BecomeOne, HandlersKept DEF HandlersOK

\* And for the handler that ends.
LEMMA Finishing ==
    ASSUME HandlersOK, NEW r \in Requests, Finish(r), jwt' = jwt
    PROVE  Keeps(r)
BY Becoming, IdleType, IdleKnown DEF Finish

\* And for the one that arrives.
LEMMA Beginning ==
    ASSUME HandlersOK, NEW r \in Requests, NEW rec \in Handlers, Begin(r, rec),
           Known(rec, jwt'), \A t \in Tokens : jwt[t] \in Claims => jwt'[t] \in Claims
    PROVE  Keeps(r)
<1>1. PICK b \in BOOLEAN : Became(r, [rec EXCEPT !.alone = b])
  BY BeginOne DEF HandlersOK
<1>2. Known([rec EXCEPT !.alone = b], jwt')
  BY DEF Known, Handlers
<1>3. QED
  BY <1>1, <1>2, HandlersKept

\* Initially everything has its type.
LEMMA TypeInit == Init => TypeInv
<1> SUFFICES ASSUME Init PROVE TypeInv
  OBVIOUS
<1>1. account \in [Accounts -> Rows \cup {None}]
  BY DEF Init, Rows, Statuses
<1>2. HandlersOK
  BY IdleType, IdleKnown DEF Init, HandlersOK
<1>3. QED
  BY <1>1, <1>2 DEF Init, TypeInv, TypeOK, Signed, HandlersOK

\* A token that a login signs is a token, and says what it said or nothing before.
LEMMA StartLoginType ==
    ASSUME TypeInv, NEW r \in Requests, NEW a \in Accounts, StartLogin(r, a)
    PROVE  TypeInv' /\ Keeps(r)
<1>1. PICK t \in Signs(a) :
        /\ jwt' = [jwt EXCEPT ![t] = Claim(a)]
        /\ Begin(r, [Idle EXCEPT !.op = "login", !.pc = "insert", !.caller = a, !.tok = t])
  BY DEF StartLogin
<1> DEFINE rec == [Idle EXCEPT !.op = "login", !.pc = "insert", !.caller = a, !.tok = t]
<1>2. t \in Tokens
  BY <1>1 DEF Signs, TypeInv, HandlersOK, Known
<1>3. Claim(a) \in Claims
  BY DEF Claim, Claims, TypeInv, TypeOK, Rows, StartLogin
<1>4. jwt' \in [Tokens -> Claims \cup {None}] /\ \A d \in Tokens : jwt[d] \in Claims => jwt'[d] \in Claims
  BY <1>1, <1>2, <1>3 DEF TypeInv, TypeOK
<1>5. rec \in Handlers /\ rec.op = "login" /\ rec.pc = "insert" /\ rec.tok = t /\ rec.caller = a
  BY <1>2, IdleType DEF Handlers, OpNames, PCs, Idle
<1>6. Begin(r, rec)
  BY <1>1
<1> HIDE DEF rec
<1>7. jwt'[t] \in Claims
  BY <1>1, <1>2, <1>3 DEF TypeInv, TypeOK
<1>8. Known(rec, jwt')
  BY <1>2, <1>5, <1>7 DEF Known
<1>9. Keeps(r)
  BY <1>4, <1>5, <1>6, <1>8, Beginning DEF TypeInv
<1>10. QED
  BY <1>4, <1>9 DEF StartLogin, sessions, TypeInv, TypeOK, Signed, Keeps, HandlersOK

\* Whoever passes require_admin is an account.
LEMMA CallerType ==
    ASSUME TypeInv, NEW t \in Tokens, Authorized(t)
    PROVE  jwt[t] \in Claims /\ jwt[t].sub \in Accounts /\ account[jwt[t].sub] \in Rows
<1>1. jwt[t] \in Claims
  BY DEF Authorized, TypeInv, Signed
<1>2. QED
  BY <1>1 DEF Authorized, TypeInv, TypeOK, Claims

\* So its request record is one.
LEMMA CallerRecord ==
    ASSUME TypeInv, NEW t \in Tokens, Authorized(t), NEW op \in OpNames, NEW pc \in PCs
    PROVE  /\ Caller(t, op, pc) \in Handlers
           /\ Caller(t, op, pc).op = op /\ Caller(t, op, pc).pc = pc
           /\ Caller(t, op, pc).caller = jwt[t].sub
           /\ Caller(t, op, pc).crole = account[jwt[t].sub].role
<1>1. jwt[t].sub \in Accounts /\ account[jwt[t].sub].role \in Roles
  BY CallerType DEF Rows
<1>2. QED
  BY <1>1, IdleType DEF Caller, Handlers, Idle

\* What an arrival that signs nothing leaves alone.
LEMMA ArrivingType ==
    ASSUME TypeInv, NEW r \in Requests, NEW rec \in Handlers, Known(rec, jwt), Begin(r, rec),
           UNCHANGED <<account, tokens, sessions>>
    PROVE  TypeInv' /\ Keeps(r)
<1>1. Keeps(r)
  BY Beginning DEF TypeInv, tokens
<1>2. QED
  BY <1>1 DEF TypeInv, TypeOK, Signed, Keeps, HandlersOK, tokens, sessions

\* The endpoints that act on another account.
LEMMA StartChangeType ==
    ASSUME TypeInv, NEW r \in Requests, NEW t \in Tokens, NEW op \in Changes, NEW b \in Accounts,
           NEW value \in ValuesOf(op), StartChange(r, t, op, b, value)
    PROVE  TypeInv' /\ Keeps(r)
<1> DEFINE c   == Caller(t, op, "load")
           rec == [c EXCEPT !.target = b, !.value = value]
<1>1. op \in OpNames /\ "load" \in PCs /\ value \in Values
  BY DEF Changes, OpNames, PCs, ValuesOf, Values, Roles, Statuses, Assignable
<1>2. c \in Handlers /\ c.op = op /\ c.pc = "load" /\ c.caller \in Accounts
  BY <1>1, CallerRecord, CallerType DEF StartChange
<1> HIDE DEF c
<1>3. rec \in Handlers /\ Known(rec, jwt)
  BY <1>1, <1>2 DEF Handlers, Known, Changes
<1>4. Begin(r, rec)
  BY DEF StartChange, c
<1> HIDE DEF rec
<1>5. QED
  BY <1>3, <1>4, ArrivingType DEF StartChange

\* The device list.
LEMMA StartDevicesType ==
    ASSUME TypeInv, NEW r \in Requests, NEW t \in Tokens, StartDevices(r, t)
    PROVE  TypeInv' /\ Keeps(r)
<1> DEFINE c   == Caller(t, "devices", "list")
           rec == [c EXCEPT !.tok = t]
<1>1. "devices" \in OpNames /\ "list" \in PCs
  BY DEF OpNames, PCs
<1>2. c \in Handlers /\ c.op = "devices" /\ c.pc = "list" /\ c.caller \in Accounts
  BY <1>1, CallerRecord, CallerType DEF StartDevices
<1> HIDE DEF c
<1>3. rec \in Handlers /\ Known(rec, jwt)
  BY <1>2, CallerType DEF Handlers, Known, StartDevices
<1>4. Begin(r, rec)
  BY DEF StartDevices, c
<1> HIDE DEF rec
<1>5. QED
  BY <1>3, <1>4, ArrivingType DEF StartDevices

\* The logouts, of the tokens seen.
LEMMA LoggingOutRecord ==
    ASSUME TypeInv, NEW t \in Tokens, Authorized(t), NEW op \in {"logout", "logout_all"},
           NEW seen \in SUBSET Tokens
    PROVE  LET rec == [Caller(t, op, "drop") EXCEPT !.seen = seen]
           IN  /\ rec \in Handlers /\ Known(rec, jwt)
               /\ rec.op = op /\ rec.pc = "drop" /\ rec.seen = seen
               /\ rec.caller = jwt[t].sub
<1> DEFINE c == Caller(t, op, "drop")
<1>1. op \in OpNames /\ "drop" \in PCs
  BY DEF OpNames, PCs
<1>2. c \in Handlers /\ c.op = op /\ c.pc = "drop" /\ c.caller = jwt[t].sub /\ c.caller \in Accounts
  BY <1>1, CallerRecord, CallerType
<1> HIDE DEF c
<1>3. LET rec == [c EXCEPT !.seen = seen]
      IN  /\ rec \in Handlers /\ Known(rec, jwt)
          /\ rec.op = op /\ rec.pc = "drop" /\ rec.seen = seen /\ rec.caller = jwt[t].sub
  BY <1>2 DEF Handlers, Known
<1>4. QED
  BY <1>3 DEF c

\* Logout of one device.
LEMMA StartLogoutType ==
    ASSUME TypeInv, NEW r \in Requests, NEW t \in Tokens, NEW d \in Tokens, StartLogout(r, t, d)
    PROVE  TypeInv' /\ Keeps(r)
<1> DEFINE rec == [Caller(t, "logout", "drop") EXCEPT !.seen = {d}]
<1>1. rec \in Handlers /\ Known(rec, jwt)
  BY LoggingOutRecord DEF StartLogout
<1>2. Begin(r, rec)
  BY DEF StartLogout
<1> HIDE DEF rec
<1>3. QED
  BY <1>1, <1>2, ArrivingType DEF StartLogout

\* Logout of all devices.
LEMMA StartLogoutAllType ==
    ASSUME TypeInv, NEW r \in Requests, NEW t \in Tokens, StartLogoutAll(r, t)
    PROVE  TypeInv' /\ Keeps(r)
<1> DEFINE seen == {d \in Tokens : row[d] = jwt[t].sub}
           rec  == [Caller(t, "logout_all", "drop") EXCEPT !.seen = seen]
<1>1. seen \in SUBSET Tokens
  OBVIOUS
<1>2. Begin(r, rec)
  BY DEF StartLogoutAll
<1> HIDE DEF seen
<1>3. rec \in Handlers /\ Known(rec, jwt)
  BY <1>1, LoggingOutRecord DEF StartLogoutAll
<1> HIDE DEF rec
<1>4. QED
  BY <1>2, <1>3, ArrivingType DEF StartLogoutAll

\* A row is inserted, and a logout that had an earlier one of this token told so.
LEMMA InsertRowType ==
    ASSUME TypeInv, NEW r \in Requests, InsertRow(r)
    PROVE  TypeInv' /\ Keeps(r)
<1> DEFINE t == req[r].tok
<1>1. t \in Tokens /\ req[r].caller \in Accounts /\ jwt[t] \in Claims /\ req[r] \in Handlers
  BY DEF InsertRow, At, TypeInv, HandlersOK, Known
<1>2. UNCHANGED <<account, jwt, held, cached>>
  BY DEF InsertRow, tokens
<1>3. row' \in [Tokens -> Accounts \cup {None}] /\ ended' \subseteq Tokens
  BY <1>1 DEF InsertRow, TypeInv, TypeOK
<1>4. Keeps(r)
  <2> DEFINE rec == [req[r] EXCEPT !.pc = "save"]
  <2>1. CASE row[t] = None /\ account[req[r].caller] # None
    <3>1. rec \in Handlers /\ Known(rec, jwt)
      BY <1>1 DEF Known, Handlers, PCs
    <3>2. req' = [s \in Requests |->
                    IF s = r THEN rec
                    ELSE IF req[s].op = "logout" /\ t \in req[s].seen
                      THEN [req[s] EXCEPT !.touched = TRUE] ELSE req[s]]
      BY <2>1 DEF InsertRow
    <3> HIDE DEF rec
    <3>3. ASSUME NEW s \in Requests \ {r} PROVE Marks(req'[s], req[s])
      <4>1. req[s] \in Handlers
        BY DEF TypeInv, HandlersOK
      <4>2. req'[s] = req[s] \/ req'[s] = [req[s] EXCEPT !.touched = TRUE]
        BY <3>2
      <4>3. QED
        BY <4>1, <4>2 DEF Marks, Handlers
    <3>4. req' \in [Requests -> Handlers]
      <4>1. \A s \in Requests : req'[s] \in Handlers
        BY <3>1, <3>2, <3>3 DEF Marks
      <4>2. QED
        BY <3>2, <4>1
    <3>5. Became(r, rec)
      BY <3>2, <3>3, <3>4 DEF Became
    <3>6. QED
      BY <1>2, <3>1, <3>5, HandlersKept DEF TypeInv
  <2>2. CASE ~(row[t] = None /\ account[req[r].caller] # None)
    BY <1>2, <2>2, Finishing DEF InsertRow, TypeInv
  <2>3. QED
    BY <2>1, <2>2
<1>5. QED
  BY <1>2, <1>3, <1>4 DEF TypeInv, TypeOK, Signed, Keeps, HandlersOK

\* The login has answered.
LEMMA SaveSessionType ==
    ASSUME TypeInv, NEW r \in Requests, SaveSession(r)
    PROVE  TypeInv' /\ Keeps(r)
<1>1. req[r].tok \in Tokens /\ jwt[req[r].tok] \in Claims
  BY DEF SaveSession, At, TypeInv, HandlersOK, Known
<1>2. Keeps(r)
  BY Finishing DEF SaveSession, TypeInv
<1>3. QED
  BY <1>1, <1>2 DEF SaveSession, TypeInv, TypeOK, Signed, Keeps, HandlersOK

\* The steps that only end a handler or move it on.
LEMMA StayingType ==
    ASSUME TypeInv, NEW r \in Requests, UNCHANGED <<account, tokens, sessions>>, Keeps(r)
    PROVE  TypeInv'
BY DEF TypeInv, TypeOK, Signed, Keeps, HandlersOK, tokens, sessions

\* What is kept of the target has a type.
LEMMA LoadTargetType ==
    ASSUME TypeInv, NEW r \in Requests, LoadTarget(r)
    PROVE  TypeInv' /\ Keeps(r)
<1> DEFINE target == account[req[r].target]
           loaded == Loaded(req[r].op, target)
           rec    == [req[r] EXCEPT !.pc = "commit", !.crole = "none", !.loaded = loaded]
<1>1. req[r] \in Handlers /\ Known(req[r], jwt) /\ req[r].pc = "load"
  BY DEF LoadTarget, At, TypeInv, HandlersOK
<1>2. jwt' = jwt
  BY DEF LoadTarget, tokens
<1>3. CASE target # None /\ May(req[r].crole, target)
  <2>1. target \in Rows
    BY <1>1, <1>3 DEF Known, TypeInv, TypeOK
  <2>2. loaded \in Values
    BY <2>1 DEF Loaded, Field, Rows, Values
  <2>3. Become(r, rec)
    BY <1>3 DEF LoadTarget
  <2> HIDE DEF loaded
  <2>4. rec \in Handlers /\ Known(rec, jwt)
    BY <1>1, <2>2 DEF Handlers, PCs, Known
  <2> HIDE DEF rec
  <2>5. Keeps(r)
    BY <1>2, <2>3, <2>4, Becoming DEF TypeInv
  <2>6. QED
    BY <2>5, StayingType DEF LoadTarget
<1>4. CASE ~(target # None /\ May(req[r].crole, target))
  <2>1. Keeps(r)
    BY <1>2, <1>4, Finishing DEF LoadTarget, TypeInv
  <2>2. QED
    BY <2>1, StayingType DEF LoadTarget
<1>5. QED
  BY <1>3, <1>4

\* What is left of a request that has done its work.
LEMMA DoneType ==
    ASSUME TypeInv, NEW r \in Requests, At(r, "commit")
    PROVE  /\ Done(r) \in Handlers /\ Known(Done(r), jwt)
           /\ Done(r).pc = "answer" /\ ~Done(r).alone
           /\ Done(r).op = req[r].op /\ Done(r).target = req[r].target
           /\ Done(r).value = req[r].value /\ Done(r).touched = req[r].touched
<1>1. req[r] \in Handlers /\ Known(req[r], jwt) /\ req[r].pc = "commit"
  BY DEF At, TypeInv, HandlersOK
<1>2. QED
  BY <1>1 DEF Done, Handlers, PCs, Known, Values

\* The value committed fits the field it goes to.
LEMMA FieldValue ==
    ASSUME NEW op \in Changes, op # "delete", NEW v \in ValuesOf(op), NEW a \in Rows
    PROVE  /\ [a EXCEPT ![Field(op)] = v] \in Rows
           /\ [a EXCEPT ![Field(op)] = v][Field(op)] = v
           /\ Field(op) \in {"role", "status"}
           /\ a.role # "super" => [a EXCEPT ![Field(op)] = v].role # "super"
BY DEF Changes, ValuesOf, Field, Rows, Roles, Assignable, Statuses

\* The account keeps its type in one field or is not written.
LEMMA CommitType ==
    ASSUME TypeInv, NEW r \in Requests, Commit(r)
    PROVE  TypeInv' /\ Keeps(r)
<1> DEFINE b == req[r].target
           f == Field(req[r].op)
<1>1. At(r, "commit") /\ UNCHANGED <<jwt, held, row, cached, ended>>
  BY DEF Commit, tokens, sessions
<1>2. Known(req[r], jwt) /\ Known(Done(r), jwt) /\ Done(r) \in Handlers
  BY <1>1, DoneType DEF TypeInv, HandlersOK
<1>3. CASE UNCHANGED account
  <2>1. Become(r, Done(r)) \/ Finish(r) \/ Touch(r, b, f, Done(r))
    BY DEF Commit
  <2>2. Keeps(r)
    <3>1. CASE Become(r, Done(r))
      BY <1>1, <1>2, <3>1, Becoming DEF TypeInv
    <3>2. CASE Finish(r)
      BY <1>1, <3>2, Finishing DEF TypeInv
    <3>3. CASE Touch(r, b, f, Done(r))
      <4>1. Became(r, Done(r))
        BY <1>2, <3>3, TouchOne DEF TypeInv, HandlersOK
      <4>2. QED
        BY <1>1, <1>2, <4>1, HandlersKept DEF TypeInv
    <3>4. QED
      BY <2>1, <3>1, <3>2, <3>3
  <2>3. QED
    BY <1>1, <1>3, <2>2, StayingType DEF tokens, sessions
<1>4. CASE ~UNCHANGED account
  <2>1. /\ account[b] # None /\ account' = [account EXCEPT ![b][f] = req[r].value]
        /\ Touch(r, b, f, Done(r))
    BY <1>4 DEF Commit
  <2>2. b \in Accounts /\ account[b] \in Rows /\ req[r].op \in Changes
        /\ req[r].value \in ValuesOf(req[r].op) /\ req[r].op # "delete"
    BY <1>1, <1>2, <2>1 DEF Commit, At, Known, TypeInv, TypeOK
  <2>3. [account[b] EXCEPT ![f] = req[r].value] \in Rows
    BY <2>2, FieldValue
  <2>4. account' = [account EXCEPT ![b] = [account[b] EXCEPT ![f] = req[r].value]]
    BY <2>1, <2>2 DEF TypeInv, TypeOK
  <2>5. account' \in [Accounts -> Rows \cup {None}]
    BY <2>2, <2>3, <2>4 DEF TypeInv, TypeOK
  <2>6. Became(r, Done(r))
    BY <1>2, <2>1, TouchOne DEF TypeInv, HandlersOK
  <2>7. Keeps(r)
    BY <1>1, <1>2, <2>6, HandlersKept DEF TypeInv
  <2>8. QED
    BY <1>1, <2>5, <2>7 DEF TypeInv, TypeOK, Signed, Keeps, HandlersOK
<1>5. QED
  BY <1>3, <1>4

\* Without the account there are no rows of it.
LEMMA GoneType ==
    ASSUME TypeInv, NEW b, Gone(b)
    PROVE  /\ account' \in [Accounts -> Rows \cup {None}]
           /\ row' \in [Tokens -> Accounts \cup {None}]
BY DEF Gone, TypeInv, TypeOK

\* The account and its rows go.
LEMMA DeleteType ==
    ASSUME TypeInv, NEW r \in Requests, Delete(r)
    PROVE  TypeInv' /\ Keeps(r)
<1>1. At(r, "commit") /\ UNCHANGED <<jwt, held, cached, ended>>
  BY DEF Delete, tokens
<1>2. Known(Done(r), jwt) /\ Done(r) \in Handlers
  BY <1>1, DoneType
<1>3. Became(r, Done(r))
  BY <1>2, TouchOne DEF Delete, TypeInv, HandlersOK
<1>4. Keeps(r)
  BY <1>1, <1>2, <1>3, HandlersKept DEF TypeInv
<1>5. QED
  BY <1>1, <1>4, GoneType DEF Delete, TypeInv, TypeOK, Signed, Keeps, HandlersOK

\* Nothing but the handler changes.
LEMMA AnswerType ==
    ASSUME TypeInv, NEW r \in Requests, Answer(r)
    PROVE  TypeInv' /\ Keeps(r)
<1>1. Keeps(r)
  BY Finishing DEF Answer, TypeInv, tokens
<1>2. QED
  BY <1>1, StayingType DEF Answer

\* A dying worker changes no more than its handler.
LEMMA CrashType ==
    ASSUME TypeInv, NEW r \in Requests, Crash(r)
    PROVE  TypeInv' /\ Keeps(r)
<1>1. Keeps(r)
  BY Finishing DEF Crash, TypeInv, tokens
<1>2. QED
  BY <1>1, StayingType DEF Crash

\* The token of a device list is one that will be inserted or was.
LEMMA ListDevicesType ==
    ASSUME TypeInv, NEW r \in Requests, ListDevices(r)
    PROVE  TypeInv' /\ Keeps(r)
<1>1. CASE Finish(r)
  <2>1. Keeps(r)
    BY <1>1, Finishing DEF ListDevices, TypeInv, tokens
  <2>2. QED
    BY <2>1, StayingType DEF ListDevices
<1>2. CASE Goto(r, "insert")
  <2> DEFINE rec == [req[r] EXCEPT !.pc = "insert"]
  <2>1. rec \in Handlers /\ Known(rec, jwt)
    BY DEF ListDevices, At, TypeInv, HandlersOK, Known, Handlers, PCs
  <2>2. Become(r, rec)
    BY <1>2 DEF Goto
  <2> HIDE DEF rec
  <2>3. Keeps(r)
    BY <2>1, <2>2, Becoming DEF ListDevices, TypeInv, tokens
  <2>4. QED
    BY <2>3, StayingType DEF ListDevices
<1>3. QED
  BY <1>1, <1>2 DEF ListDevices

\* The record of a logout that has dealt with one key.
LEMMA KeyDoneRecord ==
    ASSUME TypeInv, NEW r \in Requests, NEW d \in Tokens, At(r, "drop"), NEW alone \in BOOLEAN,
           KeyDone(r, d, alone), jwt' = jwt
    PROVE  /\ Keeps(r)
           /\ req'[r].alone = alone /\ req'[r].op = req[r].op /\ req'[r].caller = req[r].caller
           /\ req[r].op = "logout" => req'[r].pc = "drop_row" /\ req'[r].seen = req[r].seen
           /\ req[r].op # "logout" => req'[r].pc = "drop" /\ req'[r].seen = req[r].seen \ {d}
<1>1. req[r] \in Handlers /\ Known(req[r], jwt) /\ req[r].pc = "drop"
  BY DEF At, TypeInv, HandlersOK
<1>2. CASE req[r].op = "logout"
  <2> DEFINE rec == [req[r] EXCEPT !.pc = "drop_row", !.alone = alone]
  <2>1. /\ rec \in Handlers /\ Known(rec, jwt)
        /\ rec.alone = alone /\ rec.op = req[r].op /\ rec.caller = req[r].caller
        /\ rec.pc = "drop_row" /\ rec.seen = req[r].seen
    BY <1>1, <1>2 DEF Known, Handlers, PCs
  <2>2. Become(r, rec)
    BY <1>2 DEF KeyDone
  <2> HIDE DEF rec
  <2>3. Keeps(r) /\ req'[r] = rec
    BY <2>1, <2>2, Becoming DEF Become, TypeInv, HandlersOK
  <2>4. QED
    BY <1>2, <2>1, <2>3
<1>3. CASE req[r].op # "logout"
  <2> DEFINE rec == [req[r] EXCEPT !.seen = req[r].seen \ {d}, !.alone = alone]
  <2>1. /\ rec \in Handlers /\ Known(rec, jwt)
        /\ rec.alone = alone /\ rec.op = req[r].op /\ rec.caller = req[r].caller
        /\ rec.pc = "drop" /\ rec.seen = req[r].seen \ {d}
    BY <1>1 DEF Known, Handlers
  <2>2. Become(r, rec)
    BY <1>3 DEF KeyDone
  <2> HIDE DEF rec
  <2>3. Keeps(r) /\ req'[r] = rec
    BY <2>1, <2>2, Becoming DEF Become, TypeInv, HandlersOK
  <2>4. QED
    BY <1>3, <2>1, <2>3
<1>4. QED
  BY <1>2, <1>3

\* A key goes, or stays although it should not.
LEMMA DropKeyType ==
    ASSUME TypeInv, NEW r \in Requests, NEW d \in Tokens, DropKey(r, d) \/ KeepKey(r, d)
    PROVE  TypeInv' /\ Keeps(r)
<1>1. /\ At(r, "drop") /\ UNCHANGED <<account, jwt, held, row, ended>>
      /\ cached' \subseteq cached
  BY DEF DropKey, KeepKey, tokens
<1>2. PICK alone \in BOOLEAN : KeyDone(r, d, alone)
  BY DEF DropKey, KeepKey, TypeInv, HandlersOK, Handlers
<1>3. Keeps(r)
  BY <1>1, <1>2, KeyDoneRecord
<1>4. QED
  BY <1>1, <1>3 DEF TypeInv, TypeOK, Signed, Keeps, HandlersOK

\* Rows disappear, and the tokens they were of may be recorded.
LEMMA DroppingType ==
    ASSUME TypeInv, NEW r \in Requests, NEW gone \in SUBSET Tokens,
           row' = [d \in Tokens |-> IF d \in gone THEN None ELSE row[d]],
           ended' = IF req[r].alone THEN ended \cup gone ELSE ended,
           Finish(r), UNCHANGED <<account, tokens, cached>>
    PROVE  TypeInv' /\ Keeps(r)
<1>1. Keeps(r)
  BY Finishing DEF TypeInv, tokens
<1>2. QED
  BY <1>1 DEF TypeInv, TypeOK, Signed, Keeps, HandlersOK, tokens

\* The row of one device goes.
LEMMA DropRowType ==
    ASSUME TypeInv, NEW r \in Requests, DropRow(r)
    PROVE  TypeInv' /\ Keeps(r)
<1> DEFINE gone == {d \in req[r].seen : row[d] = req[r].caller /\ ~req[r].touched}
<1>1. gone \in SUBSET Tokens
  BY DEF TypeInv, HandlersOK, Handlers
<1>2. /\ row' = [d \in Tokens |-> IF d \in gone THEN None ELSE row[d]]
      /\ ended' = IF req[r].alone THEN ended \cup gone ELSE ended
      /\ Finish(r) /\ UNCHANGED <<account, tokens, cached>>
  BY DEF DropRow
<1> HIDE DEF gone
<1>3. QED
  BY <1>1, <1>2, DroppingType

\* All rows of the caller go.
LEMMA DropRowsType ==
    ASSUME TypeInv, NEW r \in Requests, DropRows(r)
    PROVE  TypeInv' /\ Keeps(r)
<1> DEFINE gone == {d \in Tokens : row[d] = req[r].caller}
<1>1. gone \in SUBSET Tokens
  OBVIOUS
<1>2. /\ row' = [d \in Tokens |-> IF d \in gone THEN None ELSE row[d]]
      /\ ended' = IF req[r].alone THEN ended \cup gone ELSE ended
      /\ Finish(r) /\ UNCHANGED <<account, tokens, cached>>
  BY DEF DropRows
<1> HIDE DEF gone
<1>3. QED
  BY <1>1, <1>2, DroppingType

\* The owner leaves: everyone is marked.
LEMMA SelfDeleteType ==
    ASSUME TypeInv, NEW b \in Accounts, SelfDelete(b)
    PROVE  TypeInv' /\ \A s \in Requests : Marks(req'[s], req[s])
<1>1. req' = [s \in Requests |->
                [req[s] EXCEPT !.alone = FALSE, !.touched = req[s].touched \/ req[s].target = b]]
  BY DEF SelfDelete
<1>2. ASSUME NEW s \in Requests PROVE Marks(req'[s], req[s])
  <2> DEFINE m == req[s].touched \/ req[s].target = b
  <2>1. req[s] \in Handlers /\ req[s].touched \in BOOLEAN
    BY DEF TypeInv, HandlersOK, Handlers
  <2>2. m \in BOOLEAN /\ (req[s].touched => m)
    BY <2>1
  <2>3. req'[s] = [req[s] EXCEPT !.alone = FALSE, !.touched = m]
    BY <1>1
  <2> HIDE DEF m
  <2>4. QED
    BY <2>1, <2>2, <2>3 DEF Marks, Handlers
<1>3. UNCHANGED <<jwt, held, ended>> /\ cached' \subseteq cached
  BY DEF SelfDelete, tokens
<1>4. HandlersOK'
  <2>1. \A s \in Requests : req'[s] \in Handlers
    BY <1>2 DEF Marks
  <2>2. \A s \in Requests : Known(req'[s], jwt')
    BY <1>2, <1>3 DEF Marks, Known, TypeInv, HandlersOK
  <2>3. QED
    BY <1>1, <2>1, <2>2 DEF HandlersOK
<1>5. QED
  BY <1>2, <1>3, <1>4, GoneType DEF SelfDelete, TypeInv, TypeOK, Signed, HandlersOK

\* Whatever handler r does, everything has its type and the others are marked at most.
LEMMA HandlerType ==
    ASSUME TypeInv, NEW r \in Requests, Arrive(r) \/ HandlerStep(r) \/ Crash(r)
    PROVE  TypeInv' /\ Keeps(r)
<1>1. CASE Arrive(r)
  BY <1>1, StartLoginType, StartDevicesType, StartLogoutAllType, StartLogoutType, StartChangeType
     DEF Arrive
<1>2. CASE HandlerStep(r)
  BY <1>2, InsertRowType, SaveSessionType, LoadTargetType, CommitType, DeleteType, AnswerType,
     ListDevicesType, DropKeyType, DropRowType, DropRowsType DEF HandlerStep
<1>3. QED
  BY <1>1, <1>2, CrashType

\* Every step keeps everything in its type.
LEMMA TypeStep == TypeInv /\ [Next]_vars => TypeInv'
<1> SUFFICES ASSUME TypeInv, [Next]_vars PROVE TypeInv'
  OBVIOUS
<1>1. CASE UNCHANGED vars
  BY <1>1 DEF vars, TypeInv, TypeOK, Signed, HandlersOK
<1>2. CASE Next
  BY <1>2, HandlerType, SelfDeleteType DEF Next
<1>3. QED
  BY <1>1, <1>2

\* Every variable of AdminUsers always has its type.
THEOREM TypeCorrect == Spec => []TypeOK
<1>1. TypeInv => TypeOK
  BY DEF TypeInv
<1>2. QED
  BY <1>1, TypeInit, TypeStep, PTL DEF Spec

-----------------------------------------------------------------------------
(* The steps, by what they do to the accounts and to their own handler *)

\* The steps of a handler that leave the accounts alone and are not about one.
Aside(r) ==
    \/ InsertRow(r) \/ SaveSession(r) \/ Answer(r) \/ Crash(r)
    \/ ListDevices(r) \/ (\E d \in Tokens : DropKey(r, d) \/ KeepKey(r, d)) \/ DropRow(r) \/ DropRows(r)

\* A step of the system is one of these.
LEMMA Steps ==
    ASSUME Next
    PROVE  \/ \E r \in Requests : \/ Arrive(r) \/ LoadTarget(r) \/ Commit(r) \/ Delete(r)
                                  \/ Aside(r)
           \/ \E b \in Accounts : SelfDelete(b)
BY DEF Next, HandlerStep, Aside

\* What an arriving request knows.
LEMMA Arriving ==
    ASSUME TypeInv, NEW r \in Requests, Arrive(r)
    PROVE  /\ At(r, "idle") /\ UNCHANGED <<account, held, row, cached, ended>>
           /\ \A s \in Requests \ {r} : ~req'[s].alone
           /\ req'[r].alone => \A q \in Requests : At(q, "idle")
           /\ \/ req'[r].pc \in {"insert", "list"}
              \/ /\ req'[r].pc = "load" /\ req'[r].caller \in Accounts
                 /\ req'[r].crole = account[req'[r].caller].role
                 /\ account[req'[r].caller] # None /\ AdminLevel(req'[r].caller)
                 /\ account[req'[r].caller].status = "active"
              \/ /\ req'[r].pc = "drop" /\ req'[r].op = "logout"
                 /\ \E d \in Tokens : req'[r].seen = {d}
              \/ /\ req'[r].pc = "drop" /\ req'[r].op = "logout_all"
                 /\ req'[r].seen = {d \in Tokens : row[d] = req'[r].caller}
<1> DEFINE Began(rec) ==
              /\ rec \in Handlers /\ Begin(r, rec)
              /\ UNCHANGED <<account, held, row, cached, ended>>
<1>1. ASSUME NEW rec, Began(rec)
      PROVE  /\ At(r, "idle") /\ UNCHANGED <<account, held, row, cached, ended>>
             /\ \A s \in Requests \ {r} : ~req'[s].alone
             /\ req'[r].alone => \A q \in Requests : At(q, "idle")
             /\ req'[r].pc = rec.pc /\ req'[r].op = rec.op /\ req'[r].caller = rec.caller
             /\ req'[r].crole = rec.crole /\ req'[r].seen = rec.seen
  <2>1. PICK b \in BOOLEAN :
          /\ Became(r, [rec EXCEPT !.alone = b])
          /\ b => \A q \in Requests : At(q, "idle")
    BY <1>1, BeginOne DEF TypeInv, HandlersOK
  <2>2. req'[r] = [rec EXCEPT !.alone = b]
    BY <2>1 DEF Became
  <2>3. At(r, "idle") /\ \A s \in Requests \ {r} : ~req'[s].alone
    BY <1>1, BeginOne DEF TypeInv, HandlersOK
  <2>4. QED
    BY <1>1, <2>1, <2>2, <2>3 DEF Handlers
<1>2. ASSUME NEW a \in Accounts, StartLogin(r, a)
      PROVE  \E rec : Began(rec) /\ rec.pc = "insert"
  <2>1. PICK t \in Signs(a) : Begin(r, [Idle EXCEPT !.op = "login", !.pc = "insert", !.caller = a, !.tok = t])
    BY <1>2 DEF StartLogin
  <2> DEFINE rec == [Idle EXCEPT !.op = "login", !.pc = "insert", !.caller = a, !.tok = t]
  <2>2. t \in Tokens
    BY DEF Signs, TypeInv, HandlersOK, Known
  <2>3. rec \in Handlers /\ rec.pc = "insert"
    BY <2>2, IdleType DEF Handlers, OpNames, PCs, Idle
  <2>4. Begin(r, rec)
    BY <2>1
  <2> HIDE DEF rec
  <2>5. QED
    BY <1>2, <2>3, <2>4 DEF StartLogin, sessions
<1>3. ASSUME NEW t \in Tokens, StartDevices(r, t)
      PROVE  \E rec : Began(rec) /\ rec.pc = "list"
  <2> DEFINE c   == Caller(t, "devices", "list")
             rec == [c EXCEPT !.tok = t]
  <2>1. c \in Handlers /\ c.pc = "list"
    BY <1>3, CallerRecord DEF StartDevices, OpNames, PCs
  <2>2. Begin(r, rec)
    BY <1>3 DEF StartDevices
  <2> HIDE DEF c
  <2>3. rec \in Handlers /\ rec.pc = "list"
    BY <2>1 DEF Handlers
  <2> HIDE DEF rec
  <2>4. QED
    BY <1>3, <2>2, <2>3 DEF StartDevices, tokens, sessions
<1>4. ASSUME NEW t \in Tokens, NEW d \in Tokens, StartLogout(r, t, d)
      PROVE  \E rec : Began(rec) /\ rec.pc = "drop" /\ rec.op = "logout" /\ rec.seen = {d}
  <2> DEFINE rec == [Caller(t, "logout", "drop") EXCEPT !.seen = {d}]
  <2>1. rec \in Handlers /\ rec.pc = "drop" /\ rec.op = "logout" /\ rec.seen = {d}
    BY <1>4, LoggingOutRecord DEF StartLogout
  <2>2. Begin(r, rec)
    BY <1>4 DEF StartLogout
  <2> HIDE DEF rec
  <2>3. QED
    BY <1>4, <2>1, <2>2 DEF StartLogout, tokens, sessions
<1>5. ASSUME NEW t \in Tokens, StartLogoutAll(r, t)
      PROVE  \E rec : /\ Began(rec) /\ rec.pc = "drop" /\ rec.op = "logout_all"
                      /\ rec.seen = {d \in Tokens : row[d] = rec.caller}
  <2> DEFINE seen == {d \in Tokens : row[d] = jwt[t].sub}
             rec  == [Caller(t, "logout_all", "drop") EXCEPT !.seen = seen]
  <2>1. rec \in Handlers /\ rec.pc = "drop" /\ rec.op = "logout_all" /\ rec.seen = seen /\ rec.caller = jwt[t].sub
    BY <1>5, LoggingOutRecord DEF StartLogoutAll
  <2>2. Begin(r, rec)
    BY <1>5 DEF StartLogoutAll
  <2>3. rec.seen = {d \in Tokens : row[d] = rec.caller}
    BY <2>1
  <2> HIDE DEF rec
  <2>4. QED
    BY <1>5, <2>1, <2>2, <2>3 DEF StartLogoutAll, tokens, sessions
<1>6. ASSUME NEW t \in Tokens, NEW op \in Changes, NEW b \in Accounts, NEW v \in ValuesOf(op),
             StartChange(r, t, op, b, v)
      PROVE  \E rec : /\ Began(rec) /\ rec.pc = "load" /\ rec.caller \in Accounts
                      /\ rec.crole = account[rec.caller].role
                      /\ account[rec.caller] # None /\ AdminLevel(rec.caller)
                      /\ account[rec.caller].status = "active"
  <2> DEFINE c   == Caller(t, op, "load")
             rec == [c EXCEPT !.target = b, !.value = v]
  <2>1. op \in OpNames /\ "load" \in PCs /\ v \in Values
    BY DEF Changes, OpNames, PCs, ValuesOf, Values, Roles, Statuses, Assignable
  <2>2. /\ c \in Handlers /\ c.pc = "load" /\ c.caller = jwt[t].sub /\ c.caller \in Accounts
        /\ c.crole = account[jwt[t].sub].role
    BY <1>6, <2>1, CallerRecord, CallerType DEF StartChange
  <2>3. Begin(r, rec)
    BY <1>6 DEF StartChange
  <2> HIDE DEF c
  <2>4. /\ rec \in Handlers /\ rec.pc = "load" /\ rec.caller = jwt[t].sub
        /\ rec.crole = account[jwt[t].sub].role
    BY <2>1, <2>2 DEF Handlers
  <2> HIDE DEF rec
  <2>5. QED
    BY <1>6, <2>2, <2>3, <2>4 DEF StartChange, Authorized, tokens, sessions
<1> HIDE DEF Began
<1>7. CASE \E a \in Accounts : StartLogin(r, a)
  BY <1>1, <1>2, <1>7
<1>8. CASE \E t \in Tokens : StartDevices(r, t)
  BY <1>1, <1>3, <1>8
<1>9. CASE \E t, d \in Tokens : StartLogout(r, t, d)
  BY <1>1, <1>4, <1>9
<1>10. CASE \E t \in Tokens : StartLogoutAll(r, t)
  <2>1. PICK rec : /\ Began(rec) /\ rec.pc = "drop" /\ rec.op = "logout_all"
                   /\ rec.seen = {d \in Tokens : row[d] = rec.caller}
    BY <1>5, <1>10
  <2>2. req'[r].seen = {d \in Tokens : row[d] = req'[r].caller}
    BY <1>1, <2>1
  <2>3. QED
    BY <1>1, <2>1, <2>2
<1>11. CASE \E t \in Tokens, op \in Changes, b \in Accounts : \E v \in ValuesOf(op) :
              StartChange(r, t, op, b, v)
  <2>1. PICK rec : /\ Began(rec) /\ rec.pc = "load" /\ rec.caller \in Accounts
                   /\ rec.crole = account[rec.caller].role
                   /\ account[rec.caller] # None /\ AdminLevel(rec.caller)
                   /\ account[rec.caller].status = "active"
    BY <1>6, <1>11
  <2>2. req'[r].caller = rec.caller /\ req'[r].pc = "load" /\ req'[r].crole = rec.crole
    BY <1>1, <2>1
  <2>3. QED
    BY <1>1, <2>1, <2>2
<1>12. QED
  BY <1>7, <1>8, <1>9, <1>10, <1>11 DEF Arrive

\* A finished handler is idle.
LEMMA Finished ==
    ASSUME TypeInv, NEW r \in Requests, Finish(r)
    PROVE  req'[r] = Idle
BY DEF Finish, Become, TypeInv, HandlersOK

\* What a committed request becomes.
LEMMA Committing ==
    ASSUME TypeInv, NEW r \in Requests, Commit(r) \/ Delete(r)
    PROVE  At(r, "commit") /\ (req'[r] = Done(r) \/ req'[r] = Idle)
<1>1. At(r, "commit")
  BY DEF Commit, Delete
<1>2. Done(r) \in Handlers
  BY <1>1, DoneType
<1>3. ASSUME NEW f, Touch(r, req[r].target, f, Done(r)) PROVE req'[r] = Done(r)
  BY <1>2, <1>3, TouchOne DEF Became, TypeInv, HandlersOK
<1>4. Become(r, Done(r)) => req'[r] = Done(r)
  BY DEF Become, TypeInv, HandlersOK
<1>5. Finish(r) \/ Become(r, Done(r)) \/ \E f : Touch(r, req[r].target, f, Done(r))
  BY DEF Commit, Delete
<1>6. QED
  BY <1>1, <1>3, <1>4, <1>5, Finished

\* The steps aside change no account, and leave no handler more alone.
LEMMA Standing ==
    ASSUME TypeInv, NEW r \in Requests, Aside(r)
    PROVE  /\ account' = account /\ ~At(r, "idle")
           /\ \/ req'[r] = Idle
              \/ /\ req'[r].pc \in {"save", "insert", "drop", "drop_row"}
                 /\ req'[r].alone => req[r].alone
<1>1. req \in [Requests -> Handlers] /\ req[r] \in Handlers
  BY DEF TypeInv, HandlersOK
<1>2. CASE InsertRow(r)
  <2>1. Finish(r) \/ req'[r] = [req[r] EXCEPT !.pc = "save"]
    BY <1>2 DEF InsertRow
  <2>2. QED
    BY <1>1, <1>2, <2>1, Finished DEF Handlers, InsertRow, At
<1>3. CASE ListDevices(r)
  <2>1. Finish(r) \/ Goto(r, "insert")
    BY <1>3 DEF ListDevices
  <2>2. Goto(r, "insert") => req'[r].pc = "insert" /\ req'[r].alone = req[r].alone
    BY <1>1 DEF Goto, Become, Handlers
  <2>3. QED
    BY <1>3, <2>1, <2>2, Finished DEF ListDevices, At
<1>4. CASE SaveSession(r) \/ Answer(r) \/ Crash(r) \/ DropRow(r) \/ DropRows(r)
  BY <1>4, Finished DEF SaveSession, Answer, Crash, DropRow, DropRows, At
<1>5. ASSUME NEW d \in Tokens, DropKey(r, d) \/ KeepKey(r, d)
      PROVE  /\ account' = account /\ ~At(r, "idle")
             /\ req'[r].pc \in {"drop", "drop_row"} /\ (req'[r].alone => req[r].alone)
  <2>1. At(r, "drop") /\ account' = account /\ jwt' = jwt
    BY <1>5 DEF DropKey, KeepKey, tokens
  <2>2. PICK alone \in BOOLEAN : KeyDone(r, d, alone) /\ (alone => req[r].alone)
    BY <1>1, <1>5 DEF DropKey, KeepKey, Handlers
  <2>3. QED
    BY <2>1, <2>2, KeyDoneRecord DEF At
<1>6. QED
  BY <1>2, <1>3, <1>4, <1>5 DEF Aside

\* A target that is loaded is one the caller may act on.
LEMMA Loading ==
    ASSUME TypeInv, NEW r \in Requests, LoadTarget(r)
    PROVE  /\ At(r, "load") /\ UNCHANGED <<account, held, row, cached, ended>>
           /\ \/ req'[r] = Idle
              \/ /\ account[req[r].target] # None /\ May(req[r].crole, account[req[r].target])
                 /\ req'[r].pc = "commit" /\ req'[r].op = req[r].op
                 /\ req'[r].target = req[r].target /\ req'[r].caller = req[r].caller
                 /\ req'[r].touched = req[r].touched /\ req'[r].alone = req[r].alone
                 /\ req'[r].loaded = Loaded(req[r].op, account[req[r].target])
<1> DEFINE loaded == Loaded(req[r].op, account[req[r].target])
<1>1. At(r, "load") /\ UNCHANGED <<account, held, row, cached, ended>>
  BY DEF LoadTarget, tokens, sessions
<1>2. req[r] \in Handlers
  BY DEF TypeInv, HandlersOK
<1>3. \/ Finish(r)
      \/ /\ account[req[r].target] # None /\ May(req[r].crole, account[req[r].target])
         /\ req'[r] = [req[r] EXCEPT !.pc = "commit", !.crole = "none", !.loaded = loaded]
  BY DEF LoadTarget, Become, TypeInv, HandlersOK
<1>4. CASE Finish(r)
  BY <1>1, <1>4, Finished
<1>5. CASE ~Finish(r)
  <2> HIDE DEF loaded
  <2>1. /\ req'[r].pc = "commit" /\ req'[r].op = req[r].op
        /\ req'[r].target = req[r].target /\ req'[r].caller = req[r].caller
        /\ req'[r].touched = req[r].touched /\ req'[r].alone = req[r].alone
        /\ req'[r].loaded = loaded
    BY <1>2, <1>3, <1>5 DEF Handlers
  <2>2. QED
    BY <1>1, <1>3, <1>5, <2>1 DEF loaded
<1>6. QED
  BY <1>4, <1>5

\* The owner's deletion takes everyone's solitude.
LEMMA Leaving ==
    ASSUME TypeInv, NEW b \in Accounts, SelfDelete(b)
    PROVE  /\ account' = [account EXCEPT ![b] = None] /\ account[b].role # "super"
           /\ \A s \in Requests : /\ ~req'[s].alone
                                  /\ req[s].target = b => req'[s].touched
<1>1. ASSUME NEW s \in Requests
      PROVE  ~req'[s].alone /\ (req[s].target = b => req'[s].touched)
  <2> DEFINE m == req[s].touched \/ req[s].target = b
  <2>1. req'[s] = [req[s] EXCEPT !.alone = FALSE, !.touched = m]
    BY DEF SelfDelete
  <2>2. req[s] \in Handlers
    BY DEF TypeInv, HandlersOK
  <2>3. req[s].target = b => m
    OBVIOUS
  <2> HIDE DEF m
  <2>4. ~req'[s].alone /\ req'[s].touched = m
    BY <2>1, <2>2 DEF Handlers
  <2>5. QED
    BY <2>3, <2>4
<1>2. QED
  BY <1>1 DEF SelfDelete, Gone

-----------------------------------------------------------------------------
(* The super administrators *)

SuperInv ==
    /\ TypeInv /\ SuperAdminStands
    /\ \A r \in Requests : At(r, "commit") => req[r].target \notin Supers

\* A change of one account that is no super administrator's, and makes nobody one.
LEMMA OthersChange ==
    ASSUME SuperAdminStands, TypeInv, NEW b \in Accounts \ Supers, NEW v,
           v = None \/ v.role # "super", account' = [account EXCEPT ![b] = v]
    PROVE  SuperAdminStands'
BY AdminUsersAssumption DEF SuperAdminStands, TypeInv, TypeOK

\* The super administrators stand at the start.
LEMMA SuperInit == Init => SuperInv
<1> SUFFICES ASSUME Init PROVE SuperInv
  OBVIOUS
<1>1. \A r \in Requests : ~At(r, "commit")
  BY DEF Init, At, Idle
<1>2. ASSUME NEW a \in Accounts
      PROVE  /\ a \in Supers => account[a] = [role |-> "super", status |-> "active"]
             /\ a \notin Supers => account[a].role # "super"
  BY DEF Init
<1>3. SuperAdminStands
  BY <1>2, AdminUsersAssumption DEF SuperAdminStands
<1>4. QED
  BY <1>1, <1>3, TypeInit DEF SuperInv

\* Only a committed change touches an account, and its target was not super.
LEMMA SuperStep == SuperInv /\ [Next]_vars => SuperInv'
<1> SUFFICES ASSUME SuperInv, [Next]_vars PROVE SuperInv'
  OBVIOUS
<1> USE DEF SuperInv
<1>1. CASE UNCHANGED vars
  BY <1>1, TypeStep DEF vars, SuperAdminStands, At
<1>2. ASSUME NEW r \in Requests, Arrive(r) \/ HandlerStep(r) \/ Crash(r), SuperAdminStands',
             At(r, "commit")' => req'[r].target \notin Supers
      PROVE  SuperInv'
  <2>1. TypeInv' /\ Keeps(r)
    BY <1>2, HandlerType
  <2>2. ASSUME NEW s \in Requests, At(s, "commit")' PROVE req'[s].target \notin Supers
    BY <1>2, <2>1, <2>2 DEF Keeps, Marks, At
  <2>3. QED
    BY <1>2, <2>1, <2>2
<1>3. CASE \E r \in Requests : Arrive(r)
  <2>1. PICK r \in Requests : Arrive(r)
    BY <1>3
  <2>2. account' = account /\ ~At(r, "commit")'
    BY <2>1, Arriving DEF At
  <2>3. QED
    BY <1>2, <2>1, <2>2 DEF SuperAdminStands
<1>4. CASE \E r \in Requests : Aside(r)
  <2>1. PICK r \in Requests : Aside(r)
    BY <1>4
  <2>2. account' = account /\ ~At(r, "commit")'
    BY <2>1, Standing DEF At, Idle
  <2>3. QED
    BY <1>2, <2>1, <2>2 DEF SuperAdminStands, Aside, HandlerStep
<1>5. CASE \E r \in Requests : LoadTarget(r)
  <2>1. PICK r \in Requests : LoadTarget(r)
    BY <1>5
  <2>2. account' = account
    BY <2>1, Loading
  <2>3. At(r, "commit")' => req'[r].target \notin Supers
    <3>1. CASE req'[r] = Idle
      BY <3>1 DEF At, Idle
    <3>2. CASE req'[r] # Idle
      <4>1. req[r].target \notin Supers
        BY <2>1, <3>2, Loading DEF SuperAdminStands, May
      <4>2. req'[r].target = req[r].target
        BY <2>1, <3>2, Loading
      <4>3. QED
        BY <4>1, <4>2
    <3>3. QED
      BY <3>1, <3>2
  <2>4. QED
    BY <1>2, <2>1, <2>2, <2>3 DEF SuperAdminStands, HandlerStep
<1>6. CASE \E r \in Requests : Commit(r) \/ Delete(r)
  <2>1. PICK r \in Requests : Commit(r) \/ Delete(r)
    BY <1>6
  <2> DEFINE b == req[r].target
  <2>2. At(r, "commit") /\ ~At(r, "commit")'
    BY <2>1, Committing, DoneType DEF At, Idle
  <2>3. b \in Accounts \ Supers /\ req[r].op \in Changes /\ req[r].value \in ValuesOf(req[r].op)
    BY <2>2 DEF At, TypeInv, HandlersOK, Known
  <2>4. SuperAdminStands'
    <3>1. CASE UNCHANGED account
      BY <3>1 DEF SuperAdminStands
    <3>2. CASE Delete(r)
      BY <2>3, <3>2, OthersChange DEF Delete, Gone
    <3>3. CASE Commit(r) /\ ~UNCHANGED account
      <4> DEFINE v == [account[b] EXCEPT ![Field(req[r].op)] = req[r].value]
      <4>1. /\ account[b] # None /\ req[r].op # "delete"
            /\ account' = [account EXCEPT ![b][Field(req[r].op)] = req[r].value]
        BY <3>3 DEF Commit
      <4>2. account[b] \in Rows /\ account[b].role # "super"
        BY <2>3, <4>1 DEF TypeInv, TypeOK, SuperAdminStands
      <4>3. v.role # "super"
        BY <2>3, <4>1, <4>2, FieldValue
      <4>4. account' = [account EXCEPT ![b] = v]
        BY <2>3, <4>1 DEF TypeInv, TypeOK
      <4> HIDE DEF v
      <4>5. QED
        BY <2>3, <4>3, <4>4, OthersChange
    <3>4. QED
      BY <2>1, <3>1, <3>2, <3>3
  <2>5. QED
    BY <1>2, <2>1, <2>2, <2>4 DEF HandlerStep
<1>7. CASE \E b \in Accounts : SelfDelete(b)
  <2>1. PICK b \in Accounts : SelfDelete(b)
    BY <1>7
  <2>2. b \notin Supers
    BY <2>1, Leaving DEF SuperAdminStands
  <2>3. SuperAdminStands'
    BY <2>1, <2>2, Leaving, OthersChange
  <2>4. TypeInv' /\ \A s \in Requests : Marks(req'[s], req[s])
    BY <2>1, SelfDeleteType
  <2>5. QED
    BY <2>3, <2>4 DEF Marks, At
<1>8. QED
  BY <1>1, <1>3, <1>4, <1>5, <1>6, <1>7, Steps

\* Whatever administrators do, and however their requests overlap, the super
\* administrators stay as they are and nobody becomes one.
THEOREM SuperAdminsStay == Spec => []SuperAdminStands
<1>1. SuperInv => SuperAdminStands
  BY DEF SuperInv
<1>2. QED
  BY <1>1, SuperInit, SuperStep, PTL DEF Spec

-----------------------------------------------------------------------------
(* True answers *)

\* What request q knows of the accounts acc, unless it was touched.
Agrees(q, acc) ==
    ~q.touched =>
      /\ q.pc = "commit" /\ q.op # "delete" =>
           acc[q.target] # None /\ acc[q.target][Field(q.op)] = q.loaded
      /\ q.pc = "answer" =>
           IF q.op = "delete" THEN acc[q.target] = None
           ELSE acc[q.target] # None /\ acc[q.target][Field(q.op)] = q.value

AnswerInv == TypeInv /\ \A r \in Requests : Agrees(req[r], account)

\* A request that is marked agrees as before.
LEMMA MarkedAgrees ==
    ASSUME NEW p, NEW q, Marks(p, q), NEW acc, Agrees(q, acc) PROVE Agrees(p, acc)
BY DEF Marks, Agrees

\* A step of handler r that changes no account.
LEMMA AnswerKept ==
    ASSUME AnswerInv, NEW r \in Requests, TypeInv', Keeps(r), account' = account,
           Agrees(req'[r], account)
    PROVE  AnswerInv'
<1>1. ASSUME NEW s \in Requests PROVE Agrees(req'[s], account)
  <2>1. CASE s = r
    BY <2>1
  <2>2. CASE s # r
    BY <2>2, MarkedAgrees DEF Keeps, AnswerInv
  <2>3. QED
    BY <2>1, <2>2
<1>2. QED
  BY <1>1 DEF AnswerInv

\* At the start nobody claims anything.
LEMMA AnswerInit == Init => AnswerInv
<1> SUFFICES ASSUME Init PROVE AnswerInv
  OBVIOUS
<1>1. \A r \in Requests : Agrees(req[r], account)
  BY DEF Init, Agrees, Idle
<1>2. QED
  BY <1>1, TypeInit DEF AnswerInv

\* The idle record claims nothing.
LEMMA IdleAgrees == \A acc : Agrees(Idle, acc)
BY DEF Agrees, Idle

\* The update of one field: whoever relied on it was told.
LEMMA CommitAnswers ==
    ASSUME AnswerInv, NEW r \in Requests, Commit(r), TypeInv', Keeps(r)
    PROVE  AnswerInv'
<1> DEFINE b == req[r].target
           f == Field(req[r].op)
           v == req[r].value
<1>1. At(r, "commit") /\ req[r].op # "delete" /\ req[r] \in Handlers /\ Agrees(req[r], account)
  BY DEF Commit, AnswerInv, TypeInv, HandlersOK
<1>2. b \in Accounts /\ req[r].op \in Changes /\ v \in ValuesOf(req[r].op)
  BY <1>1 DEF At, AnswerInv, TypeInv, HandlersOK, Known
<1>3. /\ Done(r).pc = "answer" /\ Done(r).op = req[r].op /\ Done(r).target = b
      /\ Done(r).value = v /\ Done(r).touched = req[r].touched
  BY <1>1, DoneType DEF AnswerInv
<1>4. CASE UNCHANGED account
  <2>1. req'[r] = Done(r) \/ req'[r] = Idle
    BY Committing DEF AnswerInv
  <2>2. CASE req'[r] = Idle
    BY <1>4, <2>2, IdleAgrees, AnswerKept
  <2>3. CASE req'[r] = Done(r) /\ req[r].loaded = v
    <3>1. Agrees(Done(r), account)
      BY <1>1, <1>3, <2>3 DEF Agrees, At
    <3>2. QED
      BY <1>4, <2>3, <3>1, AnswerKept
  <2>4. CASE req'[r] # Idle /\ req[r].loaded # v
    <3>1. account[b] # None /\ account' = [account EXCEPT ![b][f] = v]
      BY <2>4, Finished DEF Commit, AnswerInv
    <3>2. account[b] \in Rows
      BY <1>2, <3>1 DEF AnswerInv, TypeInv, TypeOK
    <3>3. account'[b] = [account[b] EXCEPT ![f] = v]
      BY <1>2, <3>1 DEF AnswerInv, TypeInv, TypeOK
    <3>4. [account[b] EXCEPT ![f] = v][f] = v
      BY <1>1, <1>2, <3>2, FieldValue
    <3>5. account[b][f] = v
      BY <1>4, <3>3, <3>4
    <3>6. Agrees(Done(r), account)
      BY <1>1, <1>3, <3>1, <3>5 DEF Agrees
    <3>7. QED
      BY <1>4, <2>1, <2>4, <3>6, AnswerKept
  <2>5. QED
    BY <2>1, <2>2, <2>3, <2>4
<1>5. CASE ~UNCHANGED account
  <2>1. /\ account[b] # None /\ account' = [account EXCEPT ![b][f] = v]
        /\ Touch(r, b, f, Done(r))
    BY <1>5 DEF Commit
  <2>2. account[b] \in Rows
    BY <1>2, <2>1 DEF AnswerInv, TypeInv, TypeOK
  <2>3. account' = [account EXCEPT ![b] = [account[b] EXCEPT ![f] = v]]
    BY <1>2, <2>1 DEF AnswerInv, TypeInv, TypeOK
  <2>4. [account[b] EXCEPT ![f] = v] \in Rows /\ [account[b] EXCEPT ![f] = v][f] = v
        /\ f \in {"role", "status"}
    BY <1>1, <1>2, <2>2, FieldValue
  <2>5. account'[b] = [account[b] EXCEPT ![f] = v] /\ account'[b] # None
    <3>1. account'[b] = [account[b] EXCEPT ![f] = v]
      BY <1>2, <2>3 DEF AnswerInv, TypeInv, TypeOK
    <3>2. QED
      BY <2>4, <3>1, AdminUsersAssumption
  <2>6. /\ req'[r] = Done(r)
        /\ \A s \in Requests \ {r} :
             req[s].target = b /\ f \in {Field(req[s].op), "row"} => req'[s].touched
    BY <1>1, <2>1, DoneType, TouchOne DEF AnswerInv, TypeInv, HandlersOK, Became
  <2>7. Agrees(req'[r], account')
    BY <1>1, <1>3, <2>4, <2>5, <2>6 DEF Agrees
  <2>8. ASSUME NEW s \in Requests \ {r} PROVE Agrees(req'[s], account')
    <3>1. Marks(req'[s], req[s]) /\ Agrees(req[s], account)
      BY DEF Keeps, AnswerInv
    <3>2. CASE req[s].target # b
      <4>1. account'[req[s].target] = account[req[s].target]
        BY <2>3, <3>2
      <4>2. QED
        BY <3>1, <4>1 DEF Agrees, Marks
    <3>3. CASE req[s].target = b /\ f = Field(req[s].op)
      BY <2>6, <3>3 DEF Agrees
    <3>4. CASE req[s].target = b /\ f # Field(req[s].op)
      <4>1. Field(req[s].op) \in {"role", "status"}
        BY DEF Field
      <4>2. account'[b][Field(req[s].op)] = account[b][Field(req[s].op)]
        BY <2>2, <2>4, <2>5, <3>4, <4>1 DEF Rows
      <4>3. QED
        BY <2>1, <2>5, <3>1, <3>4, <4>2 DEF Agrees, Marks
    <3>5. QED
      BY <3>2, <3>3, <3>4
  <2>9. QED
    BY <2>7, <2>8 DEF AnswerInv
<1>6. QED
  BY <1>4, <1>5

\* Every step keeps what is about to be answered true, or touched.
LEMMA AnswerStep == AnswerInv /\ [Next]_vars => AnswerInv'
<1> SUFFICES ASSUME AnswerInv, [Next]_vars PROVE AnswerInv'
  OBVIOUS
<1>0. TypeInv /\ TypeInv'
  BY TypeStep DEF AnswerInv
<1>1. CASE UNCHANGED vars
  BY <1>0, <1>1 DEF vars, AnswerInv
<1>2. ASSUME NEW r \in Requests, Arrive(r) PROVE AnswerInv'
  <2>1. account' = account /\ req'[r].pc \notin {"commit", "answer"}
    BY <1>0, <1>2, Arriving
  <2>2. Agrees(req'[r], account)
    BY <2>1 DEF Agrees
  <2>3. QED
    BY <1>0, <1>2, <2>1, <2>2, HandlerType, AnswerKept
<1>3. ASSUME NEW r \in Requests, Aside(r) PROVE AnswerInv'
  <2>1. account' = account /\ (req'[r] = Idle \/ req'[r].pc \notin {"commit", "answer"})
    BY <1>0, <1>3, Standing
  <2>2. Agrees(req'[r], account)
    BY <2>1, IdleAgrees DEF Agrees
  <2>3. Keeps(r)
    BY <1>0, <1>3, HandlerType DEF Aside, HandlerStep
  <2>4. QED
    BY <1>0, <2>1, <2>2, <2>3, AnswerKept
<1>4. ASSUME NEW r \in Requests, LoadTarget(r) PROVE AnswerInv'
  <2>1. account' = account /\ Keeps(r)
    BY <1>0, <1>4, Loading, HandlerType DEF HandlerStep
  <2>2. Agrees(req'[r], account)
    <3>1. CASE req'[r] = Idle
      BY <3>1, IdleAgrees
    <3>2. CASE req'[r] # Idle
      BY <1>0, <1>4, <3>2, Loading DEF Agrees, Loaded
    <3>3. QED
      BY <3>1, <3>2
  <2>3. QED
    BY <1>0, <2>1, <2>2, AnswerKept
<1>5. ASSUME NEW r \in Requests, Commit(r) PROVE AnswerInv'
  BY <1>0, <1>5, HandlerType, CommitAnswers DEF HandlerStep
<1>6. ASSUME NEW r \in Requests, Delete(r) PROVE AnswerInv'
  <2> DEFINE b == req[r].target
  <2>1. /\ At(r, "commit") /\ account' = [account EXCEPT ![b] = None] /\ req[r].op = "delete"
        /\ Touch(r, b, "row", Done(r))
    BY <1>6 DEF Delete, Gone
  <2>2. b \in Accounts
    BY <1>0, <2>1 DEF At, TypeInv, HandlersOK, Known
  <2>3. Keeps(r)
    BY <1>0, <1>6, HandlerType DEF HandlerStep
  <2>4. /\ req'[r] = Done(r)
        /\ \A s \in Requests \ {r} : req[s].target = b => req'[s].touched
    BY <1>0, <2>1, DoneType, TouchOne DEF TypeInv, HandlersOK, Became
  <2>5. Agrees(req'[r], account')
    <3>1. Done(r).pc = "answer" /\ Done(r).op = "delete" /\ Done(r).target = b
      BY <1>0, <2>1, DoneType
    <3>2. account'[b] = None
      BY <1>0, <2>1, <2>2 DEF TypeInv, TypeOK
    <3>3. QED
      BY <2>4, <3>1, <3>2 DEF Agrees
  <2>6. ASSUME NEW s \in Requests \ {r} PROVE Agrees(req'[s], account')
    <3>1. Marks(req'[s], req[s]) /\ Agrees(req[s], account)
      BY <2>3 DEF Keeps, AnswerInv
    <3>2. CASE req[s].target = b
      BY <2>4, <3>2 DEF Agrees
    <3>3. CASE req[s].target # b
      <4>1. account'[req[s].target] = account[req[s].target]
        BY <2>1, <3>3
      <4>2. QED
        BY <3>1, <4>1 DEF Agrees, Marks
    <3>4. QED
      BY <3>2, <3>3
  <2>7. QED
    BY <1>0, <2>5, <2>6 DEF AnswerInv
<1>7. ASSUME NEW b \in Accounts, SelfDelete(b) PROVE AnswerInv'
  <2>1. ASSUME NEW s \in Requests PROVE Agrees(req'[s], account')
    <3>1. Marks(req'[s], req[s]) /\ Agrees(req[s], account)
      BY <1>0, <1>7, SelfDeleteType DEF AnswerInv
    <3>2. CASE req[s].target = b
      BY <1>0, <1>7, <3>2, Leaving DEF Agrees
    <3>3. CASE req[s].target # b
      <4>1. account' = [account EXCEPT ![b] = None]
        BY <1>0, <1>7, Leaving
      <4>2. account'[req[s].target] = account[req[s].target]
        BY <3>3, <4>1
      <4>3. QED
        BY <3>1, <4>2 DEF Agrees, Marks
    <3>4. QED
      BY <3>2, <3>3
  <2>2. QED
    BY <1>0, <2>1 DEF AnswerInv
<1>8. QED
  BY <1>1, <1>2, <1>3, <1>4, <1>5, <1>6, <1>7, Steps

\* A 200 of block, unblock, role or delete is true when it is sent, unless another
\* request has written the same field since.
THEOREM AnswersHold == Spec => []AnsweredAsDone
<1>1. AnswerInv => AnsweredAsDone
  BY DEF AnswerInv, Agrees, AnsweredAsDone, At
<1>2. QED
  BY <1>1, AnswerInit, AnswerStep, PTL DEF Spec

-----------------------------------------------------------------------------
(* Requests that nobody overlaps *)

\* A request is alone as long as every other slot is idle.
AloneInv ==
    /\ TypeInv
    /\ \A r, s \in Requests : req[r].alone /\ s # r => At(s, "idle")

\* A handler that takes a step is not idle, and is no more alone than it was.
LEMMA Moving ==
    ASSUME TypeInv, NEW r \in Requests, HandlerStep(r) \/ Crash(r)
    PROVE  ~At(r, "idle") /\ (req'[r].alone => req[r].alone)
<1>1. CASE Aside(r)
  BY <1>1, Standing DEF Idle
<1>2. CASE LoadTarget(r)
  BY <1>2, Loading DEF At, Idle
<1>3. CASE Commit(r) \/ Delete(r)
  BY <1>3, Committing, DoneType DEF At, Idle
<1>4. QED
  BY <1>1, <1>2, <1>3 DEF HandlerStep, Aside

\* A handler's step finds the others without solitude, or takes it from them.
LEMMA Others ==
    ASSUME AloneInv, NEW r \in Requests, Arrive(r) \/ HandlerStep(r) \/ Crash(r)
    PROVE  \A s \in Requests \ {r} : ~req'[s].alone
<1>1. CASE Arrive(r)
  BY <1>1, Arriving DEF AloneInv
<1>2. CASE HandlerStep(r) \/ Crash(r)
  <2>1. ASSUME NEW s \in Requests \ {r}, req'[s].alone PROVE FALSE
    <3>1. req[s].alone
      BY <1>2, <2>1, HandlerType DEF AloneInv, Keeps, Marks
    <3>2. At(r, "idle")
      BY <3>1 DEF AloneInv
    <3>3. QED
      BY <1>2, <3>2, Moving DEF AloneInv
  <2>2. QED
    BY <2>1
<1>3. QED
  BY <1>1, <1>2

\* At the start nobody is alone, being idle.
LEMMA AloneInit == Init => AloneInv
BY TypeInit DEF Init, AloneInv, At, Idle

\* Whoever arrives ends the solitude of the others.
LEMMA AloneStep == AloneInv /\ [Next]_vars => AloneInv'
<1> SUFFICES ASSUME AloneInv, [Next]_vars PROVE AloneInv'
  OBVIOUS
<1>0. TypeInv /\ TypeInv'
  BY TypeStep DEF AloneInv
<1>1. CASE UNCHANGED vars
  BY <1>0, <1>1 DEF vars, AloneInv, At
<1>2. ASSUME NEW r \in Requests, Arrive(r) \/ HandlerStep(r) \/ Crash(r) PROVE AloneInv'
  <2>1. ASSUME NEW q \in Requests, NEW s \in Requests, req'[q].alone, s # q
        PROVE  At(s, "idle")'
    <3>1. q = r
      BY <1>2, <2>1, Others
    <3>2. Marks(req'[s], req[s])
      BY <1>0, <1>2, <2>1, <3>1, HandlerType DEF Keeps
    <3>3. At(s, "idle")
      BY <1>0, <1>2, <2>1, <3>1, Arriving, Moving DEF AloneInv
    <3>4. QED
      BY <3>2, <3>3 DEF Marks, At
  <2>2. QED
    BY <1>0, <2>1 DEF AloneInv
<1>3. ASSUME NEW b \in Accounts, SelfDelete(b) PROVE AloneInv'
  BY <1>0, <1>3, Leaving DEF AloneInv
<1>4. QED
  BY <1>1, <1>2, <1>3 DEF Next

-----------------------------------------------------------------------------
(* Who may act on whom *)

\* What a request that is alone relies on.
Entitled(r) ==
    req[r].alone =>
      /\ At(r, "load") =>
           LET a == account[req[r].caller]
           IN  /\ a # None /\ a.status = "active" /\ a.role \in {"admin", "super"}
               /\ req[r].crole = a.role
      /\ At(r, "commit") => Outranked(r)

OutrankInv == AloneInv /\ \A r \in Requests : Entitled(r)

\* At the start nobody relies on anything.
LEMMA OutrankInit == Init => OutrankInv
<1>1. Init => \A r \in Requests : Entitled(r)
  BY DEF Init, Entitled, At, Idle
<1>2. QED
  BY <1>1, AloneInit DEF OutrankInv

\* The target a lone request loads is below its caller.
LEMMA LoadOutranks ==
    ASSUME OutrankInv, NEW r \in Requests, LoadTarget(r), req'[r].alone, At(r, "commit")'
    PROVE  Outranked(r)'
<1> DEFINE a == account[req[r].caller]
           b == account[req[r].target]
<1>1. TypeInv /\ req'[r] # Idle
  BY DEF OutrankInv, AloneInv, At, Idle
<1>2. /\ At(r, "load") /\ account' = account /\ b # None /\ May(req[r].crole, b)
      /\ req'[r].target = req[r].target /\ req'[r].caller = req[r].caller /\ req[r].alone
  BY <1>1, Loading
<1>3. a # None /\ a.status = "active" /\ a.role \in {"admin", "super"} /\ req[r].crole = a.role
  BY <1>2 DEF OutrankInv, Entitled
<1>4. b \in Rows
  BY <1>1, <1>2 DEF TypeInv, TypeOK, HandlersOK, Known, At
<1>5. a.role = "super" \/ (a.role = "admin" /\ b.role = "user")
  BY <1>2, <1>3, <1>4 DEF May, Rows, Roles, Assignable
<1>6. QED
  BY <1>2, <1>3, <1>5 DEF Outranked

\* Nothing happens to the caller or the target of a request that is alone.
LEMMA OutrankStep == OutrankInv /\ [Next]_vars => OutrankInv'
<1> SUFFICES ASSUME OutrankInv, [Next]_vars PROVE OutrankInv'
  OBVIOUS
<1>0. AloneInv /\ AloneInv' /\ TypeInv
  BY AloneStep DEF OutrankInv, AloneInv
<1>1. CASE UNCHANGED vars
  BY <1>0, <1>1 DEF vars, OutrankInv, Entitled, Outranked, At
<1>2. ASSUME NEW r \in Requests, Arrive(r) \/ HandlerStep(r) \/ Crash(r), Entitled(r)'
      PROVE  OutrankInv'
  BY <1>0, <1>2, Others DEF OutrankInv, Entitled
<1>3. ASSUME NEW r \in Requests, Arrive(r) PROVE Entitled(r)'
  BY <1>0, <1>3, Arriving DEF Entitled, At, AdminLevel
<1>4. ASSUME NEW r \in Requests, Aside(r) PROVE Entitled(r)'
  BY <1>0, <1>4, Standing DEF Entitled, At, Idle
<1>5. ASSUME NEW r \in Requests, LoadTarget(r) PROVE Entitled(r)'
  <2>1. ~At(r, "load")'
    BY <1>0, <1>5, Loading DEF At, Idle
  <2>2. QED
    BY <1>5, <2>1, LoadOutranks DEF Entitled
<1>6. ASSUME NEW r \in Requests, Commit(r) \/ Delete(r) PROVE Entitled(r)'
  BY <1>0, <1>6, Committing, DoneType DEF Entitled, At, Idle
<1>7. ASSUME NEW b \in Accounts, SelfDelete(b) PROVE OutrankInv'
  BY <1>0, <1>7, Leaving DEF OutrankInv, Entitled
<1>8. QED
  BY <1>1, <1>2, <1>3, <1>4, <1>5, <1>6, <1>7, Steps DEF HandlerStep, Aside

\* Whoever changes or deletes the account of another, by a request that nobody
\* overlaps, is an unblocked administrator above that account at that moment.
THEOREM OnlyOutranked == Spec => OutrankedAlone
<1>1. OutrankInv /\ [Next]_vars =>
        [\A r \in Requests : req[r].alone /\ (Commit(r) \/ Delete(r)) /\ account' # account
           => Outranked(r)]_vars
  <2>1. ASSUME OutrankInv, NEW r \in Requests, req[r].alone, Commit(r) \/ Delete(r)
        PROVE  Outranked(r)
    BY <2>1 DEF OutrankInv, Entitled, Commit, Delete
  <2>2. QED
    BY <2>1
<1>2. QED
  BY <1>1, OutrankInit, OutrankStep, PTL DEF Spec, OutrankedAlone

-----------------------------------------------------------------------------
(* Ended sessions *)

\* What a request holds against the return of an ended session.
Careful(r) ==
    /\ At(r, "save") => req[r].tok \notin ended
    /\ At(r, "drop") /\ req[r].op = "logout" => \E d \in Tokens : req[r].seen = {d}
    /\ req[r].alone =>
         /\ At(r, "drop_row") => req[r].seen \cap cached = {}
         /\ At(r, "drop") /\ req[r].op # "logout" =>
              \A d \in cached : row[d] = req[r].caller => d \in req[r].seen

EndedInv == AloneInv /\ EndedStaysOut /\ \A r \in Requests : Careful(r)

\* At the start no session has ended.
LEMMA EndedInit == Init => EndedInv
<1>1. Init => EndedStaysOut /\ \A r \in Requests : Careful(r)
  BY DEF Init, EndedStaysOut, Careful, At, Idle
<1>2. QED
  BY <1>1, AloneInit DEF EndedInv

\* A step of r leaves the others careful as long as no more sessions have ended, or
\* none of them is about to save one.
LEMMA OthersCareful ==
    ASSUME EndedInv, NEW r \in Requests, Arrive(r) \/ HandlerStep(r) \/ Crash(r),
           ended' \subseteq ended \/ req[r].alone, NEW s \in Requests \ {r}
    PROVE  Careful(s)'
<1>1. AloneInv /\ TypeInv /\ Careful(s)
  BY DEF EndedInv, AloneInv
<1>2. Marks(req'[s], req[s]) /\ ~req'[s].alone
  BY <1>1, HandlerType, Others DEF Keeps
<1>3. At(s, "save") => ended' \subseteq ended
  BY <1>1 DEF AloneInv, At
<1>4. QED
  BY <1>1, <1>2, <1>3 DEF Careful, Marks, At

\* A logout without a row left in Redis.
LEMMA Dropping ==
    ASSUME EndedInv, NEW r \in Requests, HandlerStep(r), NEW gone \in SUBSET Tokens,
           row' = [d \in Tokens |-> IF d \in gone THEN None ELSE row[d]],
           ended' = IF req[r].alone THEN ended \cup gone ELSE ended,
           req[r].alone => gone \cap cached = {},
           Finish(r), cached' = cached
    PROVE  EndedStaysOut' /\ \A s \in Requests : Careful(s)'
<1>1. TypeInv /\ EndedStaysOut /\ ended \subseteq Tokens
  BY DEF EndedInv, AloneInv, TypeInv, TypeOK
<1>2. EndedStaysOut'
  BY <1>1 DEF EndedStaysOut
<1>3. Careful(r)'
  BY <1>1, Finished DEF Careful, At, Idle
<1>4. ended' \subseteq ended \/ req[r].alone
  OBVIOUS
<1>5. QED
  BY <1>2, <1>3, <1>4, OthersCareful

\* A row comes back: its token has not ended any more.
LEMMA InsertRowEnded ==
    ASSUME EndedInv, NEW r \in Requests, InsertRow(r)
    PROVE  EndedStaysOut' /\ \A s \in Requests : Careful(s)'
<1> DEFINE t == req[r].tok
<1>1. TypeInv /\ EndedStaysOut /\ cached' = cached /\ HandlerStep(r)
  BY DEF EndedInv, AloneInv, InsertRow, HandlerStep
<1>2. t \in Tokens /\ ended \subseteq Tokens /\ req[r] \in Handlers
  BY <1>1 DEF InsertRow, At, TypeInv, TypeOK, HandlersOK, Known
<1>3. CASE row[t] = None /\ account[req[r].caller] # None
  <2>1. /\ row' = [row EXCEPT ![t] = req[r].caller] /\ ended' = ended \ {t}
        /\ req'[r] = [req[r] EXCEPT !.pc = "save"]
    BY <1>3 DEF InsertRow
  <2>2. EndedStaysOut'
    BY <1>1, <1>2, <2>1 DEF EndedStaysOut, TypeInv, TypeOK
  <2>3. req'[r].pc = "save" /\ req'[r].tok = t
    BY <1>2, <2>1 DEF Handlers
  <2>4. Careful(r)'
    BY <2>1, <2>3 DEF Careful, At
  <2>5. QED
    BY <1>1, <2>1, <2>2, <2>4, OthersCareful
<1>4. CASE ~(row[t] = None /\ account[req[r].caller] # None)
  <2>1. Finish(r) /\ row' = row /\ ended' = ended
    BY <1>4 DEF InsertRow
  <2>2. Careful(r)'
    BY <1>1, <2>1, Finished DEF Careful, At, Idle
  <2>3. QED
    BY <1>1, <2>1, <2>2, OthersCareful DEF EndedStaysOut
<1>5. QED
  BY <1>3, <1>4

\* The key that a logout deletes is that of the row it goes for; a logout whose key
\* stays is not counted.
LEMMA DropKeyEnded ==
    ASSUME EndedInv, NEW r \in Requests, NEW d \in Tokens, DropKey(r, d) \/ KeepKey(r, d)
    PROVE  EndedStaysOut' /\ \A s \in Requests : Careful(s)'
<1>1. /\ TypeInv /\ EndedStaysOut /\ Careful(r) /\ HandlerStep(r)
      /\ At(r, "drop") /\ d \in req[r].seen /\ req[r] \in Handlers
  BY DEF EndedInv, AloneInv, DropKey, KeepKey, HandlerStep, TypeInv, HandlersOK
<1>2. row' = row /\ ended' = ended /\ jwt' = jwt /\ cached' \subseteq cached
  BY DEF DropKey, KeepKey, tokens
<1>3. /\ TypeInv /\ At(r, "drop") /\ jwt' = jwt /\ req[r].alone \in BOOLEAN
      /\ \/ KeyDone(r, d, req[r].alone) /\ cached' = cached \ {d}
         \/ KeyDone(r, d, FALSE)
  BY <1>1, <1>2 DEF DropKey, KeepKey, Handlers
<1>4. /\ req'[r].op = req[r].op /\ req'[r].caller = req[r].caller
      /\ req'[r].alone => req[r].alone /\ cached' = cached \ {d}
      /\ req[r].op = "logout" => req'[r].pc = "drop_row" /\ req'[r].seen = req[r].seen
      /\ req[r].op # "logout" => req'[r].pc = "drop" /\ req'[r].seen = req[r].seen \ {d}
  <2>1. CASE KeyDone(r, d, req[r].alone) /\ cached' = cached \ {d}
    BY <1>3, <2>1, KeyDoneRecord
  <2>2. CASE KeyDone(r, d, FALSE)
    BY <1>3, <2>2, KeyDoneRecord
  <2>3. QED
    BY <1>3, <2>1, <2>2
<1>5. Careful(r)'
  <2>1. CASE req[r].op = "logout"
    <3>1. req[r].seen = {d}
      BY <1>1, <2>1 DEF Careful
    <3>2. QED
      BY <1>4, <2>1, <3>1 DEF Careful, At
  <2>2. CASE req[r].op # "logout"
    <3>1. req'[r].alone => \A e \in cached' : row'[e] = req'[r].caller => e \in req'[r].seen
      BY <1>1, <1>2, <1>4, <2>2 DEF Careful
    <3>2. QED
      BY <1>4, <2>2, <3>1 DEF Careful, At
  <2>3. QED
    BY <2>1, <2>2
<1>6. EndedStaysOut'
  BY <1>1, <1>2 DEF EndedStaysOut
<1>7. QED
  BY <1>1, <1>2, <1>5, <1>6, OthersCareful

\* The steps that change sessions.
LEMMA AsideEnded ==
    ASSUME EndedInv, NEW r \in Requests, Aside(r)
    PROVE  EndedStaysOut' /\ \A s \in Requests : Careful(s)'
<1>1. TypeInv /\ EndedStaysOut /\ (HandlerStep(r) \/ Crash(r)) /\ Careful(r)
  BY DEF EndedInv, AloneInv, Aside, HandlerStep
<1>2. CASE Answer(r) \/ Crash(r) \/ ListDevices(r)
  <2>1. UNCHANGED <<row, cached, ended>> /\ (Finish(r) \/ Goto(r, "insert"))
    BY <1>2 DEF Answer, Crash, ListDevices, sessions
  <2>2. req'[r] = Idle \/ req'[r].pc = "insert"
    BY <1>1, <2>1, Finished DEF Goto, Become, TypeInv, HandlersOK, Handlers
  <2>3. Careful(r)'
    BY <2>2 DEF Careful, At, Idle
  <2>4. QED
    BY <1>1, <2>1, <2>3, OthersCareful DEF EndedStaysOut
<1>3. CASE SaveSession(r)
  <2>1. /\ cached' \subseteq cached \cup {req[r].tok} /\ row' = row /\ ended' = ended
        /\ At(r, "save")
    BY <1>3 DEF SaveSession
  <2>2. EndedStaysOut'
    BY <1>1, <2>1 DEF EndedStaysOut, Careful
  <2>3. Careful(r)'
    BY <1>1, <1>3, Finished DEF SaveSession, Careful, At, Idle
  <2>4. QED
    BY <1>1, <2>1, <2>2, <2>3, OthersCareful
<1>4. CASE DropRow(r)
  <2> DEFINE gone == {d \in req[r].seen : row[d] = req[r].caller /\ ~req[r].touched}
  <2>1. gone \in SUBSET Tokens
    BY <1>1 DEF TypeInv, HandlersOK, Handlers
  <2>2. /\ row' = [d \in Tokens |-> IF d \in gone THEN None ELSE row[d]]
        /\ ended' = IF req[r].alone THEN ended \cup gone ELSE ended
        /\ Finish(r) /\ cached' = cached /\ HandlerStep(r)
    BY <1>4 DEF DropRow, HandlerStep
  <2>3. req[r].alone => gone \cap cached = {}
    BY <1>1, <1>4 DEF DropRow, Careful
  <2> HIDE DEF gone
  <2>4. QED
    BY <2>1, <2>2, <2>3, Dropping
<1>5. CASE DropRows(r)
  <2> DEFINE gone == {d \in Tokens : row[d] = req[r].caller}
  <2>1. gone \in SUBSET Tokens
    OBVIOUS
  <2>2. /\ row' = [d \in Tokens |-> IF d \in gone THEN None ELSE row[d]]
        /\ ended' = IF req[r].alone THEN ended \cup gone ELSE ended
        /\ Finish(r) /\ cached' = cached /\ HandlerStep(r)
    BY <1>5 DEF DropRows, HandlerStep
  <2>3. req[r].alone => gone \cap cached = {}
    BY <1>1, <1>5 DEF DropRows, Careful
  <2> HIDE DEF gone
  <2>4. QED
    BY <2>1, <2>2, <2>3, Dropping
<1>6. QED
  BY <1>2, <1>3, <1>4, <1>5, InsertRowEnded, DropKeyEnded DEF Aside

\* No step returns an ended session but one that takes it off the record.
LEMMA EndedStep == EndedInv /\ [Next]_vars => EndedInv'
<1> SUFFICES ASSUME EndedInv, [Next]_vars PROVE EndedInv'
  OBVIOUS
<1>0. AloneInv /\ AloneInv' /\ TypeInv /\ EndedStaysOut
  BY AloneStep DEF EndedInv, AloneInv
<1>1. CASE UNCHANGED vars
  BY <1>0, <1>1 DEF vars, EndedInv, EndedStaysOut, Careful, At
<1>2. ASSUME NEW r \in Requests, Arrive(r) PROVE EndedInv'
  <2>1. UNCHANGED <<row, cached, ended>>
    BY <1>0, <1>2, Arriving
  <2>2. Careful(r)'
    BY <1>0, <1>2, <2>1, Arriving DEF Careful, At, TypeInv, TypeOK
  <2>3. QED
    BY <1>0, <1>2, <2>1, <2>2, OthersCareful DEF EndedInv, EndedStaysOut
<1>3. ASSUME NEW r \in Requests, Aside(r) PROVE EndedInv'
  BY <1>0, <1>3, AsideEnded DEF EndedInv
<1>4. ASSUME NEW r \in Requests, LoadTarget(r) PROVE EndedInv'
  <2>1. UNCHANGED <<row, cached, ended>> /\ Careful(r)'
    BY <1>0, <1>4, Loading DEF Careful, At, Idle
  <2>2. QED
    BY <1>0, <1>4, <2>1, OthersCareful DEF EndedInv, EndedStaysOut, HandlerStep
<1>5. ASSUME NEW r \in Requests, Commit(r) \/ Delete(r) PROVE EndedInv'
  <2>1. Careful(r)'
    BY <1>0, <1>5, Committing, DoneType DEF Careful, At, Idle
  <2>2. /\ cached' = cached /\ ended' = ended
        /\ \A t \in Tokens : row'[t] = row[t] \/ row'[t] = None
    BY <1>5 DEF Commit, Delete, Gone, sessions
  <2>3. EndedStaysOut'
    BY <1>0, <2>2 DEF EndedStaysOut, TypeInv, TypeOK
  <2>4. QED
    BY <1>0, <1>5, <2>1, <2>2, <2>3, OthersCareful DEF EndedInv, HandlerStep
<1>6. ASSUME NEW b \in Accounts, SelfDelete(b) PROVE EndedInv'
  <2>1. /\ cached' \subseteq cached /\ ended' = ended
        /\ \A t \in Tokens : row'[t] = row[t] \/ row'[t] = None
    BY <1>6 DEF SelfDelete, Gone
  <2>2. EndedStaysOut'
    BY <1>0, <2>1 DEF EndedStaysOut, TypeInv, TypeOK
  <2>3. ASSUME NEW s \in Requests PROVE Careful(s)'
    <3>1. Marks(req'[s], req[s]) /\ ~req'[s].alone /\ Careful(s)
      BY <1>0, <1>6, SelfDeleteType, Leaving DEF EndedInv
    <3>2. QED
      BY <2>1, <3>1 DEF Careful, Marks, At
  <2>4. QED
    BY <1>0, <2>2, <2>3 DEF EndedInv
<1>7. QED
  BY <1>1, <1>2, <1>3, <1>4, <1>5, <1>6, Steps

\* A token whose session ended with a logout that nobody overlapped, and whose key
\* Redis did delete, stays out of the session store until a login or a device list puts
\* it back.
THEOREM LoggedOutStaysOut == Spec => []EndedStaysOut
<1>1. EndedInv => EndedStaysOut
  BY DEF EndedInv
<1>2. QED
  BY <1>1, EndedInit, EndedStep, PTL DEF Spec
=============================================================================
