------------------------- MODULE RegistrationProofs --------------------------
(***************************************************************************)
(* What holds of Registration for any temp tokens, requests and bounds:    *)
(* complete rows, codes that were mailed, tokens used once, the life of an *)
(* account, and, without overlaps, passwords that are whose they should be. *)
(***************************************************************************)
EXTENDS Registration, TLAPS

-----------------------------------------------------------------------------
(* The requests *)

\* What handler q does at its step.
Known(q) ==
    \/ q.op = "none" /\ q.pc = "idle"
    \/ /\ q.tok \in Temps
       /\ \/ q.op = "signup" /\ q.pc \in {"register", "reregister", "insert", "mail"}
          \/ q.op = "reset" /\ q.pc \in {"insert", "mail"}
          \/ q.op = "delete" /\ q.pc \in {"insert", "mail", "retract"}
          \/ q.op \in ResendOps /\ q.pc \in {"mail", "store"}
          \/ q.op = "verify" /\ q.pc \in {"load", "activate"}
          \/ q.op = "confirm" /\ q.pc = "set_password"
          \/ q.op = "delete_verify" /\ q.pc = "erase"

TypeInv == TypeOK /\ \A r \in Requests : Known(req[r])

\* Handler r makes the step, the others stay.
Alone(r) == \A s \in Requests \ {r} : req'[s] = req[s]

\* Handler r goes on at pc, the rest of its record as it was.
Moved(r, pc) ==
    /\ req' \in [Requests -> Handlers] /\ Alone(r)
    /\ req'[r].op = req[r].op /\ req'[r].pc = pc /\ req'[r].tok = req[r].tok
    /\ req'[r].uid = req[r].uid /\ req'[r].code = req[r].code /\ req'[r].profile = req[r].profile

\* Handler r ends.
Ended(r) == req' \in [Requests -> Handlers] /\ Alone(r) /\ req'[r] = Idle

\* The idle record has its type.
LEMMA IdleType == Idle \in Handlers /\ Known(Idle) /\ Idle.op = "none" /\ Idle.tok = None
BY RegistrationAssumption DEF Idle, Handlers, Known, OpNames, PCs

\* One handler changes.
LEMMA BecomeOne ==
    ASSUME TypeInv, NEW r \in Requests, NEW rec \in Handlers, Become(r, rec)
    PROVE  req' \in [Requests -> Handlers] /\ Alone(r) /\ req'[r] = rec
BY DEF TypeInv, TypeOK, Become, Alone

\* A handler that finishes leaves its slot idle.
LEMMA Ending ==
    ASSUME TypeInv, NEW r \in Requests, Finish(r)
    PROVE  Ended(r)
BY BecomeOne, IdleType DEF Finish, Ended

\* A handler goes on.
LEMMA Moving ==
    ASSUME TypeInv, NEW r \in Requests, NEW pc \in PCs, Goto(r, pc)
    PROVE  Moved(r, pc)
<1> DEFINE rec == [req[r] EXCEPT !.pc = pc]
<1>1. req[r] \in Handlers /\ Become(r, rec)
  BY DEF TypeInv, TypeOK, Goto
<1>2. /\ rec \in Handlers
      /\ rec.op = req[r].op /\ rec.pc = pc /\ rec.tok = req[r].tok
      /\ rec.uid = req[r].uid /\ rec.code = req[r].code /\ rec.profile = req[r].profile
  BY <1>1 DEF Handlers
<1> HIDE DEF rec
<1>3. QED
  BY <1>1, <1>2, BecomeOne DEF Moved

\* A handler begins in the idle slot r.
Begins(r, op, pc, k) ==
    /\ req' \in [Requests -> Handlers] /\ Alone(r) /\ req[r].pc = "idle"
    /\ req'[r].op = op /\ req'[r].pc = pc /\ req'[r].tok = k /\ req'[r].profile = FALSE
    /\ disturbed' \in BOOLEAN
    /\ disturbed \/ (\E s \in Requests : req[s].pc # "idle") => disturbed'

\* A handler begins with its record.
LEMMA Beginning ==
    ASSUME TypeInv, NEW r \in Requests, NEW rec \in Handlers, Begin(r, rec)
    PROVE  /\ req' \in [Requests -> Handlers] /\ Alone(r) /\ req[r].pc = "idle"
           /\ req'[r] = rec /\ disturbed' \in BOOLEAN
           /\ disturbed \/ (\E s \in Requests : req[s].pc # "idle") => disturbed'
<1>1. Become(r, rec) /\ req[r].pc = "idle"
  BY DEF Begin, At
<1>2. disturbed' \in BOOLEAN /\ (disturbed \/ (\E s \in Requests : req[s].pc # "idle") => disturbed')
  BY DEF Begin, At, TypeInv, TypeOK
<1>3. QED
  BY <1>1, <1>2, BecomeOne

\* A signup begins with a fresh token and the account it found.
LEMMA StartSignupDoes ==
    ASSUME TypeInv, NEW r \in Requests, NEW k \in Temps, StartSignup(r, k)
    PROVE  /\ Begins(r, "signup", "register", k) /\ req'[r].uid = account.id
           /\ kind[k] = "none" /\ kind' = [kind EXCEPT ![k] = "signup"] /\ ~account.verified
           /\ UNCHANGED <<data, codes, post, used>>
<1> DEFINE rec == [Idle EXCEPT !.op = "signup", !.pc = "register", !.tok = k, !.uid = account.id]
<1>1. /\ rec \in Handlers /\ rec.op = "signup" /\ rec.pc = "register" /\ rec.tok = k
      /\ rec.uid = account.id /\ rec.profile = FALSE
  BY IdleType DEF Idle, Handlers, OpNames, IssueOps, PCs, TypeInv, TypeOK, Accounts
<1>2. Begin(r, rec) /\ kind[k] = "none" /\ kind' = [kind EXCEPT ![k] = "signup"] /\ ~account.verified
      /\ UNCHANGED <<data, codes, post, used>>
  BY DEF StartSignup
<1> HIDE DEF rec
<1>3. QED
  BY <1>1, <1>2, Beginning DEF Begins

\* A reset or a deletion begins with a fresh token and the account there is.
LEMMA StartIssueDoes ==
    ASSUME TypeInv, NEW r \in Requests, NEW op, NEW k \in Temps, StartIssue(r, op, k)
    PROVE  /\ Begins(r, op, "insert", k) /\ req'[r].uid = account.id /\ op \in {"reset", "delete"}
           /\ kind[k] = "none" /\ kind' = [kind EXCEPT ![k] = op] /\ account.id # 0
           /\ UNCHANGED <<data, codes, post, used>>
<1> DEFINE rec == [Idle EXCEPT !.op = op, !.pc = "insert", !.tok = k, !.uid = account.id]
<1>1. op \in {"reset", "delete"}
  BY DEF StartIssue
<1>2. /\ rec \in Handlers /\ rec.op = op /\ rec.pc = "insert" /\ rec.tok = k
      /\ rec.uid = account.id /\ rec.profile = FALSE
  BY <1>1, IdleType DEF Idle, Handlers, OpNames, IssueOps, PCs, TypeInv, TypeOK, Accounts
<1>3. Begin(r, rec) /\ kind[k] = "none" /\ kind' = [kind EXCEPT ![k] = op] /\ account.id # 0
      /\ UNCHANGED <<data, codes, post, used>>
  BY DEF StartIssue
<1> HIDE DEF rec
<1>4. QED
  BY <1>1, <1>2, <1>3, Beginning DEF Begins

\* A resend begins with a new code for a token a client presents.
LEMMA StartResendDoes ==
    ASSUME TypeInv, NEW r \in Requests, NEW op, NEW k \in Temps, StartResend(r, op, k)
    PROVE  /\ Begins(r, op, "mail", k) /\ op \in ResendOps /\ k \in held
           /\ codes' \in [Temps -> 0..MaxCodes] /\ UNCHANGED <<data, kind, post, used>>
<1> DEFINE rec == [Idle EXCEPT !.op = op, !.pc = "mail", !.tok = k, !.code = codes[k] + 1]
<1>1. op \in ResendOps /\ k \in held
  BY DEF StartResend, Presents
<1>2. codes[k] \in 0..MaxCodes /\ codes[k] < MaxCodes /\ codes[k] + 1 \in 0..MaxCodes
  BY RegistrationAssumption DEF StartResend, TypeInv, TypeOK
<1>3. /\ rec \in Handlers /\ rec.op = op /\ rec.pc = "mail" /\ rec.tok = k
      /\ rec.profile = FALSE
  BY <1>1, <1>2, IdleType DEF Idle, Handlers, OpNames, ResendOps, PCs
<1>4. Begin(r, rec) /\ codes' = [codes EXCEPT ![k] = @ + 1] /\ UNCHANGED <<data, kind, post, used>>
  BY DEF StartResend
<1>5. codes' \in [Temps -> 0..MaxCodes]
  BY <1>2, <1>4 DEF TypeInv, TypeOK
<1> HIDE DEF rec
<1>6. QED
  BY <1>1, <1>3, <1>4, <1>5, Beginning DEF Begins

\* What the verifications of a code begin with: a token with its row and the right type.
Proven(r, op, pc, k, type) ==
    /\ Begins(r, op, pc, k) /\ req'[r].uid = temp[k].uid
    /\ k \in held /\ temp[k].type = type
    /\ UNCHANGED <<data, drawn, post, used>>

\* The three verifications begin so.
LEMMA StartProvenDoes ==
    ASSUME TypeInv, NEW r \in Requests, NEW k \in Temps
    PROVE  /\ StartVerify(r, k) => Proven(r, "verify", "load", k, "email_verify")
           /\ StartConfirm(r, k) => Proven(r, "confirm", "set_password", k, "password_reset")
           /\ StartDeleteVerify(r, k) => Proven(r, "delete_verify", "erase", k, "delete_account")
<1>1. ASSUME NEW op \in OpNames, NEW pc \in PCs, NEW type, Proves(k, type),
             Begin(r, [Idle EXCEPT !.op = op, !.pc = pc, !.tok = k, !.uid = temp[k].uid]),
             UNCHANGED <<data, drawn, post, used>>
      PROVE  Proven(r, op, pc, k, type)
  <2> DEFINE rec == [Idle EXCEPT !.op = op, !.pc = pc, !.tok = k, !.uid = temp[k].uid]
  <2>1. temp[k].uid \in 0..MaxIds
    BY DEF TypeInv, TypeOK, Rows
  <2>2. /\ rec \in Handlers /\ rec.op = op /\ rec.pc = pc /\ rec.tok = k
        /\ rec.uid = temp[k].uid /\ rec.profile = FALSE
    BY <2>1, IdleType DEF Idle, Handlers
  <2>3. Begin(r, rec) /\ k \in held /\ temp[k].type = type
    BY <1>1 DEF Proves, Presents
  <2> HIDE DEF rec
  <2>4. QED
    BY <1>1, <2>2, <2>3, Beginning DEF Begins, Proven
<1>2. QED
  BY <1>1 DEF StartVerify, StartConfirm, StartDeleteVerify, OpNames, PCs

-----------------------------------------------------------------------------
(* The steps of the handlers *)

\* The rows S go, the others stay.
Drops(S) ==
    /\ temp' \in [Temps -> Rows]
    /\ \A k \in Temps : temp'[k] = IF k \in S THEN NoRow ELSE temp[k]

\* Rows that are deleted.
LEMMA DroppedRows ==
    ASSUME TypeInv, NEW S, temp' = Dropped(S)
    PROVE  Drops(S)
BY RegistrationAssumption DEF Dropped, Drops, TypeInv, TypeOK, Rows, NoRow

\* A signup that found no account inserts one, or finds that another has.
LEMMA CreateAccountDoes ==
    ASSUME TypeInv, NEW r \in Requests, CreateAccount(r)
    PROVE  /\ req[r].pc = "register" /\ UNCHANGED <<temp, drawn, post, used, disturbed>>
           /\ \/ Ended(r) /\ UNCHANGED <<account, lastId>>
              \/ /\ account.id = 0 /\ account' \in Accounts /\ lastId' \in 0..MaxIds
                 /\ lastId' = lastId + 1 /\ account'.id = lastId + 1
                 /\ account'.verified = FALSE /\ account'.profile = FALSE /\ account'.pw = req[r].tok
                 /\ req' \in [Requests -> Handlers] /\ Alone(r)
                 /\ req'[r].op = req[r].op /\ req'[r].pc = "insert" /\ req'[r].tok = req[r].tok
                 /\ req'[r].uid = lastId + 1 /\ req'[r].code = req[r].code
                 /\ req'[r].profile = req[r].profile
<1>1. req[r].pc = "register" /\ UNCHANGED <<temp, drawn, post, used, disturbed>>
  BY DEF CreateAccount, At
<1>2. CASE account.id # 0
  BY <1>1, <1>2, Ending DEF CreateAccount
<1>3. CASE account.id = 0
  <2> DEFINE n   == lastId + 1
             acc == [NoAccount EXCEPT !.id = n, !.pw = req[r].tok]
             rec == [req[r] EXCEPT !.pc = "insert", !.uid = n]
  <2>1. lastId < MaxIds /\ lastId' = n /\ account' = acc /\ Become(r, rec)
    BY <1>3 DEF CreateAccount
  <2>2. n \in 0..MaxIds /\ req[r] \in Handlers /\ req[r].tok \in Temps \cup {None}
    BY <2>1, RegistrationAssumption DEF TypeInv, TypeOK, Handlers
  <2> HIDE DEF n
  <2>3. /\ acc \in Accounts /\ acc.id = n /\ acc.pw = req[r].tok
        /\ acc.verified = FALSE /\ acc.profile = FALSE
    BY <2>2, RegistrationAssumption DEF NoAccount, Accounts
  <2>4. /\ rec \in Handlers /\ rec.op = req[r].op /\ rec.pc = "insert" /\ rec.tok = req[r].tok
        /\ rec.uid = n /\ rec.code = req[r].code /\ rec.profile = req[r].profile
    BY <2>2 DEF Handlers, PCs
  <2> HIDE DEF acc, rec
  <2>5. req' \in [Requests -> Handlers] /\ Alone(r) /\ req'[r] = rec
    BY <2>1, <2>4, BecomeOne
  <2>6. n = lastId + 1
    BY DEF n
  <2>7. QED
    BY <1>1, <1>3, <2>1, <2>2, <2>3, <2>4, <2>5, <2>6
<1>4. QED
  BY <1>2, <1>3

\* The account takes a new password.
LEMMA NewPassword ==
    ASSUME TypeInv, NEW k \in Temps, account' = [account EXCEPT !.pw = k]
    PROVE  /\ account' \in Accounts /\ account'.id = account.id /\ account'.pw = k
           /\ account'.verified = account.verified /\ account'.profile = account.profile
BY DEF TypeInv, TypeOK, Accounts

\* A signup that found an account picks the verification tokens it will delete.
LEMMA DropOldTokensDoes ==
    ASSUME TypeInv, NEW r \in Requests, DropOldTokens(r)
    PROVE  /\ req[r].pc = "register" /\ Moved(r, "reregister")
           /\ req'[r].doomed = {k \in Temps : temp[k].uid = req[r].uid /\ temp[k].type = "email_verify"}
           /\ UNCHANGED <<data, drawn, post, used, disturbed>>
<1> DEFINE S   == {k \in Temps : temp[k].uid = req[r].uid /\ temp[k].type = "email_verify"}
           rec == [req[r] EXCEPT !.pc = "reregister", !.doomed = S]
<1>1. /\ req[r].pc = "register" /\ Become(r, rec)
      /\ UNCHANGED <<data, drawn, post, used, disturbed>>
  BY DEF DropOldTokens, At
<1>2. req[r] \in Handlers /\ S \in SUBSET Temps
  BY DEF TypeInv, TypeOK
<1> HIDE DEF S
<1>3. /\ rec \in Handlers /\ rec.op = req[r].op /\ rec.pc = "reregister" /\ rec.tok = req[r].tok
      /\ rec.uid = req[r].uid /\ rec.code = req[r].code /\ rec.profile = req[r].profile
      /\ rec.doomed = S
  BY <1>2 DEF Handlers, PCs
<1> HIDE DEF rec
<1>4. QED
  BY <1>1, <1>3, BecomeOne DEF Moved, S

\* At its commit it replaces the password and deletes those tokens.
LEMMA ReRegisterDoes ==
    ASSUME TypeInv, NEW r \in Requests, ReRegister(r)
    PROVE  /\ req[r].pc = "reregister" /\ UNCHANGED <<lastId, drawn, post, used, disturbed>>
           /\ \/ Ended(r) /\ UNCHANGED <<account, temp>>
              \/ /\ Present(req[r].uid) /\ Moved(r, "insert")
                 /\ account' \in Accounts /\ account'.id = account.id /\ account'.pw = req[r].tok
                 /\ account'.verified = account.verified /\ account'.profile = account.profile
                 /\ Drops(req[r].doomed)
<1>1. req[r].pc = "reregister" /\ UNCHANGED <<lastId, drawn, post, used, disturbed>>
  BY DEF ReRegister, At
<1>2. req[r].tok \in Temps /\ req[r] \in Handlers
  BY <1>1 DEF TypeInv, TypeOK, Known
<1>3. CASE ~Present(req[r].uid)
  BY <1>1, <1>3, Ending DEF ReRegister
<1>4. CASE Present(req[r].uid)
  <2> DEFINE rec == [req[r] EXCEPT !.pc = "insert", !.doomed = {}]
  <2>1. /\ account' = [account EXCEPT !.pw = req[r].tok] /\ Become(r, rec)
        /\ temp' = Dropped(req[r].doomed)
    BY <1>4 DEF ReRegister
  <2>2. /\ rec \in Handlers /\ rec.op = req[r].op /\ rec.pc = "insert" /\ rec.tok = req[r].tok
        /\ rec.uid = req[r].uid /\ rec.code = req[r].code /\ rec.profile = req[r].profile
    BY <1>2 DEF Handlers, PCs
  <2> HIDE DEF rec
  <2>3. Moved(r, "insert")
    BY <2>1, <2>2, BecomeOne DEF Moved
  <2>4. Drops(req[r].doomed)
    BY <2>1, DroppedRows
  <2>5. QED
    BY <1>1, <1>2, <1>4, <2>1, <2>3, <2>4, NewPassword
<1>5. QED
  BY <1>3, <1>4

\* The row of the token, with its first code.
LEMMA InsertTokenDoes ==
    ASSUME TypeInv, NEW r \in Requests, InsertToken(r)
    PROVE  /\ req[r].pc = "insert" /\ UNCHANGED <<account, lastId, kind, post, used, disturbed>>
           /\ \/ Ended(r) /\ UNCHANGED <<temp, codes>>
              \/ /\ Present(req[r].uid) /\ codes' \in [Temps -> 0..MaxCodes]
                 /\ temp' \in [Temps -> Rows]
                 /\ temp'[req[r].tok].uid = req[r].uid
                 /\ temp'[req[r].tok].type = TypeOfOp(req[r].op) /\ temp'[req[r].tok].code = 1
                 /\ \A j \in Temps \ {req[r].tok} : temp'[j] = temp[j]
                 /\ req' \in [Requests -> Handlers] /\ Alone(r)
                 /\ req'[r].op = req[r].op /\ req'[r].pc = "mail" /\ req'[r].tok = req[r].tok
                 /\ req'[r].uid = req[r].uid /\ req'[r].code = 1
                 /\ req'[r].profile = req[r].profile
<1>1. req[r].pc = "insert" /\ UNCHANGED <<account, lastId, kind, post, used, disturbed>>
  BY DEF InsertToken, At
<1>2. req[r].tok \in Temps /\ req[r] \in Handlers /\ req[r].op \in IssueOps
  BY <1>1 DEF TypeInv, TypeOK, Known, IssueOps
<1>3. CASE ~Present(req[r].uid)
  BY <1>1, <1>3, Ending DEF InsertToken
<1>4. CASE Present(req[r].uid)
  <2> DEFINE type == TypeOfOp(req[r].op)
             row  == [uid |-> req[r].uid, type |-> type, code |-> 1, young |-> TRUE,
                      expired |-> FALSE]
             rec  == [req[r] EXCEPT !.pc = "mail", !.code = 1]
  <2>1. /\ temp' = [temp EXCEPT ![req[r].tok] = row] /\ codes' = [codes EXCEPT ![req[r].tok] = 1]
        /\ Become(r, rec)
    BY <1>4 DEF InsertToken
  <2>2. type \in Types /\ req[r].uid \in 0..MaxIds /\ 1 \in 0..MaxCodes
    BY <1>2, RegistrationAssumption DEF TypeOfOp, IssueOps, Types, Handlers
  <2> HIDE DEF type
  <2>3. row \in Rows /\ row.uid = req[r].uid /\ row.type = type /\ row.code = 1
    BY <2>2 DEF Rows
  <2>4. /\ rec \in Handlers /\ rec.op = req[r].op /\ rec.pc = "mail" /\ rec.tok = req[r].tok
        /\ rec.uid = req[r].uid /\ rec.code = 1 /\ rec.profile = req[r].profile
    BY <1>2, <2>2 DEF Handlers, PCs
  <2> HIDE DEF row, rec
  <2>5. temp' \in [Temps -> Rows] /\ temp'[req[r].tok] = row /\ codes' \in [Temps -> 0..MaxCodes]
        /\ \A j \in Temps \ {req[r].tok} : temp'[j] = temp[j]
    BY <1>2, <2>1, <2>2, <2>3 DEF TypeInv, TypeOK
  <2>6. req' \in [Requests -> Handlers] /\ Alone(r) /\ req'[r] = rec
    BY <2>1, <2>4, BecomeOne
  <2>7. type = TypeOfOp(req[r].op)
    BY DEF type
  <2>8. QED
    BY <1>1, <1>4, <2>3, <2>4, <2>5, <2>6, <2>7
<1>5. QED
  BY <1>3, <1>4

\* What follows a mail or its failure.
AfterMailDoes(r, sent) ==
    \/ req[r].op \in ResendOps /\ Moved(r, "store") /\ UNCHANGED held
    \/ req[r].op = "delete" /\ ~sent /\ Moved(r, "retract") /\ UNCHANGED held
    \/ req[r].op \in IssueOps /\ Ended(r) /\ held' = held \cup {req[r].tok}

\* The code of the handler is in the mailbox.
LEMMA MailDoes ==
    ASSUME TypeInv, NEW r \in Requests, Mail(r)
    PROVE  /\ req[r].pc = "mail" /\ req[r].tok \in Temps /\ AfterMailDoes(r, TRUE)
           /\ mailed' \in [Temps -> SUBSET (0..MaxCodes)]
           /\ mailed'[req[r].tok] = mailed[req[r].tok] \cup {req[r].code}
           /\ \A j \in Temps \ {req[r].tok} : mailed'[j] = mailed[j]
           /\ UNCHANGED <<data, drawn, unmailed, used, disturbed>>
<1>1. req[r].pc = "mail" /\ mailed' = [mailed EXCEPT ![req[r].tok] = @ \cup {req[r].code}]
      /\ UNCHANGED <<data, drawn, unmailed, used, disturbed>>
  BY DEF Mail, At
<1>2. req[r].tok \in Temps /\ req[r].code \in 0..MaxCodes /\ req[r].op \in IssueOps \cup ResendOps
  BY <1>1 DEF TypeInv, TypeOK, Known, Handlers, IssueOps, ResendOps
<1>3. AfterMail(r, TRUE)
  BY DEF Mail
<1>4. AfterMailDoes(r, TRUE)
  BY <1>2, <1>3, Ending, Moving DEF AfterMail, AfterMailDoes, PCs
<1>5. QED
  BY <1>1, <1>2, <1>4 DEF TypeInv, TypeOK

\* The mail could not be sent.
LEMMA MailFailsDoes ==
    ASSUME TypeInv, NEW r \in Requests, MailFails(r)
    PROVE  /\ req[r].pc = "mail" /\ req[r].tok \in Temps /\ AfterMailDoes(r, FALSE)
           /\ unmailed' = unmailed \cup {req[r].tok}
           /\ UNCHANGED <<data, drawn, mailed, used, disturbed>>
<1>1. req[r].pc = "mail" /\ unmailed' = unmailed \cup {req[r].tok}
      /\ UNCHANGED <<data, drawn, mailed, used, disturbed>>
  BY DEF MailFails, At
<1>2. req[r].tok \in Temps /\ req[r].op \in IssueOps \cup ResendOps
  BY <1>1 DEF TypeInv, TypeOK, Known, IssueOps, ResendOps
<1>3. AfterMail(r, FALSE)
  BY DEF MailFails
<1>4. AfterMailDoes(r, FALSE)
  BY <1>2, <1>3, Ending, Moving DEF AfterMail, AfterMailDoes, PCs
<1>5. QED
  BY <1>1, <1>2, <1>4

\* The unsent token is taken back.
LEMMA RetractDoes ==
    ASSUME TypeInv, NEW r \in Requests, Retract(r)
    PROVE  /\ req[r].pc = "retract" /\ Ended(r) /\ Drops({req[r].tok})
           /\ UNCHANGED <<account, lastId, drawn, post, used, disturbed>>
BY Ending, DroppedRows DEF Retract, At

\* A row that is there takes the resent code.
LEMMA StoreCodeDoes ==
    ASSUME TypeInv, NEW r \in Requests, StoreCode(r)
    PROVE  /\ req[r].pc = "store" /\ Ended(r) /\ req[r].tok \in Temps
           /\ UNCHANGED <<account, lastId, drawn, post, used, disturbed>>
           /\ temp' \in [Temps -> Rows]
           /\ \A j \in Temps \ {req[r].tok} : temp'[j] = temp[j]
           /\ \/ ~Exists(req[r].tok) /\ temp' = temp
              \/ /\ Exists(req[r].tok)
                 /\ temp'[req[r].tok].uid = temp[req[r].tok].uid
                 /\ temp'[req[r].tok].type = temp[req[r].tok].type
                 /\ temp'[req[r].tok].code = req[r].code
<1> DEFINE k == req[r].tok
           y == temp[k].young \/ req[r].op = "resend"
           row == [temp[k] EXCEPT !.code = req[r].code, !.young = y]
<1>1. /\ req[r].pc = "store" /\ Ended(r)
      /\ UNCHANGED <<account, lastId, drawn, post, used, disturbed>>
  BY Ending DEF StoreCode, At
<1>2. k \in Temps /\ req[r].code \in 0..MaxCodes /\ temp \in [Temps -> Rows] /\ temp[k] \in Rows
  BY <1>1 DEF TypeInv, TypeOK, Known, Handlers
<1>3. CASE ~Exists(k)
  BY <1>1, <1>2, <1>3 DEF StoreCode
<1>4. CASE Exists(k)
  <2>1. temp' = [temp EXCEPT ![k] = row]
    BY <1>2, <1>4 DEF StoreCode
  <2>2. y \in BOOLEAN
    BY <1>2 DEF Rows
  <2> HIDE DEF y
  <2>3. row \in Rows /\ row.uid = temp[k].uid /\ row.type = temp[k].type /\ row.code = req[r].code
    BY <1>2, <2>2 DEF Rows
  <2> HIDE DEF row
  <2>4. temp' \in [Temps -> Rows] /\ temp'[k] = row /\ \A j \in Temps \ {k} : temp'[j] = temp[j]
    BY <1>2, <2>1, <2>3
  <2>5. QED
    BY <1>1, <1>2, <1>4, <2>3, <2>4
<1>5. QED
  BY <1>3, <1>4

\* The account is there, and its profile is there or not.
LEMMA LoadUserDoes ==
    ASSUME TypeInv, NEW r \in Requests, LoadUser(r)
    PROVE  /\ req[r].pc = "load" /\ UNCHANGED <<data, drawn, post, used, disturbed>>
           /\ \/ Ended(r)
              \/ /\ Present(req[r].uid)
                 /\ req' \in [Requests -> Handlers] /\ Alone(r)
                 /\ req'[r].op = req[r].op /\ req'[r].pc = "activate" /\ req'[r].tok = req[r].tok
                 /\ req'[r].uid = req[r].uid /\ req'[r].code = req[r].code
                 /\ req'[r].profile = account.profile
<1>1. req[r].pc = "load" /\ UNCHANGED <<data, drawn, post, used, disturbed>>
  BY DEF LoadUser, At
<1>2. CASE ~Present(req[r].uid)
  BY <1>1, <1>2, Ending DEF LoadUser
<1>3. CASE Present(req[r].uid)
  <2> DEFINE rec == [req[r] EXCEPT !.pc = "activate", !.profile = account.profile]
  <2>1. Become(r, rec) /\ req[r] \in Handlers /\ account.profile \in BOOLEAN
    BY <1>3 DEF LoadUser, TypeInv, TypeOK, Accounts
  <2>2. /\ rec \in Handlers /\ rec.op = req[r].op /\ rec.pc = "activate" /\ rec.tok = req[r].tok
        /\ rec.uid = req[r].uid /\ rec.code = req[r].code /\ rec.profile = account.profile
    BY <2>1 DEF Handlers, PCs
  <2> HIDE DEF rec
  <2>3. req' \in [Requests -> Handlers] /\ Alone(r) /\ req'[r] = rec
    BY <2>1, <2>2, BecomeOne
  <2>4. QED
    BY <1>1, <1>3, <2>2, <2>3
<1>4. QED
  BY <1>2, <1>3

\* The account becomes active, with its profile, and the token goes.
LEMMA ActivateDoes ==
    ASSUME TypeInv, NEW r \in Requests, Activate(r)
    PROVE  /\ req[r].pc = "activate" /\ Ended(r) /\ UNCHANGED <<lastId, drawn, post, disturbed>>
           /\ \/ UNCHANGED <<account, temp, used>>
              \/ /\ Present(req[r].uid) /\ (req[r].profile \/ ~account.profile)
                 /\ account' \in Accounts /\ account'.id = account.id /\ account'.pw = account.pw
                 /\ account'.verified = TRUE
                 /\ account'.profile = (account.profile \/ ~req[r].profile)
                 /\ Drops({req[r].tok}) /\ used' = used \cup {req[r].tok}
<1> DEFINE b   == account.profile \/ ~req[r].profile
           acc == [account EXCEPT !.verified = TRUE, !.profile = b]
<1>1. req[r].pc = "activate" /\ Ended(r) /\ UNCHANGED <<lastId, drawn, post, disturbed>>
  BY Ending DEF Activate, At
<1>2. account \in Accounts /\ b \in BOOLEAN
  BY DEF TypeInv, TypeOK
<1> HIDE DEF b
<1>3. /\ acc \in Accounts /\ acc.id = account.id /\ acc.pw = account.pw
      /\ acc.verified = TRUE /\ acc.profile = b
  BY <1>2 DEF Accounts
<1>4. \/ UNCHANGED <<account, temp, used>>
      \/ /\ Present(req[r].uid) /\ (req[r].profile \/ ~account.profile) /\ account' = acc
         /\ temp' = Dropped({req[r].tok}) /\ used' = used \cup {req[r].tok}
  BY DEF Activate, b
<1> HIDE DEF acc
<1>5. CASE temp' = Dropped({req[r].tok})
  BY <1>1, <1>3, <1>4, <1>5, DroppedRows DEF b
<1>6. QED
  BY <1>1, <1>4, <1>5

\* The account takes the new password, and the token goes.
LEMMA SetPasswordDoes ==
    ASSUME TypeInv, NEW r \in Requests, SetPassword(r)
    PROVE  /\ req[r].pc = "set_password" /\ Ended(r) /\ UNCHANGED <<lastId, drawn, post, disturbed>>
           /\ req[r].tok \in Temps
           /\ \/ UNCHANGED <<account, temp, used>>
              \/ /\ Present(req[r].uid)
                 /\ account' \in Accounts /\ account'.id = account.id /\ account'.pw = req[r].tok
                 /\ account'.verified = account.verified /\ account'.profile = account.profile
                 /\ Drops({req[r].tok}) /\ used' = used \cup {req[r].tok}
<1>1. req[r].pc = "set_password" /\ Ended(r) /\ UNCHANGED <<lastId, drawn, post, disturbed>>
  BY Ending DEF SetPassword, At
<1>2. req[r].tok \in Temps
  BY <1>1 DEF TypeInv, Known
<1>3. CASE ~Present(req[r].uid)
  BY <1>1, <1>2, <1>3 DEF SetPassword
<1>4. CASE Present(req[r].uid)
  <2>1. /\ account' = [account EXCEPT !.pw = req[r].tok]
        /\ temp' = Dropped({req[r].tok}) /\ used' = used \cup {req[r].tok}
    BY <1>4 DEF SetPassword
  <2>2. Drops({req[r].tok})
    BY <2>1, DroppedRows
  <2>3. QED
    BY <1>1, <1>2, <1>4, <2>1, <2>2, NewPassword
<1>5. QED
  BY <1>3, <1>4

\* The account goes, and all that refers to it.
LEMMA EraseDoes ==
    ASSUME TypeInv, NEW r \in Requests, Erase(r)
    PROVE  /\ req[r].pc = "erase" /\ Ended(r) /\ UNCHANGED <<lastId, drawn, post, disturbed>>
           /\ used' = used \cup {req[r].tok} /\ req[r].tok \in Temps
           /\ \/ ~Present(req[r].uid) /\ UNCHANGED <<account, temp>>
              \/ /\ Present(req[r].uid) /\ account' = NoAccount
                 /\ Drops({k \in Temps : temp[k].uid = req[r].uid})
<1>1. req[r].pc = "erase" /\ Ended(r) /\ UNCHANGED <<lastId, drawn, post, disturbed>>
  BY Ending DEF Erase, At
<1>2. req[r].tok \in Temps
  BY <1>1 DEF TypeInv, Known
<1>3. CASE ~Present(req[r].uid)
  BY <1>1, <1>2, <1>3 DEF Erase
<1>4. CASE Present(req[r].uid)
  <2>1. /\ account' = NoAccount /\ used' = used \cup {req[r].tok}
        /\ temp' = Dropped({k \in Temps : temp[k].uid = req[r].uid})
    BY <1>4 DEF Erase
  <2>2. Drops({k \in Temps : temp[k].uid = req[r].uid})
    BY <2>1, DroppedRows
  <2>3. QED
    BY <1>1, <1>2, <1>4, <2>1, <2>2
<1>5. QED
  BY <1>3, <1>4

\* Time, and the deletion of what is out of time: a row stays as it is but for its age,
\* or goes.
Fading ==
    /\ temp' \in [Temps -> Rows]
    /\ \A k \in Temps :
         \/ temp'[k] = NoRow
         \/ /\ temp'[k].uid = temp[k].uid /\ temp'[k].type = temp[k].type
            /\ temp'[k].code = temp[k].code
    /\ UNCHANGED <<account, lastId, drawn, post, req, disturbed, used>>

\* Time and the cleanup only let rows fade.
LEMMA TimeDoes ==
    ASSUME TypeInv, NEW k \in Temps,
           Minute(k) \/ Expire(k) \/ RefuseExpired(k) \/ CleanTemps
    PROVE  Fading
<1>1. UNCHANGED <<account, lastId, drawn, post, req, disturbed, used>>
  BY DEF Minute, Expire, RefuseExpired, CleanTemps
<1>2. CASE \E S : temp' = Dropped(S)
  <2>1. PICK S : temp' = Dropped(S)
    BY <1>2
  <2>2. Drops(S)
    BY <2>1, DroppedRows
  <2>3. QED
    BY <1>1, <2>2 DEF Drops, Fading
<1>3. temp \in [Temps -> Rows] /\ temp[k] \in Rows
  BY DEF TypeInv, TypeOK
<1>4. ASSUME NEW row \in Rows, row.uid = temp[k].uid, row.type = temp[k].type,
             row.code = temp[k].code, temp' = [temp EXCEPT ![k] = row]
      PROVE  Fading
  <2>1. temp' \in [Temps -> Rows] /\ temp'[k] = row /\ \A j \in Temps \ {k} : temp'[j] = temp[j]
    BY <1>3, <1>4
  <2>2. QED
    BY <1>1, <1>4, <2>1 DEF Fading
<1>5. CASE Minute(k)
  <2> DEFINE row == [temp[k] EXCEPT !.young = FALSE]
  <2>1. temp' = [temp EXCEPT ![k] = row]
    BY <1>3, <1>5 DEF Minute
  <2>2. row \in Rows /\ row.uid = temp[k].uid /\ row.type = temp[k].type /\ row.code = temp[k].code
    BY <1>3 DEF Rows
  <2> HIDE DEF row
  <2>3. QED
    BY <1>4, <2>1, <2>2
<1>6. CASE Expire(k)
  <2> DEFINE row == [temp[k] EXCEPT !.expired = TRUE]
  <2>1. temp' = [temp EXCEPT ![k] = row]
    BY <1>3, <1>6 DEF Expire
  <2>2. row \in Rows /\ row.uid = temp[k].uid /\ row.type = temp[k].type /\ row.code = temp[k].code
    BY <1>3 DEF Rows
  <2> HIDE DEF row
  <2>3. QED
    BY <1>4, <2>1, <2>2
<1>7. QED
  BY <1>2, <1>5, <1>6 DEF RefuseExpired, CleanTemps

\* A worker dies.
LEMMA CrashDoes ==
    ASSUME TypeInv, NEW r \in Requests, Crash(r)
    PROVE  /\ Ended(r) /\ disturbed' = TRUE /\ UNCHANGED <<data, drawn, mailed, held, used>>
           /\ unmailed \subseteq unmailed'
           /\ \/ unmailed' = unmailed /\ req[r].pc # "mail"
              \/ req[r].pc = "mail" /\ req[r].tok \in Temps /\ unmailed' = unmailed \cup {req[r].tok}
<1>1. Ended(r) /\ disturbed' = TRUE /\ UNCHANGED <<data, drawn, mailed, held, used>>
  BY Ending DEF Crash
<1>2. req[r].pc = "mail" => req[r].tok \in Temps
  BY DEF TypeInv, Known
<1>3. QED
  BY <1>1, <1>2 DEF Crash, At

-----------------------------------------------------------------------------
(* Types *)

\* The handlers are known when the one that moved is.
LEMMA KnownKept ==
    ASSUME TypeInv, NEW r \in Requests, Alone(r), Known(req[r])'
    PROVE  \A s \in Requests : Known(req[s])'
BY DEF Alone, TypeInv, Known

\* At the start everything has its type.
LEMMA TypeInit == Init => TypeInv
<1> SUFFICES ASSUME Init PROVE TypeInv
  OBVIOUS
<1>1. NoAccount \in Accounts /\ NoRow \in Rows /\ 0 \in 0..MaxIds /\ 0 \in 0..MaxCodes
  BY RegistrationAssumption DEF NoAccount, Accounts, NoRow, Rows
<1>2. QED
  BY <1>1, IdleType DEF Init, TypeInv, TypeOK

\* A handler that arrives is known.
LEMMA ArriveType ==
    ASSUME TypeInv, NEW r \in Requests, NEW k \in Temps, Arrive(r, k)
    PROVE  TypeInv'
<1> USE DEF data, drawn, post, Begins
<1>1. CASE StartSignup(r, k)
  <2>1. Known(req[r])'
    BY <1>1, StartSignupDoes DEF Known
  <2>2. QED
    BY <1>1, <2>1, StartSignupDoes, KnownKept DEF TypeInv, TypeOK, IssueOps
<1>2. ASSUME NEW op, StartIssue(r, op, k) PROVE TypeInv'
  <2> HIDE DEF data, drawn, post, Begins
  <2>1. /\ Begins(r, op, "insert", k) /\ req'[r].uid = account.id /\ op \in {"reset", "delete"}
        /\ kind[k] = "none" /\ kind' = [kind EXCEPT ![k] = op] /\ account.id # 0
        /\ UNCHANGED <<data, codes, post, used>>
    BY <1>2, StartIssueDoes
  <2> USE DEF data, drawn, post, Begins
  <2>2. Known(req[r])' /\ op \in IssueOps
    BY <2>1 DEF Known, IssueOps
  <2>3. QED
    BY <2>1, <2>2, KnownKept DEF TypeInv, TypeOK
<1>3. ASSUME NEW op, StartResend(r, op, k) PROVE TypeInv'
  <2>1. /\ Begins(r, op, "mail", k) /\ op \in ResendOps
        /\ codes' \in [Temps -> 0..MaxCodes] /\ UNCHANGED <<data, kind, post, used>>
    BY <1>3, StartResendDoes
  <2>2. Known(req[r])'
    BY <2>1 DEF Known
  <2>3. QED
    BY <2>1, <2>2, KnownKept DEF TypeInv, TypeOK
<1>4. ASSUME NEW op, NEW pc, NEW type, Proven(r, op, pc, k, type),
             <<op, pc>> \in {<<"verify", "load">>, <<"confirm", "set_password">>,
                             <<"delete_verify", "erase">>}
      PROVE  TypeInv'
  <2>1. Known(req[r])'
    BY <1>4 DEF Known, Proven
  <2>2. QED
    BY <1>4, <2>1, KnownKept DEF TypeInv, TypeOK, Proven
<1>5. QED
  BY <1>1, <1>2, <1>3, <1>4, StartProvenDoes DEF Arrive

\* Every step of a handler keeps the types.
LEMMA HandlerType ==
    ASSUME TypeInv, NEW r \in Requests, HandlerStep(r)
    PROVE  TypeInv'
<1> USE DEF data, drawn, post
<1>1. Ended(r) => Known(req[r])'
  BY IdleType DEF Ended
<1>2. Known(req[r])
  BY DEF TypeInv
<1>3. CASE CreateAccount(r)
  <2>1. Known(req[r])'
    BY <1>1, <1>2, <1>3, CreateAccountDoes DEF Known, ResendOps
  <2>2. QED
    BY <1>3, <2>1, CreateAccountDoes, KnownKept DEF TypeInv, TypeOK, Ended
<1>4. CASE ReRegister(r)
  <2>1. Known(req[r])'
    BY <1>1, <1>2, <1>4, ReRegisterDoes DEF Known, Moved, ResendOps
  <2>2. temp' \in [Temps -> Rows] /\ account' \in Accounts
    BY <1>4, ReRegisterDoes DEF Drops, TypeInv, TypeOK
  <2>3. QED
    BY <1>4, <2>1, <2>2, ReRegisterDoes, KnownKept DEF TypeInv, TypeOK, Ended, Moved
<1>5. CASE InsertToken(r)
  <2>1. Known(req[r])'
    BY <1>1, <1>2, <1>5, InsertTokenDoes DEF Known, ResendOps
  <2>2. QED
    BY <1>5, <2>1, InsertTokenDoes, KnownKept DEF TypeInv, TypeOK, Ended
<1>6. CASE Mail(r)
  <2>1. Known(req[r])'
    BY <1>1, <1>2, <1>6, MailDoes DEF Known, AfterMailDoes, Moved, ResendOps
  <2>2. QED
    BY <1>6, <2>1, MailDoes, KnownKept DEF TypeInv, TypeOK, Ended, Moved, AfterMailDoes
<1>7. CASE MailFails(r)
  <2>1. Known(req[r])'
    BY <1>1, <1>2, <1>7, MailFailsDoes DEF Known, AfterMailDoes, Moved, ResendOps
  <2>2. QED
    BY <1>7, <2>1, MailFailsDoes, KnownKept DEF TypeInv, TypeOK, Ended, Moved, AfterMailDoes
<1>8. CASE Retract(r)
  <2>1. temp' \in [Temps -> Rows]
    BY <1>8, RetractDoes DEF Drops
  <2>2. QED
    BY <1>1, <1>8, <2>1, RetractDoes, KnownKept DEF TypeInv, TypeOK, Ended
<1>9. CASE StoreCode(r)
  BY <1>1, <1>9, StoreCodeDoes, KnownKept DEF TypeInv, TypeOK, Ended
<1>10. CASE LoadUser(r)
  <2>1. Known(req[r])'
    BY <1>1, <1>2, <1>10, LoadUserDoes DEF Known, ResendOps
  <2>2. QED
    BY <1>10, <2>1, LoadUserDoes, KnownKept DEF TypeInv, TypeOK, Ended
<1>11. CASE Activate(r)
  <2>1. req[r].tok \in Temps
    BY <1>2, <1>11, ActivateDoes DEF Known
  <2>2. temp' \in [Temps -> Rows] /\ account' \in Accounts
    BY <1>11, ActivateDoes DEF Drops, TypeInv, TypeOK
  <2>3. QED
    BY <1>1, <1>11, <2>1, <2>2, ActivateDoes, KnownKept DEF TypeInv, TypeOK, Ended
<1>12. CASE SetPassword(r)
  <2>1. temp' \in [Temps -> Rows] /\ account' \in Accounts
    BY <1>12, SetPasswordDoes DEF Drops, TypeInv, TypeOK
  <2>2. QED
    BY <1>1, <1>12, <2>1, SetPasswordDoes, KnownKept DEF TypeInv, TypeOK, Ended
<1>13. CASE Erase(r)
  <2>1. NoAccount \in Accounts
    BY RegistrationAssumption DEF NoAccount, Accounts
  <2>2. temp' \in [Temps -> Rows] /\ account' \in Accounts
    BY <1>13, <2>1, EraseDoes DEF Drops, TypeInv, TypeOK
  <2>3. QED
    BY <1>1, <1>13, <2>2, EraseDoes, KnownKept DEF TypeInv, TypeOK, Ended
<1>14. CASE DropOldTokens(r)
  <2>1. Known(req[r])'
    BY <1>2, <1>14, DropOldTokensDoes DEF Known, Moved, ResendOps
  <2>2. QED
    BY <1>14, <2>1, DropOldTokensDoes, KnownKept DEF TypeInv, TypeOK, Moved
<1>15. QED
  BY <1>3, <1>4, <1>5, <1>6, <1>7, <1>8, <1>9, <1>10, <1>11, <1>12, <1>13, <1>14 DEF HandlerStep

\* A next step is one of a handler, an arrival, a crash or time passing.
LEMMA Steps ==
    ASSUME TypeInv, [Next]_vars
    PROVE  \/ \E r \in Requests : HandlerStep(r) \/ Crash(r)
           \/ \E r \in Requests, k \in Temps : Arrive(r, k)
           \/ Fading
<1>1. CASE UNCHANGED vars
  BY <1>1 DEF vars, Fading, data, drawn, post, TypeInv, TypeOK
<1>2. CASE CleanTemps
  <2>1. PICK k \in Temps : TRUE
    BY <1>2 DEF CleanTemps, Expired
  <2>2. QED
    BY <1>2, <2>1, TimeDoes DEF Fading
<1>3. ASSUME NEW k \in Temps, Minute(k) \/ Expire(k) \/ RefuseExpired(k)
      PROVE  Fading
  BY <1>3, TimeDoes
<1>4. QED
  BY <1>1, <1>2, <1>3 DEF Next, Fading

\* Every step keeps everything in its type.
LEMMA TypeStep == TypeInv /\ [Next]_vars => TypeInv'
<1> SUFFICES ASSUME TypeInv, [Next]_vars PROVE TypeInv'
  OBVIOUS
<1>1. CASE Fading
  BY <1>1 DEF Fading, TypeInv, TypeOK, Known, drawn, post
<1>2. ASSUME NEW r \in Requests, Crash(r) PROVE TypeInv'
  <2>1. Known(req[r])'
    BY <1>2, CrashDoes, IdleType DEF Ended
  <2>2. QED
    BY <1>2, <2>1, CrashDoes, KnownKept DEF TypeInv, TypeOK, Ended, data, drawn
<1>3. QED
  BY <1>1, <1>2, Steps, HandlerType, ArriveType

\* Every variable of Registration always has its type, and a handler that has a step to
\* make has a token.
THEOREM TypeCorrect == Spec => []TypeOK
<1>1. TypeInv => TypeOK
  BY DEF TypeInv
<1>2. QED
  BY <1>1, TypeInit, TypeStep, PTL DEF Spec

-----------------------------------------------------------------------------
(* Tokens *)

Issuing(q) == q.op \in IssueOps
Acting(q)  == q.op \in {"verify", "confirm", "delete_verify"}

\* The endpoint that drew the token which op acts upon.
DrawnBy(op) == CASE op = "verify" -> "signup"
                 [] op = "confirm" -> "reset"
                 [] op = "delete_verify" -> "delete"

\* The token of q: an issuing handler has one that no client knows, and no row before it
\* is inserted; the others have one from a client, of the kind they act upon, whose row,
\* while it lasts, is that of the account q is about.
TokenOf(q) ==
    /\ Issuing(q) => /\ kind[q.tok] = q.op /\ q.tok \notin held
                     /\ q.pc \in {"register", "reregister", "insert"} => ~Exists(q.tok)
    /\ q.op \in ResendOps => q.tok \in held
    /\ Acting(q) => /\ q.tok \in held /\ kind[q.tok] = DrawnBy(q.op) /\ q.uid # 0
                    /\ Exists(q.tok) => temp[q.tok].uid = q.uid

\* The row of k is of the account there is and of the type its kind says, and is there no
\* longer when k has been used.
RowOf(k) ==
    /\ Exists(k) => /\ temp[k].uid = account.id /\ kind[k] \in IssueOps
                    /\ temp[k].type = TypeOfOp(kind[k]) /\ k \notin used
    /\ ~Exists(k) => temp[k].type = "none"

Distinct == \A r, s \in Requests :
                r # s /\ Issuing(req[r]) /\ Issuing(req[s]) => req[r].tok # req[s].tok

TokenInv ==
    /\ \A r \in Requests : TokenOf(req[r])
    /\ \A k \in Temps : RowOf(k)
    /\ Distinct /\ used \subseteq held /\ \A k \in held : kind[k] # "none"

\* What the other handlers see of a step of r: a kind once drawn stays; only r tells its
\* own token, and only r makes a row of it; the rows of the others stay or go.
Seen(r) ==
    /\ Alone(r)
    /\ \A k \in Temps : kind[k] # "none" => kind'[k] = kind[k]
    /\ held' = held \/ (Issuing(req[r]) /\ held' = held \cup {req[r].tok})
    /\ \A k \in Temps : \/ Issuing(req[r]) /\ k = req[r].tok
                        \/ ~Exists(k)'
                        \/ Exists(k) /\ temp'[k].uid = temp[k].uid

\* r goes on with its token, or leaves off, or begins with a fresh or a known one.
Keeps(r) ==
    \/ req'[r].op = req[r].op /\ req'[r].tok = req[r].tok
    \/ req'[r].op \notin IssueOps
    \/ kind[req'[r].tok] = "none"

\* The operations and the tokens of the handlers.
LEMMA Sorts ==
    ASSUME TypeInv, NEW s \in Requests
    PROVE  /\ Issuing(req[s]) \/ req[s].op \in ResendOps \/ Acting(req[s]) => req[s].tok \in Temps
           /\ req[s].pc # "idle" => Issuing(req[s]) \/ req[s].op \in ResendOps \/ Acting(req[s])
           /\ ~(Issuing(req[s]) /\ (req[s].op \in ResendOps \/ Acting(req[s])))
           /\ ~(req[s].op \in ResendOps /\ Acting(req[s]))
<1>1. Known(req[s])
  BY DEF TypeInv
<1>2. QED
  BY <1>1 DEF Known, Issuing, Acting, IssueOps, ResendOps

\* The others keep their tokens.
LEMMA OthersKeep ==
    ASSUME TypeInv, TokenInv, NEW r \in Requests, Seen(r), NEW s \in Requests \ {r}
    PROVE  TokenOf(req[s])'
<1>1. TokenOf(req[s]) /\ req'[s] = req[s]
  BY DEF TokenInv, Seen, Alone
<1>2. CASE Issuing(req[s])
  <2>1. req[s].tok \in Temps /\ ~Acting(req[s]) /\ req[s].op \notin ResendOps
    BY <1>2, Sorts
  <2>2. Issuing(req[r]) => req[r].tok # req[s].tok
    BY <1>2 DEF TokenInv, Distinct
  <2>3. kind[req[s].tok] = req[s].op /\ req[s].op # "none" /\ req[s].tok \notin held
    BY <1>1, <1>2 DEF TokenOf, Issuing, IssueOps
  <2>4. kind'[req[s].tok] = req[s].op /\ req[s].tok \notin held'
    BY <2>1, <2>2, <2>3 DEF Seen
  <2>5. req[s].pc \in {"register", "reregister", "insert"} => ~Exists(req[s].tok)'
    BY <1>1, <1>2, <2>1, <2>2 DEF Seen, TokenOf
  <2>6. QED
    BY <1>1, <1>2, <2>1, <2>4, <2>5 DEF TokenOf, Issuing, Acting, Exists
<1>3. CASE req[s].op \in ResendOps
  BY <1>1, <1>3, Sorts DEF Seen, TokenOf, Issuing, Acting
<1>4. CASE Acting(req[s])
  <2> DEFINE k == req[s].tok
  <2>1. k \in Temps /\ ~Issuing(req[s]) /\ req[s].op \notin ResendOps
    BY <1>4, Sorts
  <2>2. k \in held /\ kind[k] = DrawnBy(req[s].op) /\ req[s].uid # 0
        /\ (Exists(k) => temp[k].uid = req[s].uid)
    BY <1>1, <1>4 DEF TokenOf
  <2>3. k \in held' /\ kind[k] # "none"
    BY <2>2 DEF Seen, TokenInv
  <2>4. ~(Issuing(req[r]) /\ k = req[r].tok)
    BY <2>2 DEF TokenInv, TokenOf
  <2>5. temp'[k].uid # 0 => temp'[k].uid = req[s].uid
    BY <2>1, <2>2, <2>4 DEF Seen, Exists
  <2>6. kind'[k] = DrawnBy(req[s].op)
    BY <2>1, <2>2, <2>3 DEF Seen
  <2>7. QED
    BY <1>1, <1>4, <2>1, <2>2, <2>3, <2>5, <2>6 DEF TokenOf, Issuing, Acting, Exists
<1>5. QED
  BY <1>1, <1>2, <1>3, <1>4 DEF TokenOf, Issuing, Acting

\* Issuing handlers keep different tokens.
LEMMA DistinctKept ==
    ASSUME TypeInv, TokenInv, NEW r \in Requests, Seen(r), Keeps(r)
    PROVE  Distinct'
<1> SUFFICES ASSUME NEW a \in Requests, NEW b \in Requests, a # b, Issuing(req'[a]), Issuing(req'[b]),
                    req'[a].tok = req'[b].tok
             PROVE  FALSE
  BY DEF Distinct, Issuing
<1>1. ASSUME NEW s \in Requests \ {r}, Issuing(req[s]), Issuing(req'[r])
      PROVE  req'[r].tok # req[s].tok
  <2>1. CASE kind[req'[r].tok] = "none"
    BY <1>1, <2>1 DEF TokenInv, TokenOf, Issuing, IssueOps
  <2>2. CASE req'[r].op = req[r].op /\ req'[r].tok = req[r].tok
    BY <1>1, <2>2 DEF TokenInv, Distinct, Issuing
  <2>3. QED
    BY <1>1, <2>1, <2>2 DEF Keeps, Issuing
<1>2. \A s \in Requests \ {r} : req'[s] = req[s]
  BY DEF Seen, Alone
<1>3. QED
  BY <1>1, <1>2 DEF TokenInv, Distinct, Issuing

\* What is left to show of a step of r.
LEMMA TokenClose ==
    ASSUME TypeInv, TokenInv, NEW r \in Requests, Seen(r), Keeps(r), TokenOf(req[r])',
           \A k \in Temps : RowOf(k)', used' \subseteq held', \A k \in held' : kind'[k] # "none"
    PROVE  TokenInv'
<1>1. \A s \in Requests : TokenOf(req[s])'
  BY OthersKeep
<1>2. QED
  BY <1>1, DistinctKept DEF TokenInv

\* A row that stays or goes is still right when its account is the same and it was not used.
LEMMA RowKeeps ==
    ASSUME TypeInv, TokenInv, NEW k \in Temps, account'.id = account.id,
           kind[k] # "none" => kind'[k] = kind[k],
           \/ temp'[k] = NoRow
           \/ /\ temp'[k].uid = temp[k].uid /\ temp'[k].type = temp[k].type
              /\ k \in used' => k \in used
    PROVE  RowOf(k)'
BY DEF TokenInv, RowOf, Exists, NoRow, IssueOps

\* An arriving handler has a token of its own or one that a client knows.
LEMMA ArriveToken ==
    ASSUME TypeInv, TokenInv, NEW r \in Requests, NEW k \in Temps, Arrive(r, k)
    PROVE  TokenInv'
<1> USE DEF data, drawn, post
<1>1. ASSUME UNCHANGED <<account, temp, used, held>>, Alone(r),
             \A j \in Temps : kind[j] # "none" => kind'[j] = kind[j],
             Keeps(r), TokenOf(req[r])'
      PROVE  TokenInv'
  <2>1. Seen(r)
    BY <1>1 DEF Seen, Exists
  <2>2. \A j \in Temps : RowOf(j)'
    BY <1>1, RowKeeps
  <2>3. held \subseteq Temps /\ \A j \in held : kind'[j] # "none"
    BY <1>1 DEF TypeInv, TypeOK, TokenInv
  <2>4. used' \subseteq held' /\ \A j \in held' : kind'[j] # "none"
    BY <1>1, <2>3 DEF TokenInv
  <2>5. QED
    BY <1>1, <2>1, <2>2, <2>4, TokenClose
<1>2. ASSUME NEW op \in IssueOps, NEW pc, Begins(r, op, pc, k), kind[k] = "none",
             kind' = [kind EXCEPT ![k] = op], UNCHANGED <<account, temp, used, held>>
      PROVE  TokenInv'
  <2>1. kind'[k] = op /\ \A j \in Temps : kind[j] # "none" => kind'[j] = kind[j]
    BY <1>2 DEF TypeInv, TypeOK
  <2>2. k \notin held /\ ~Exists(k)
    BY <1>2 DEF TokenInv, RowOf, IssueOps
  <2>3. Keeps(r) /\ Alone(r)
    BY <1>2 DEF Begins, Keeps
  <2>4. TokenOf(req[r])'
    BY <1>2, <2>1, <2>2 DEF TokenOf, Begins, Issuing, Acting, IssueOps, ResendOps, Exists
  <2>5. QED
    BY <1>1, <1>2, <2>1, <2>3, <2>4
<1>3. CASE StartSignup(r, k)
  BY <1>2, <1>3, StartSignupDoes DEF IssueOps
<1>4. ASSUME NEW op, StartIssue(r, op, k) PROVE TokenInv'
  <2> HIDE DEF data, drawn, post
  <2>1. /\ Begins(r, op, "insert", k) /\ req'[r].uid = account.id /\ op \in {"reset", "delete"}
        /\ kind[k] = "none" /\ kind' = [kind EXCEPT ![k] = op] /\ account.id # 0
        /\ UNCHANGED <<data, codes, post, used>>
    BY <1>4, StartIssueDoes
  <2>2. QED
    BY <1>2, <2>1 DEF IssueOps, data, post
<1>5. ASSUME NEW op, StartResend(r, op, k) PROVE TokenInv'
  <2>1. /\ Begins(r, op, "mail", k) /\ op \in ResendOps /\ k \in held
        /\ UNCHANGED <<account, temp, used, held, kind>>
    BY <1>5, StartResendDoes
  <2>2. TokenOf(req[r])' /\ Keeps(r) /\ Alone(r)
    BY <2>1 DEF TokenOf, Keeps, Begins, Issuing, Acting, IssueOps, ResendOps
  <2>3. QED
    BY <1>1, <2>1, <2>2
<1>6. ASSUME NEW op \in {"verify", "confirm", "delete_verify"}, NEW pc, NEW type,
             Proven(r, op, pc, k, type), type = TypeOfOp(DrawnBy(op))
      PROVE  TokenInv'
  <2>1. /\ Begins(r, op, pc, k) /\ req'[r].uid = temp[k].uid /\ k \in held /\ temp[k].type = type
        /\ UNCHANGED <<account, temp, used, held, kind>>
    BY <1>6 DEF Proven
  <2>2. Exists(k) /\ kind[k] = DrawnBy(op)
    BY <1>6, <2>1 DEF TokenInv, RowOf, TypeOfOp, DrawnBy, IssueOps
  <2>3. TokenOf(req[r])' /\ Keeps(r) /\ Alone(r)
    BY <1>6, <2>1, <2>2 DEF TokenOf, Keeps, Begins, Issuing, Acting, IssueOps, ResendOps, Exists
  <2>4. QED
    BY <1>1, <2>1, <2>3
<1>7. QED
  BY <1>3, <1>4, <1>5, <1>6, StartProvenDoes DEF Arrive, TypeOfOp, DrawnBy

\* Every step of a handler keeps the tokens.
LEMMA HandlerToken ==
    ASSUME TypeInv, TokenInv, NEW r \in Requests, HandlerStep(r)
    PROVE  TokenInv'
<1> USE DEF data, drawn, post
<1>1. TokenOf(req[r]) /\ Known(req[r]) /\ used \subseteq held /\ held \subseteq Temps
      /\ \A k \in held : kind[k] # "none"
  BY DEF TypeInv, TypeOK, TokenInv
<1>2. Ended(r) => Alone(r) /\ Keeps(r) /\ TokenOf(req[r])'
  BY IdleType DEF Ended, Keeps, TokenOf, Issuing, Acting, IssueOps, ResendOps
<1>3. ASSUME Alone(r), Keeps(r), TokenOf(req[r])', UNCHANGED <<account, temp, kind, held, used>>
      PROVE  TokenInv'
  <2>1. Seen(r) /\ used' \subseteq held' /\ \A k \in held' : kind'[k] # "none"
    BY <1>1, <1>3 DEF Seen, Exists
  <2>2. \A k \in Temps : RowOf(k)'
    BY <1>3, RowKeeps
  <2>3. QED
    BY <1>3, <2>1, <2>2, TokenClose
<1>4. ASSUME NEW S, Drops(S), account'.id = account.id, Alone(r), Keeps(r), TokenOf(req[r])',
             UNCHANGED <<kind, held>>,
             used' = used \/ (used' = used \cup {req[r].tok} /\ S = {req[r].tok} /\ req[r].tok \in held)
      PROVE  TokenInv'
  <2>1. Seen(r) /\ used' \subseteq held' /\ \A k \in held' : kind'[k] # "none"
    BY <1>1, <1>4 DEF Seen, Drops, Exists, NoRow
  <2>2. \A k \in Temps : RowOf(k)'
    <3> SUFFICES ASSUME NEW k \in Temps PROVE RowOf(k)'
      OBVIOUS
    <3>1. temp'[k] = NoRow \/ (temp'[k] = temp[k] /\ k \notin S)
      BY <1>4 DEF Drops
    <3>2. k \in used' => k \in used \/ k \in S
      BY <1>4
    <3>3. QED
      BY <1>4, <3>1, <3>2, RowKeeps
  <2>3. QED
    BY <1>4, <2>1, <2>2, TokenClose
<1>5. CASE CreateAccount(r)
  <2>1. CASE Ended(r) /\ UNCHANGED <<account, lastId>>
    BY <1>2, <1>3, <1>5, <2>1, CreateAccountDoes
  <2>2. CASE ~(Ended(r) /\ UNCHANGED <<account, lastId>>)
    <3>1. /\ req[r].pc = "register" /\ account.id = 0 /\ Alone(r) /\ req'[r].op = req[r].op
          /\ req'[r].pc = "insert" /\ req'[r].tok = req[r].tok
          /\ UNCHANGED <<temp, kind, held, used>>
      BY <1>5, <2>2, CreateAccountDoes
    <3>2. \A k \in Temps : ~Exists(k)
      BY <3>1 DEF TokenInv, RowOf, Exists
    <3>3. TokenOf(req[r])' /\ Keeps(r)
      BY <1>1, <3>1 DEF TokenOf, Keeps, Known, Issuing, Acting, IssueOps, ResendOps, Exists
    <3>4. Seen(r) /\ used' \subseteq held' /\ \A k \in held' : kind'[k] # "none"
      BY <1>1, <3>1 DEF Seen, Exists
    <3>5. \A k \in Temps : RowOf(k)'
      BY <3>1, <3>2 DEF RowOf, Exists, TokenInv
    <3>6. QED
      BY <3>3, <3>4, <3>5, TokenClose
  <2>3. QED
    BY <2>1, <2>2
<1>6. CASE ReRegister(r)
  <2>1. CASE Ended(r) /\ UNCHANGED <<account, temp>>
    BY <1>2, <1>3, <1>6, <2>1, ReRegisterDoes
  <2>2. CASE Moved(r, "insert") /\ account'.id = account.id /\ Drops(req[r].doomed)
    <3>1. Alone(r) /\ req[r].pc = "reregister" /\ UNCHANGED <<kind, held, used>>
      BY <1>6, <2>2, ReRegisterDoes DEF Moved
    <3>2. req[r].tok \in Temps /\ (Exists(req[r].tok) <=> temp[req[r].tok].uid # 0)
      BY <1>1, <3>1 DEF Known, Exists
    <3>3. TokenOf(req[r])' /\ Keeps(r)
      BY <1>1, <2>2, <3>1, <3>2
         DEF TokenOf, Keeps, Known, Moved, Drops, NoRow, Issuing, Acting, IssueOps, ResendOps, Exists
    <3>4. QED
      BY <1>4, <2>2, <3>1, <3>3
  <2>3. QED
    BY <1>6, <2>1, <2>2, ReRegisterDoes
<1>7. CASE InsertToken(r)
  <2>1. CASE Ended(r) /\ UNCHANGED <<temp, codes>>
    BY <1>2, <1>3, <1>7, <2>1, InsertTokenDoes
  <2>2. CASE ~(Ended(r) /\ UNCHANGED <<temp, codes>>)
    <3> DEFINE k == req[r].tok
    <3>1. /\ req[r].pc = "insert" /\ Present(req[r].uid) /\ Alone(r)
          /\ req'[r].op = req[r].op /\ req'[r].pc = "mail" /\ req'[r].tok = req[r].tok
          /\ temp'[k].uid = req[r].uid /\ temp'[k].type = TypeOfOp(req[r].op)
          /\ \A j \in Temps \ {k} : temp'[j] = temp[j]
          /\ UNCHANGED <<account, kind, held, used>>
      BY <1>7, <2>2, InsertTokenDoes
    <3>2. Issuing(req[r]) /\ k \in Temps /\ kind[k] = req[r].op /\ k \notin held
      BY <1>1, <3>1 DEF Known, TokenOf, Issuing, IssueOps, ResendOps
    <3>3. TokenOf(req[r])' /\ Keeps(r)
      BY <3>1, <3>2 DEF TokenOf, Keeps, Issuing, Acting, IssueOps, ResendOps
    <3>4. Seen(r) /\ used' \subseteq held' /\ \A j \in held' : kind'[j] # "none"
      BY <1>1, <3>1, <3>2 DEF Seen, Exists
    <3>5. ASSUME NEW j \in Temps PROVE RowOf(j)'
      <4>1. CASE j = k
        BY <1>1, <3>1, <3>2, <4>1 DEF RowOf, Present, Exists, Issuing
      <4>2. CASE j # k
        BY <3>1, <4>2, RowKeeps
      <4>3. QED
        BY <4>1, <4>2
    <3>6. QED
      BY <3>3, <3>4, <3>5, TokenClose
  <2>3. QED
    BY <2>1, <2>2
<1>8. CASE Mail(r) \/ MailFails(r)
  <2>1. /\ req[r].pc = "mail" /\ req[r].tok \in Temps
        /\ AfterMailDoes(r, TRUE) \/ AfterMailDoes(r, FALSE)
        /\ UNCHANGED <<account, temp, kind, used>>
    BY <1>8, MailDoes, MailFailsDoes
  <2>2. CASE Moved(r, "store") \/ Moved(r, "retract")
    <3>1. UNCHANGED held \/ Ended(r)
      BY <2>1 DEF AfterMailDoes
    <3>2. ~Ended(r)
      BY <2>2 DEF Ended, Moved, Idle
    <3>3. Alone(r) /\ Keeps(r) /\ TokenOf(req[r])'
      BY <1>1, <2>1, <2>2, <3>1, <3>2 DEF Moved, Keeps, TokenOf, Issuing, Acting, Exists
    <3>4. QED
      BY <1>3, <2>1, <3>1, <3>2, <3>3
  <2>3. CASE Issuing(req[r]) /\ Ended(r) /\ held' = held \cup {req[r].tok}
    <3>1. Seen(r) /\ used' \subseteq held'
      BY <1>1, <1>2, <2>1, <2>3 DEF Seen, Exists
    <3>2. \A k \in held' : kind'[k] # "none"
      BY <1>1, <2>1, <2>3 DEF TokenOf, Issuing, IssueOps
    <3>3. \A k \in Temps : RowOf(k)'
      BY <2>1, RowKeeps
    <3>4. QED
      BY <1>2, <2>3, <3>1, <3>2, <3>3, TokenClose
  <2>4. QED
    BY <2>1, <2>2, <2>3 DEF AfterMailDoes, Issuing
<1>9. CASE Retract(r)
  <2>1. Ended(r) /\ Drops({req[r].tok}) /\ UNCHANGED <<account, kind, held, used>>
    BY <1>9, RetractDoes
  <2>2. QED
    BY <1>2, <1>4, <2>1
<1>10. CASE StoreCode(r)
  <2>1. /\ Ended(r) /\ UNCHANGED <<account, kind, held, used>>
        /\ \A j \in Temps : temp'[j].uid = temp[j].uid /\ temp'[j].type = temp[j].type
    BY <1>10, StoreCodeDoes
  <2>2. Seen(r) /\ used' \subseteq held' /\ \A k \in held' : kind'[k] # "none"
    BY <1>1, <1>2, <2>1 DEF Seen, Exists
  <2>3. \A k \in Temps : RowOf(k)'
    BY <2>1, RowKeeps
  <2>4. QED
    BY <1>2, <2>1, <2>2, <2>3, TokenClose
<1>11. CASE LoadUser(r)
  <2>1. CASE Ended(r)
    BY <1>2, <1>3, <1>11, <2>1, LoadUserDoes
  <2>2. CASE ~Ended(r)
    <3>1. /\ req[r].pc = "load" /\ Alone(r) /\ req'[r].op = req[r].op /\ req'[r].pc = "activate"
          /\ req'[r].tok = req[r].tok /\ req'[r].uid = req[r].uid
          /\ UNCHANGED <<account, temp, kind, held, used>>
      BY <1>11, <2>2, LoadUserDoes
    <3>2. TokenOf(req[r])' /\ Keeps(r)
      BY <1>1, <3>1 DEF TokenOf, Keeps, Issuing, Acting, Exists
    <3>3. QED
      BY <1>3, <3>1, <3>2
  <2>3. QED
    BY <2>1, <2>2
<1>12. CASE Activate(r) \/ SetPassword(r)
  <2>1. req[r].tok \in held
    BY <1>1, <1>12, ActivateDoes, SetPasswordDoes DEF Known, TokenOf, Acting, ResendOps
  <2>2. Ended(r) /\ UNCHANGED <<kind, held>>
    BY <1>12, ActivateDoes, SetPasswordDoes
  <2>3. \/ UNCHANGED <<account, temp, used>>
        \/ account'.id = account.id /\ Drops({req[r].tok}) /\ used' = used \cup {req[r].tok}
    BY <1>12, ActivateDoes, SetPasswordDoes
  <2>4. CASE UNCHANGED <<account, temp, used>>
    BY <1>2, <1>3, <2>2, <2>4
  <2>5. CASE account'.id = account.id /\ Drops({req[r].tok}) /\ used' = used \cup {req[r].tok}
    BY <1>2, <1>4, <2>1, <2>2, <2>5
  <2>6. QED
    BY <2>3, <2>4, <2>5
<1>13. CASE Erase(r)
  <2> DEFINE S == {k \in Temps : temp[k].uid = req[r].uid}
  <2>1. /\ Ended(r) /\ req[r].pc = "erase" /\ used' = used \cup {req[r].tok} /\ req[r].tok \in Temps
        /\ UNCHANGED <<kind, held>>
        /\ \/ ~Present(req[r].uid) /\ UNCHANGED <<account, temp>>
           \/ Present(req[r].uid) /\ account' = NoAccount /\ Drops(S)
    BY <1>13, EraseDoes
  <2>2. /\ Acting(req[r]) /\ req[r].tok \in held /\ req[r].uid # 0
        /\ Exists(req[r].tok) => temp[req[r].tok].uid = req[r].uid
    BY <1>1, <2>1 DEF Known, TokenOf, Acting, ResendOps
  <2>3. \A k \in Temps : Exists(k) => temp[k].uid = account.id
    BY DEF TokenInv, RowOf
  <2>4. CASE ~Present(req[r].uid) /\ UNCHANGED <<account, temp>>
    <3>1. ~Exists(req[r].tok)
      BY <2>1, <2>2, <2>3, <2>4 DEF Present
    <3>2. Seen(r) /\ used' \subseteq held' /\ \A k \in held' : kind'[k] # "none"
      BY <1>1, <1>2, <2>1, <2>2, <2>4 DEF Seen, Exists
    <3>3. \A k \in Temps : RowOf(k)'
      BY <2>1, <2>4, <3>1 DEF TokenInv, RowOf, Exists
    <3>4. QED
      BY <1>2, <2>1, <3>2, <3>3, TokenClose
  <2>5. CASE Present(req[r].uid) /\ account' = NoAccount /\ Drops(S)
    <3>1. \A k \in Temps : ~Exists(k)' /\ temp'[k].type = "none"
      BY <2>3, <2>5 DEF Drops, Present, Exists, NoRow, TokenInv, RowOf
    <3>2. Seen(r) /\ used' \subseteq held' /\ \A k \in held' : kind'[k] # "none"
      BY <1>1, <1>2, <2>1, <2>2, <3>1 DEF Seen
    <3>3. \A k \in Temps : RowOf(k)'
      BY <3>1 DEF RowOf
    <3>4. QED
      BY <1>2, <2>1, <3>2, <3>3, TokenClose
  <2>6. QED
    BY <2>1, <2>4, <2>5
<1>14. CASE DropOldTokens(r)
  <2>1. /\ req[r].pc = "register" /\ Moved(r, "reregister")
        /\ UNCHANGED <<account, temp, kind, held, used>>
    BY <1>14, DropOldTokensDoes
  <2>2. Alone(r) /\ Keeps(r) /\ TokenOf(req[r])'
    BY <1>1, <2>1 DEF Moved, Keeps, TokenOf, Issuing, Acting, Exists
  <2>3. QED
    BY <1>3, <2>1, <2>2
<1>15. QED
  BY <1>5, <1>6, <1>7, <1>8, <1>9, <1>10, <1>11, <1>12, <1>13, <1>14 DEF HandlerStep

\* Every step keeps the tokens.
LEMMA TokenStep == TypeInv /\ TokenInv /\ [Next]_vars => TokenInv'
<1> SUFFICES ASSUME TypeInv, TokenInv, [Next]_vars PROVE TokenInv'
  OBVIOUS
<1>1. CASE Fading
  <2>1. \A k \in Temps : RowOf(k)'
    BY <1>1, RowKeeps DEF Fading, drawn
  <2>2. ASSUME NEW s \in Requests PROVE TokenOf(req[s])'
    <3>1. TokenOf(req[s]) /\ req'[s] = req[s] /\ UNCHANGED <<kind, held>>
      BY <1>1 DEF TokenInv, Fading, drawn, post
    <3>2. (Issuing(req[s]) \/ Acting(req[s])) /\ temp'[req[s].tok].uid # 0 =>
            temp'[req[s].tok].uid = temp[req[s].tok].uid
      BY <1>1, Sorts DEF Fading, NoRow
    <3>3. QED
      BY <3>1, <3>2 DEF TokenOf, Issuing, Acting, Exists
  <2>3. QED
    BY <1>1, <2>1, <2>2 DEF Fading, TokenInv, Distinct, Issuing, drawn, post
<1>2. ASSUME NEW r \in Requests, Crash(r) PROVE TokenInv'
  <2>1. Ended(r) /\ UNCHANGED <<account, temp, kind, held, used>>
    BY <1>2, CrashDoes DEF data, drawn
  <2>2. Keeps(r) /\ TokenOf(req[r])'
    BY <2>1, IdleType DEF Ended, Keeps, TokenOf, Issuing, Acting, IssueOps, ResendOps
  <2>3. Seen(r) /\ used' \subseteq held' /\ \A k \in held' : kind'[k] # "none"
    BY <2>1 DEF TokenInv, Seen, Ended, Exists
  <2>4. \A k \in Temps : RowOf(k)'
    BY <2>1, RowKeeps
  <2>5. QED
    BY <2>2, <2>3, <2>4, TokenClose
<1>3. QED
  BY <1>1, <1>2, Steps, HandlerToken, ArriveToken

\* At the start there are no rows and no handlers.
LEMMA TokenInit == Init => TokenInv
BY IdleType DEF Init, TokenInv, TokenOf, RowOf, Distinct, Issuing, Acting, Exists, NoRow,
                IssueOps, ResendOps

\* What holds of the tokens always.
LEMMA TokenAlways == Spec => [](TypeInv /\ TokenInv)
BY TypeInit, TypeStep, TokenInit, TokenStep, PTL DEF Spec

\* A token whose code was accepted has no row any more, whatever resends, deletions and
\* resets of the address were under way.
THEOREM UsedTokensGone == Spec => []UsedTokenIsGone
<1>1. TypeInv /\ TokenInv => UsedTokenIsGone
  BY DEF TypeInv, TypeOK, TokenInv, RowOf, UsedTokenIsGone
<1>2. QED
  BY <1>1, TokenAlways, PTL

-----------------------------------------------------------------------------
(* The account *)

\* A handler knows an account that was created, and the profile it saw is there still.
ReaderOK(q) ==
    /\ q.uid <= lastId
    /\ q.pc = "activate" /\ q.profile /\ Present(q.uid) => account.profile

AccountInv ==
    /\ account.verified => account.profile /\ account.id # 0
    /\ account.id <= lastId
    /\ \A r \in Requests : ReaderOK(req[r])

\* The numbers compared are numbers.
LEMMA Numbers ==
    ASSUME TypeInv
    PROVE  /\ account.id \in Nat /\ lastId \in Nat
           /\ \A s \in Requests : req[s].uid \in Nat
           /\ \A k \in Temps : temp[k].uid \in Nat
<1>1. /\ account \in Accounts /\ lastId \in 0..MaxIds /\ MaxIds \in Nat
      /\ (\A s \in Requests : req[s] \in Handlers) /\ \A k \in Temps : temp[k] \in Rows
  BY RegistrationAssumption DEF TypeInv, TypeOK
<1>2. QED
  BY <1>1 DEF Accounts, Handlers, Rows

\* So they are after a step.
LEMMA NumbersNext ==
    ASSUME TypeInv'
    PROVE  account'.id \in Nat /\ lastId' \in Nat
<1>1. account' \in Accounts /\ lastId' \in 0..MaxIds /\ MaxIds \in Nat
  BY RegistrationAssumption DEF TypeInv, TypeOK
<1>2. QED
  BY <1>1 DEF Accounts

\* The account keeps its profile, goes, or is a new one.
Lives ==
    /\ lastId <= lastId'
    /\ \/ account'.id = account.id /\ (account.profile => account'.profile)
       \/ account'.id = 0
       \/ account'.id = lastId + 1

\* What is left to show of a step that leaves the handlers, but for one, as they were.
LEMMA AccountClose ==
    ASSUME TypeInv, TypeInv', AccountInv, Lives, account'.id <= lastId',
           account'.verified => account'.profile /\ account'.id # 0,
           \A s \in Requests : req'[s] = req[s] \/ ReaderOK(req[s])'
    PROVE  AccountInv'
<1> SUFFICES ASSUME NEW s \in Requests, req'[s] = req[s] PROVE ReaderOK(req[s])'
  BY DEF AccountInv
<1>1. /\ account.id \in Nat /\ lastId \in Nat /\ req[s].uid \in Nat
      /\ account'.id \in Nat /\ lastId' \in Nat
  BY Numbers, NumbersNext DEF Lives
<1>2. ReaderOK(req[s])
  BY DEF AccountInv
<1>3. req[s].uid <= lastId'
  BY <1>1, <1>2 DEF ReaderOK, Lives
<1>4. req[s].pc = "activate" /\ req[s].profile /\ req[s].uid # 0 /\ account'.id = req[s].uid
        => account'.profile
  BY <1>1, <1>2 DEF ReaderOK, Lives, Present
<1>5. QED
  BY <1>3, <1>4 DEF ReaderOK, Present

\* Every step keeps the account.
LEMMA AccountStep == TypeInv /\ TokenInv /\ AccountInv /\ [Next]_vars => AccountInv'
<1> SUFFICES ASSUME TypeInv, TokenInv, AccountInv, [Next]_vars PROVE AccountInv'
  OBVIOUS
<1> USE DEF data
<1>1. TypeInv'
  BY TypeStep
<1>2. ASSUME UNCHANGED <<account, lastId>>,
             \A s \in Requests : req'[s] = req[s] \/ ReaderOK(req[s])'
      PROVE  AccountInv'
  BY <1>1, <1>2, Numbers, AccountClose DEF Lives, AccountInv
<1>3. CASE Fading
  BY <1>2, <1>3 DEF Fading
<1>4. account.id <= lastId /\ account.id \in Nat /\ lastId \in Nat /\ lastId' \in Nat
      /\ (account.verified => account.profile /\ account.id # 0)
  BY <1>1, Numbers, NumbersNext DEF AccountInv
<1>5. ASSUME NEW r \in Requests, Ended(r)
      PROVE  \A s \in Requests : req'[s] = req[s] \/ ReaderOK(req[s])'
  <2>1. Idle.uid = 0 /\ Idle.pc = "idle" /\ lastId' \in Nat
    BY <1>4 DEF Idle
  <2>2. ReaderOK(req[r])'
    BY <1>5, <2>1 DEF Ended, ReaderOK
  <2>3. QED
    BY <1>5, <2>2 DEF Ended, Alone
<1>6. ASSUME NEW r \in Requests, Crash(r) PROVE AccountInv'
  BY <1>2, <1>5, <1>6, CrashDoes
<1>7. ASSUME NEW r \in Requests, NEW k \in Temps, Arrive(r, k) PROVE AccountInv'
  <2>1. temp[k].uid = 0 \/ temp[k].uid = account.id
    BY DEF TokenInv, RowOf, Exists
  <2>2. ASSUME NEW op, NEW pc, Begins(r, op, pc, k), pc # "activate", UNCHANGED data,
               req'[r].uid \in {0, account.id}
        PROVE  AccountInv'
    <3>1. ReaderOK(req[r])'
      BY <1>4, <2>2 DEF Begins, ReaderOK
    <3>2. QED
      BY <1>2, <2>2, <3>1 DEF Begins, Alone
  <2>3. ASSUME NEW op, StartResend(r, op, k) PROVE AccountInv'
    <3>1. req'[r].uid = 0
      BY <2>3 DEF StartResend, Begin, Become, Idle, TypeInv, TypeOK
    <3>2. QED
      BY <2>2, <2>3, <3>1, StartResendDoes
  <2>4. ASSUME NEW op, StartIssue(r, op, k) PROVE AccountInv'
    <3> HIDE DEF data
    <3>1. /\ Begins(r, op, "insert", k) /\ req'[r].uid = account.id /\ op \in {"reset", "delete"}
          /\ kind[k] = "none" /\ kind' = [kind EXCEPT ![k] = op] /\ account.id # 0
          /\ UNCHANGED <<data, codes, post, used>>
      BY <2>4, StartIssueDoes
    <3>2. QED
      BY <2>2, <3>1
  <2>5. QED
    BY <1>7, <2>1, <2>2, <2>3, <2>4, StartSignupDoes, StartProvenDoes DEF Arrive, Proven
<1>8. ASSUME NEW r \in Requests, HandlerStep(r) PROVE AccountInv'
  <2>1. ReaderOK(req[r])
    BY DEF AccountInv
  <2>2. ASSUME NEW pc, Moved(r, pc), pc # "activate", lastId' = lastId
        PROVE  \A s \in Requests : req'[s] = req[s] \/ ReaderOK(req[s])'
    <3>1. ReaderOK(req[r])'
      BY <2>1, <2>2 DEF Moved, ReaderOK
    <3>2. QED
      BY <2>2, <3>1 DEF Moved, Alone
  <2>3. CASE CreateAccount(r)
    <3>1. CASE Ended(r) /\ UNCHANGED <<account, lastId>>
      BY <1>2, <1>5, <3>1
    <3>2. CASE ~(Ended(r) /\ UNCHANGED <<account, lastId>>)
      <4>1. /\ Alone(r) /\ req'[r].pc = "insert" /\ req'[r].uid = lastId + 1
            /\ lastId' = lastId + 1 /\ account'.id = lastId + 1 /\ account'.verified = FALSE
        BY <2>3, <3>2, CreateAccountDoes
      <4>2. ReaderOK(req[r])'
        BY <1>4, <4>1 DEF ReaderOK
      <4>3. Lives /\ account'.id <= lastId'
        BY <1>4, <4>1 DEF Lives
      <4>4. QED
        BY <1>1, <4>1, <4>2, <4>3, AccountClose DEF Alone
    <3>3. QED
      BY <3>1, <3>2
  <2>4. CASE ReRegister(r)
    <3>1. CASE Ended(r) /\ UNCHANGED <<account, temp>>
      BY <1>2, <1>5, <2>4, <3>1, ReRegisterDoes
    <3>2. CASE Moved(r, "insert") /\ account'.id = account.id
               /\ account'.verified = account.verified /\ account'.profile = account.profile
      <4>1. lastId' = lastId
        BY <2>4, ReRegisterDoes
      <4>2. Lives /\ account'.id <= lastId'
        BY <1>4, <3>2, <4>1 DEF Lives
      <4>3. QED
        BY <1>1, <1>4, <2>2, <3>2, <4>1, <4>2, AccountClose
    <3>3. QED
      BY <2>4, <3>1, <3>2, ReRegisterDoes
  <2>5. CASE InsertToken(r)
    <3>1. UNCHANGED <<account, lastId>>
      BY <2>5, InsertTokenDoes
    <3>2. CASE ~Ended(r)
      <4>1. Alone(r) /\ req'[r].pc = "mail" /\ req'[r].uid = req[r].uid
        BY <2>5, <3>2, InsertTokenDoes
      <4>2. ReaderOK(req[r])'
        BY <2>1, <3>1, <4>1 DEF ReaderOK
      <4>3. QED
        BY <1>2, <3>1, <4>1, <4>2 DEF Alone
    <3>3. QED
      BY <1>2, <1>5, <3>1, <3>2
  <2>6. CASE Mail(r) \/ MailFails(r)
    <3>1. UNCHANGED <<account, lastId>> /\ (AfterMailDoes(r, TRUE) \/ AfterMailDoes(r, FALSE))
      BY <2>6, MailDoes, MailFailsDoes
    <3>2. Moved(r, "store") \/ Moved(r, "retract") \/ Ended(r)
      BY <3>1 DEF AfterMailDoes
    <3>3. QED
      BY <1>2, <1>5, <2>2, <3>1, <3>2
  <2>7. CASE Retract(r) \/ StoreCode(r)
    BY <1>2, <1>5, <2>7, RetractDoes, StoreCodeDoes
  <2>8. CASE LoadUser(r)
    <3>1. UNCHANGED <<account, lastId>>
      BY <2>8, LoadUserDoes
    <3>2. CASE ~Ended(r)
      <4>1. Alone(r) /\ req'[r].uid = req[r].uid /\ req'[r].profile = account.profile
        BY <2>8, <3>2, LoadUserDoes
      <4>2. ReaderOK(req[r])'
        BY <2>1, <3>1, <4>1 DEF ReaderOK
      <4>3. QED
        BY <1>2, <3>1, <4>1, <4>2 DEF Alone
    <3>3. QED
      BY <1>2, <1>5, <3>1, <3>2
  <2>9. CASE Activate(r)
    <3>1. Ended(r) /\ lastId' = lastId /\ req[r].pc = "activate"
      BY <2>9, ActivateDoes
    <3>2. CASE UNCHANGED <<account, temp, used>>
      BY <1>2, <1>5, <3>1, <3>2
    <3>3. CASE ~UNCHANGED <<account, temp, used>>
      <4>1. /\ Present(req[r].uid) /\ account'.id = account.id
            /\ account'.profile = (account.profile \/ ~req[r].profile)
        BY <2>9, <3>3, ActivateDoes
      <4>2. account'.profile /\ (account.profile => account'.profile)
        BY <2>1, <3>1, <4>1 DEF ReaderOK
      <4>3. Lives /\ account'.id <= lastId' /\ account'.id # 0
        BY <1>4, <3>1, <4>1, <4>2 DEF Lives, Present
      <4>4. QED
        BY <1>1, <1>5, <3>1, <4>2, <4>3, AccountClose
    <3>4. QED
      BY <3>2, <3>3
  <2>10. CASE SetPassword(r)
    <3>1. Ended(r) /\ lastId' = lastId
      BY <2>10, SetPasswordDoes
    <3>2. CASE UNCHANGED <<account, temp, used>>
      BY <1>2, <1>5, <3>1, <3>2
    <3>3. CASE ~UNCHANGED <<account, temp, used>>
      <4>1. /\ account'.id = account.id /\ account'.verified = account.verified
            /\ account'.profile = account.profile
        BY <2>10, <3>3, SetPasswordDoes
      <4>2. Lives /\ account'.id <= lastId'
        BY <1>4, <3>1, <4>1 DEF Lives
      <4>3. QED
        BY <1>1, <1>4, <1>5, <3>1, <4>1, <4>2, AccountClose
    <3>4. QED
      BY <3>2, <3>3
  <2>11. CASE Erase(r)
    <3>1. Ended(r) /\ lastId' = lastId
      BY <2>11, EraseDoes
    <3>2. CASE UNCHANGED <<account, temp>>
      BY <1>2, <1>5, <3>1, <3>2
    <3>3. CASE account' = NoAccount
      <4>1. account'.id = 0 /\ account'.verified = FALSE
        BY <3>3 DEF NoAccount
      <4>2. Lives /\ account'.id <= lastId'
        BY <1>4, <3>1, <4>1 DEF Lives
      <4>3. QED
        BY <1>1, <1>5, <3>1, <4>1, <4>2, AccountClose
    <3>4. QED
      BY <2>11, <3>2, <3>3, EraseDoes
  <2>12. CASE DropOldTokens(r)
    <3>1. Moved(r, "reregister") /\ UNCHANGED <<account, lastId>>
      BY <2>12, DropOldTokensDoes
    <3>2. QED
      BY <1>2, <2>2, <3>1
  <2>13. QED
    BY <1>8, <2>3, <2>4, <2>5, <2>6, <2>7, <2>8, <2>9, <2>10, <2>11, <2>12 DEF HandlerStep
<1>9. QED
  BY <1>3, <1>6, <1>7, <1>8, Steps

\* At the start there is no account.
LEMMA AccountInit == Init => AccountInv
BY DEF Init, AccountInv, ReaderOK, NoAccount, Idle

\* An account that can log in has its profile row, and every stored token belongs to the
\* account there is: a signup, a verification and a deletion may interleave at will.
THEOREM RowsAreComplete == Spec => []RowsComplete
<1>1. TokenInv /\ AccountInv => RowsComplete
  BY DEF TokenInv, RowOf, AccountInv, RowsComplete
<1>2. QED
  BY <1>1, TypeInit, TypeStep, TokenInit, TokenStep, AccountInit, AccountStep, PTL DEF Spec

-----------------------------------------------------------------------------
(* The life of the account *)

\* A step that leaves the id and the verification as they were says nothing of the life.
LEMMA Stutter ==
    ASSUME lastId' = lastId, account'.id = account.id, account'.verified = account.verified
    PROVE  UNCHANGED Lifecycle!vars
BY DEF Lifecycle!vars, Phase

\* Every step of a handler is one of the lifecycle, or none.
LEMMA LifecycleHandler ==
    ASSUME TypeInv, NEW r \in Requests, HandlerStep(r)
    PROVE  [Lifecycle!Next]_(Lifecycle!vars)
<1> USE DEF data
<1>1. CASE CreateAccount(r)
  <2>1. CASE UNCHANGED <<account, lastId>>
    BY <2>1, Stutter
  <2>2. CASE ~UNCHANGED <<account, lastId>>
    <3>1. /\ account.id = 0 /\ lastId' = lastId + 1 /\ account'.id = lastId + 1
          /\ account'.verified = FALSE
      BY <1>1, <2>2, CreateAccountDoes
    <3>2. account'.id # 0
      BY <3>1, Numbers
    <3>3. Lifecycle!Register
      BY <3>1, <3>2 DEF Lifecycle!Register, Phase
    <3>4. QED
      BY <3>3 DEF Lifecycle!Next
  <2>3. QED
    BY <2>1, <2>2
<1>2. CASE Activate(r)
  <2>1. CASE UNCHANGED <<account, temp, used>>
    BY <1>2, <2>1, Stutter, ActivateDoes
  <2>2. CASE ~UNCHANGED <<account, temp, used>>
    <3>1. /\ lastId' = lastId /\ Present(req[r].uid) /\ account'.id = account.id
          /\ account'.verified = TRUE
      BY <1>2, <2>2, ActivateDoes
    <3>2. account.verified \in BOOLEAN
      BY DEF TypeInv, TypeOK, Accounts
    <3>3. CASE account.verified
      BY <3>1, <3>2, <3>3, Stutter
    <3>4. CASE ~account.verified
      <4>1. Lifecycle!Activate
        BY <3>1, <3>4 DEF Lifecycle!Activate, Phase, Present
      <4>2. QED
        BY <4>1 DEF Lifecycle!Next
    <3>5. QED
      BY <3>3, <3>4
  <2>3. QED
    BY <2>1, <2>2
<1>3. CASE Erase(r)
  <2>1. CASE UNCHANGED <<account, temp>>
    BY <1>3, <2>1, Stutter, EraseDoes
  <2>2. CASE ~UNCHANGED <<account, temp>>
    <3>1. lastId' = lastId /\ Present(req[r].uid) /\ account' = NoAccount
      BY <1>3, <2>2, EraseDoes
    <3>2. Lifecycle!Delete
      BY <3>1 DEF Lifecycle!Delete, Phase, Present, NoAccount
    <3>3. QED
      BY <3>2 DEF Lifecycle!Next
  <2>3. QED
    BY <2>1, <2>2
<1>4. CASE ReRegister(r)
  <2>1. lastId' = lastId /\ account'.id = account.id /\ account'.verified = account.verified
    BY <1>4, ReRegisterDoes
  <2>2. QED
    BY <2>1, Stutter
<1>5. CASE SetPassword(r)
  <2>1. lastId' = lastId /\ account'.id = account.id /\ account'.verified = account.verified
    BY <1>5, SetPasswordDoes
  <2>2. QED
    BY <2>1, Stutter
<1>6. CASE \/ DropOldTokens(r) \/ InsertToken(r) \/ Mail(r) \/ MailFails(r)
           \/ Retract(r) \/ StoreCode(r) \/ LoadUser(r)
  <2>1. UNCHANGED <<account, lastId>>
    BY <1>6, DropOldTokensDoes, InsertTokenDoes, MailDoes, MailFailsDoes, RetractDoes, StoreCodeDoes, LoadUserDoes
  <2>2. QED
    BY <2>1, Stutter
<1>7. QED
  BY <1>1, <1>2, <1>3, <1>4, <1>5, <1>6 DEF HandlerStep

\* An arriving handler does not touch the account.
LEMMA ArriveLeaves ==
    ASSUME TypeInv, NEW r \in Requests, NEW k \in Temps, Arrive(r, k)
    PROVE  UNCHANGED data
BY DEF Arrive, StartSignup, StartIssue, StartResend, StartVerify, StartConfirm, StartDeleteVerify

\* The handlers implement AccountLifecycle, however they interleave or die: ids are given
\* in order, a verified account never becomes unverified again, and a deleted one is not
\* activated by a late verification.
THEOREM LifecycleFollowed == Spec => FollowsLifecycle
<1>1. Init => Lifecycle!Init
  BY DEF Init, Lifecycle!Init, Phase, NoAccount
<1>2. TypeInv /\ [Next]_vars => [Lifecycle!Next]_(Lifecycle!vars)
  <2> SUFFICES ASSUME TypeInv, [Next]_vars PROVE [Lifecycle!Next]_(Lifecycle!vars)
    OBVIOUS
  <2>1. CASE UNCHANGED <<account, lastId>>
    BY <2>1, Stutter
  <2>2. QED
    BY <2>1, Steps, LifecycleHandler, ArriveLeaves, CrashDoes DEF Fading, data
<1>3. QED
  BY <1>1, <1>2, TypeInit, TypeStep, PTL DEF Spec, FollowsLifecycle, Lifecycle!Spec

-----------------------------------------------------------------------------
(* Codes *)

\* An issuing handler about to mail has the code of the row, and ends without a mail only
\* in unmailed; a resend that is past its mail has a code that was mailed.
SenderOK(q) ==
    /\ Issuing(q) /\ q.pc = "mail" /\ Exists(q.tok) => temp[q.tok].code = q.code
    /\ q.pc = "retract" => q.tok \in unmailed
    /\ q.pc = "store" /\ q.tok \notin unmailed => q.code \in mailed[q.tok]

Issued(k) == \A r \in Requests : Issuing(req[r]) => req[r].tok # k

MailInv ==
    /\ \A r \in Requests : SenderOK(req[r])
    /\ \A k \in Temps \ unmailed : Exists(k) /\ Issued(k) => temp[k].code \in mailed[k]

\* The row of k has the code it had.
SameCode(k) == Exists(k) /\ temp'[k].code = temp[k].code

\* What a step of r does to the codes: mail is not taken back; a row keeps its code, but
\* for the one r inserts with its own token and the one r stores a resent code in; and a
\* token that r leaves has no row, or a code that was mailed, or was not mailed.
Posts(r) ==
    /\ Alone(r) /\ unmailed \subseteq unmailed' /\ \A k \in Temps : mailed[k] \subseteq mailed'[k]
    /\ \A k \in Temps : temp'[k].uid # 0 =>
         \/ SameCode(k)
         \/ k = req[r].tok /\ Issuing(req[r]) /\ Issuing(req'[r]) /\ req'[r].tok = k
         \/ /\ k = req[r].tok /\ req[r].op \in ResendOps /\ req[r].pc = "store"
            /\ temp'[k].code = req[r].code
    /\ Issuing(req[r]) => \/ Issuing(req'[r]) /\ req'[r].tok = req[r].tok
                          \/ temp'[req[r].tok].uid = 0
                          \/ req[r].tok \in unmailed'
                          \/ temp'[req[r].tok].code \in mailed'[req[r].tok]

\* The others keep their codes.
LEMMA SendersKeep ==
    ASSUME TypeInv, TokenInv, MailInv, NEW r \in Requests, Posts(r), NEW s \in Requests \ {r}
    PROVE  SenderOK(req[s])'
<1>1. SenderOK(req[s]) /\ req'[s] = req[s] /\ Known(req[s])
  BY DEF TypeInv, MailInv, Posts, Alone
<1>2. ASSUME Issuing(req[s]), req[s].pc = "mail", temp'[req[s].tok].uid # 0
      PROVE  temp'[req[s].tok].code = req[s].code
  <2>1. req[s].tok \in Temps /\ req[s].tok \notin held
    BY <1>2, Sorts DEF TokenInv, TokenOf
  <2>2. Issuing(req[r]) => req[r].tok # req[s].tok
    BY <1>2 DEF TokenInv, Distinct
  <2>3. req[r].op \in ResendOps => req[r].tok # req[s].tok
    BY <2>1 DEF TokenInv, TokenOf
  <2>4. SameCode(req[s].tok)
    BY <1>2, <2>1, <2>2, <2>3 DEF Posts
  <2>5. QED
    BY <1>1, <1>2, <2>4 DEF SenderOK, SameCode
<1>3. req[s].pc \in {"store", "retract"} => req[s].tok \in Temps
  BY <1>1 DEF Known
<1>4. req[s].pc = "retract" => req[s].tok \in unmailed'
  BY <1>1 DEF SenderOK, Posts
<1>5. req[s].pc = "store" /\ req[s].tok \notin unmailed' => req[s].code \in mailed'[req[s].tok]
  BY <1>1, <1>3 DEF SenderOK, Posts
<1>6. QED
  BY <1>1, <1>2, <1>4, <1>5 DEF SenderOK, Issuing, Exists

\* What is left to show of a step of r.
LEMMA MailClose ==
    ASSUME TypeInv, TokenInv, MailInv, NEW r \in Requests, Posts(r), SenderOK(req[r])'
    PROVE  MailInv'
<1>1. ASSUME NEW s \in Requests PROVE SenderOK(req[s])'
  BY SendersKeep
<1>2. ASSUME NEW k \in Temps, k \notin unmailed', temp'[k].uid # 0, Issued(k)'
      PROVE  temp'[k].code \in mailed'[k]
  <2>1. k \notin unmailed /\ mailed[k] \subseteq mailed'[k]
    BY <1>2 DEF Posts
  <2>2. ~(Issuing(req'[r]) /\ req'[r].tok = k)
    BY <1>2 DEF Issued, Issuing
  <2>3. CASE Issuing(req[r]) /\ req[r].tok = k
    BY <1>2, <2>2, <2>3 DEF Posts
  <2>4. CASE ~(Issuing(req[r]) /\ req[r].tok = k)
    <3>1. Issued(k)
      <4> SUFFICES ASSUME NEW s \in Requests, Issuing(req[s]) PROVE req[s].tok # k
        BY DEF Issued
      <4>1. CASE s = r
        BY <2>4, <4>1
      <4>2. CASE s # r
        <5>1. req'[s] = req[s]
          BY <4>2 DEF Posts, Alone
        <5>2. QED
          BY <1>2, <5>1 DEF Issued, Issuing
      <4>3. QED
        BY <4>1, <4>2
    <3>2. CASE SameCode(k)
      BY <2>1, <3>1, <3>2 DEF MailInv, SameCode
    <3>3. CASE /\ k = req[r].tok /\ req[r].op \in ResendOps /\ req[r].pc = "store"
               /\ temp'[k].code = req[r].code
      BY <2>1, <3>3 DEF MailInv, SenderOK
    <3>4. QED
      BY <1>2, <2>4, <3>2, <3>3 DEF Posts
  <2>5. QED
    BY <2>3, <2>4
<1>3. QED
  BY <1>1, <1>2 DEF MailInv, Exists

\* A handler that is idle, or about something other than mail, has no code to send.
LEMMA NothingToSend ==
    ASSUME NEW q, q.pc \notin {"mail", "retract", "store"}
    PROVE  SenderOK(q)
BY DEF SenderOK

\* Every step of a handler keeps the codes.
LEMMA HandlerMail ==
    ASSUME TypeInv, TokenInv, MailInv, NEW r \in Requests, HandlerStep(r)
    PROVE  MailInv'
<1> USE DEF data, post
<1>1. TokenOf(req[r]) /\ Known(req[r]) /\ SenderOK(req[r])
  BY DEF TypeInv, TokenInv, MailInv
<1>2. Idle.pc = "idle" /\ Idle.op = "none"
  BY DEF Idle
<1>3. Ended(r) => Alone(r) /\ req'[r].pc = "idle" /\ ~Issuing(req'[r]) /\ SenderOK(req[r])'
  BY <1>2 DEF Ended, Issuing, IssueOps, SenderOK
<1>4. req[r].pc \in {"register", "reregister", "insert"} => temp[req[r].tok].uid = 0 /\ req[r].tok \in Temps
  BY <1>1 DEF Known, TokenOf, Issuing, IssueOps, ResendOps, Exists
<1>5. ASSUME NEW S, Drops(S), UNCHANGED <<mailed, unmailed>>, Alone(r), SenderOK(req[r])',
             \/ ~Issuing(req[r])
             \/ Issuing(req'[r]) /\ req'[r].tok = req[r].tok
             \/ req[r].tok \in S \cap Temps
      PROVE  MailInv'
  <2>1. \A k \in Temps : temp'[k].uid # 0 => SameCode(k)
    BY <1>5 DEF Drops, NoRow, SameCode, Exists
  <2>2. req[r].tok \in S \cap Temps => temp'[req[r].tok].uid = 0
    BY <1>5 DEF Drops, NoRow
  <2>3. Posts(r)
    BY <1>5, <2>1, <2>2 DEF Posts
  <2>4. QED
    BY <1>5, <2>3, MailClose
<1>6. ASSUME UNCHANGED <<temp, mailed, unmailed>>, Alone(r), SenderOK(req[r])',
             \/ ~Issuing(req[r])
             \/ Issuing(req'[r]) /\ req'[r].tok = req[r].tok
             \/ temp[req[r].tok].uid = 0
      PROVE  MailInv'
  <2>1. Posts(r)
    BY <1>6 DEF Posts, SameCode, Exists
  <2>2. QED
    BY <1>6, <2>1, MailClose
<1>7. CASE CreateAccount(r)
  <2>1. Alone(r) /\ req[r].pc = "register" /\ (Ended(r) \/ req'[r].pc = "insert")
        /\ UNCHANGED <<temp, mailed, unmailed>>
    BY <1>3, <1>7, CreateAccountDoes
  <2>2. SenderOK(req[r])'
    BY <1>3, <2>1 DEF SenderOK
  <2>3. QED
    BY <1>4, <1>6, <2>1, <2>2
<1>8. CASE ReRegister(r)
  <2>1. CASE Ended(r) /\ UNCHANGED <<account, temp>>
    BY <1>3, <1>4, <1>6, <1>8, <2>1, ReRegisterDoes
  <2>2. CASE Moved(r, "insert") /\ Drops(req[r].doomed)
    <3>1. Alone(r) /\ SenderOK(req[r])' /\ UNCHANGED <<mailed, unmailed>>
      BY <1>8, <2>2, ReRegisterDoes DEF Moved, SenderOK
    <3>2. Issuing(req[r]) => Issuing(req'[r]) /\ req'[r].tok = req[r].tok
      BY <2>2 DEF Moved, Issuing
    <3>3. QED
      BY <1>5, <2>2, <3>1, <3>2
  <2>3. QED
    BY <1>8, <2>1, <2>2, ReRegisterDoes
<1>9. CASE InsertToken(r)
  <2>1. CASE Ended(r) /\ UNCHANGED <<temp, codes>>
    BY <1>3, <1>4, <1>6, <1>9, <2>1, InsertTokenDoes
  <2>2. CASE ~(Ended(r) /\ UNCHANGED <<temp, codes>>)
    <3> DEFINE k == req[r].tok
    <3>1. /\ req[r].pc = "insert" /\ Alone(r) /\ req'[r].op = req[r].op /\ req'[r].pc = "mail"
          /\ req'[r].tok = req[r].tok /\ req'[r].code = 1
          /\ temp'[k].code = 1 /\ \A j \in Temps \ {k} : temp'[j] = temp[j]
          /\ UNCHANGED <<mailed, unmailed>>
      BY <1>9, <2>2, InsertTokenDoes
    <3>2. Issuing(req[r]) /\ Issuing(req'[r])
      BY <1>1, <3>1 DEF Known, Issuing, IssueOps, ResendOps
    <3>3. Posts(r)
      BY <3>1, <3>2 DEF Posts, SameCode, Exists
    <3>4. SenderOK(req[r])'
      BY <3>1 DEF SenderOK
    <3>5. QED
      BY <3>3, <3>4, MailClose
  <2>3. QED
    BY <2>1, <2>2
<1>10. CASE Mail(r)
  <2> DEFINE k == req[r].tok
  <2>1. /\ req[r].pc = "mail" /\ k \in Temps /\ mailed'[k] = mailed[k] \cup {req[r].code}
        /\ \A j \in Temps \ {k} : mailed'[j] = mailed[j]
        /\ UNCHANGED <<temp, unmailed>>
    BY <1>10, MailDoes
  <2>2. \/ ~Issuing(req[r]) /\ Moved(r, "store")
        \/ Issuing(req[r]) /\ Ended(r)
    <3>1. AfterMailDoes(r, TRUE)
      BY <1>10, MailDoes
    <3>2. req[r].op \in ResendOps => req[r].op \notin IssueOps
      BY DEF ResendOps, IssueOps
    <3>3. QED
      BY <3>1, <3>2 DEF AfterMailDoes, Issuing
  <2>3. \A j \in Temps : mailed[j] \subseteq mailed'[j]
    BY <2>1
  <2>4. Issuing(req[r]) => temp[k].uid = 0 \/ temp[k].code \in mailed'[k]
    BY <1>1, <2>1 DEF SenderOK, Exists
  <2>5. Posts(r)
    BY <1>3, <2>1, <2>2, <2>3, <2>4 DEF Posts, SameCode, Exists, Moved
  <2>6. SenderOK(req[r])'
    BY <1>3, <2>1, <2>2 DEF SenderOK, Moved
  <2>7. QED
    BY <2>5, <2>6, MailClose
<1>11. CASE MailFails(r)
  <2>1. /\ req[r].pc = "mail" /\ unmailed' = unmailed \cup {req[r].tok}
        /\ UNCHANGED <<temp, mailed>>
    BY <1>11, MailFailsDoes
  <2>2. Moved(r, "store") \/ Moved(r, "retract") \/ Ended(r)
    BY <1>11, MailFailsDoes DEF AfterMailDoes
  <2>3. Posts(r)
    BY <1>3, <2>1, <2>2 DEF Posts, SameCode, Exists, Moved
  <2>4. SenderOK(req[r])'
    BY <1>3, <2>1, <2>2 DEF SenderOK, Moved
  <2>5. QED
    BY <2>3, <2>4, MailClose
<1>12. CASE Retract(r)
  <2>1. Ended(r) /\ Drops({req[r].tok}) /\ UNCHANGED <<mailed, unmailed>> /\ req[r].tok \in Temps
    BY <1>1, <1>12, RetractDoes DEF Known
  <2>2. QED
    BY <1>3, <1>5, <2>1
<1>13. CASE StoreCode(r)
  <2> DEFINE k == req[r].tok
  <2>1. /\ req[r].pc = "store" /\ Ended(r) /\ k \in Temps
        /\ UNCHANGED <<mailed, unmailed>>
        /\ \A j \in Temps \ {k} : temp'[j] = temp[j]
        /\ \/ ~Exists(k) /\ temp' = temp
           \/ Exists(k) /\ temp'[k].code = req[r].code
    BY <1>13, StoreCodeDoes
  <2>2. req[r].op \in ResendOps /\ ~Issuing(req[r])
    BY <1>1, <2>1, Sorts DEF Known
  <2>3. Posts(r)
    BY <1>3, <2>1, <2>2 DEF Posts, SameCode, Exists
  <2>4. QED
    BY <1>3, <2>1, <2>3, MailClose
<1>14. CASE LoadUser(r)
  <2>1. /\ req[r].pc = "load" /\ Alone(r) /\ req'[r].pc \in {"idle", "activate"}
        /\ UNCHANGED <<temp, mailed, unmailed>>
    BY <1>3, <1>14, LoadUserDoes
  <2>2. ~Issuing(req[r]) /\ SenderOK(req[r])'
    BY <1>1, <2>1 DEF Known, Issuing, IssueOps, ResendOps, SenderOK
  <2>3. QED
    BY <1>6, <2>1, <2>2
<1>15. CASE Activate(r) \/ SetPassword(r) \/ Erase(r)
  <2>1. Ended(r) /\ req[r].pc \in {"activate", "set_password", "erase"}
        /\ UNCHANGED <<mailed, unmailed>>
    BY <1>15, ActivateDoes, SetPasswordDoes, EraseDoes
  <2>2. ~Issuing(req[r])
    BY <1>1, <2>1 DEF Known, Issuing, IssueOps, ResendOps
  <2>3. temp' = temp \/ \E S : Drops(S)
    BY <1>15, ActivateDoes, SetPasswordDoes, EraseDoes
  <2>4. QED
    BY <1>3, <1>5, <1>6, <2>1, <2>2, <2>3
<1>16. CASE DropOldTokens(r)
  <2>1. Moved(r, "reregister") /\ UNCHANGED <<temp, mailed, unmailed>>
    BY <1>16, DropOldTokensDoes
  <2>2. Alone(r) /\ SenderOK(req[r])' /\ (Issuing(req[r]) => Issuing(req'[r]))
        /\ req'[r].tok = req[r].tok
    BY <2>1 DEF Moved, SenderOK, Issuing
  <2>3. QED
    BY <1>6, <2>1, <2>2
<1>17. QED
  BY <1>7, <1>8, <1>9, <1>10, <1>11, <1>12, <1>13, <1>14, <1>15, <1>16 DEF HandlerStep

\* Every step keeps the codes.
LEMMA MailStep == TypeInv /\ TokenInv /\ MailInv /\ [Next]_vars => MailInv'
<1> SUFFICES ASSUME TypeInv, TokenInv, MailInv, [Next]_vars PROVE MailInv'
  OBVIOUS
<1> USE DEF data, post
<1>1. CASE Fading
  <2>1. UNCHANGED <<mailed, unmailed, req>>
    BY <1>1 DEF Fading
  <2>2. \A k \in Temps : temp'[k].uid # 0 => SameCode(k)
    BY <1>1 DEF Fading, NoRow, SameCode, Exists
  <2>3. ASSUME NEW s \in Requests PROVE SenderOK(req[s])'
    <3>1. SenderOK(req[s]) /\ (Issuing(req[s]) => req[s].tok \in Temps)
      BY Sorts DEF MailInv
    <3>2. QED
      BY <2>1, <2>2, <3>1 DEF SenderOK, SameCode, Exists, Issuing
  <2>4. ASSUME NEW k \in Temps \ unmailed, temp'[k].uid # 0, Issued(k)
        PROVE  temp'[k].code \in mailed[k]
    BY <2>2, <2>4 DEF MailInv, SameCode
  <2>5. QED
    BY <2>1, <2>3, <2>4 DEF MailInv, Issued, Issuing, Exists
<1>2. ASSUME NEW r \in Requests, NEW k \in Temps, Arrive(r, k) PROVE MailInv'
  <2>1. UNCHANGED <<temp, mailed, unmailed>>
    BY <1>2 DEF Arrive, StartSignup, StartIssue, StartResend, StartVerify, StartConfirm, StartDeleteVerify
  <2>2. req[r].pc = "idle" /\ Alone(r) /\ req'[r].pc \notin {"retract", "store"}
        /\ (req'[r].pc = "mail" => ~Issuing(req'[r]))
    <3>1. ASSUME NEW op, StartResend(r, op, k)
          PROVE  Alone(r) /\ req[r].pc = "idle" /\ req'[r].pc = "mail" /\ ~Issuing(req'[r])
      BY <3>1, StartResendDoes DEF Begins, Issuing, IssueOps, ResendOps
    <3>2. ASSUME NEW op, StartIssue(r, op, k)
          PROVE  Alone(r) /\ req[r].pc = "idle" /\ req'[r].pc = "insert"
      <4> HIDE DEF data, post
      <4>1. /\ Begins(r, op, "insert", k) /\ req'[r].uid = account.id /\ op \in {"reset", "delete"}
            /\ kind[k] = "none" /\ kind' = [kind EXCEPT ![k] = op] /\ account.id # 0
            /\ UNCHANGED <<data, codes, post, used>>
        BY <3>2, StartIssueDoes
      <4>2. QED
        BY <4>1 DEF Begins
    <3>3. QED
      BY <1>2, <3>1, <3>2, StartSignupDoes, StartProvenDoes DEF Arrive, Begins, Proven
  <2>3. ~Issuing(req[r])
    BY <2>2 DEF TypeInv, Known, Issuing, IssueOps, ResendOps
  <2>4. Posts(r) /\ SenderOK(req[r])'
    BY <2>1, <2>2, <2>3 DEF Posts, SameCode, SenderOK, Exists, Issuing
  <2>5. QED
    BY <2>4, MailClose
<1>3. ASSUME NEW r \in Requests, Crash(r) PROVE MailInv'
  <2> DEFINE k == req[r].tok
  <2>1. /\ Ended(r) /\ UNCHANGED <<temp, mailed>> /\ unmailed \subseteq unmailed'
        /\ req[r].pc = "mail" => k \in unmailed'
    BY <1>3, CrashDoes
  <2>2. Alone(r) /\ SenderOK(req[r])'
    BY <2>1 DEF Ended, Idle, SenderOK, Issuing, IssueOps
  <2>3. Issuing(req[r]) => temp[k].uid = 0 \/ k \in unmailed'
    <3>1. Known(req[r]) /\ TokenOf(req[r]) /\ SenderOK(req[r])
      BY DEF TypeInv, TokenInv, MailInv
    <3>2. QED
      BY <2>1, <3>1 DEF Known, TokenOf, SenderOK, Issuing, IssueOps, ResendOps, Exists
  <2>4. Posts(r)
    BY <2>1, <2>2, <2>3 DEF Posts, SameCode, Exists
  <2>5. QED
    BY <2>2, <2>4, MailClose
<1>4. QED
  BY <1>1, <1>2, <1>3, Steps, HandlerMail

\* At the start nothing is to be sent.
LEMMA MailInit == Init => MailInv
BY DEF Init, MailInv, SenderOK, Idle, NoRow, Exists, Issuing, IssueOps

\* When nobody works on a token, the code in its row is one that was mailed, unless a mail
\* was not sent: resends that overlap, or that die between mailing and storing, never lock
\* the client out.
THEOREM StoredCodesWereMailed == Spec => []StoredCodeWasMailed
<1>1. TypeInv /\ MailInv => StoredCodeWasMailed
  BY DEF MailInv, Issued, StoredCodeWasMailed, Busy
<1>2. QED
  BY <1>1, TypeInit, TypeStep, TokenInit, TokenStep, MailInit, MailStep, PTL DEF Spec

-----------------------------------------------------------------------------
(* One request at a time *)

\* k chose the password, or a reset did.
Chosen(k) == account.pw \in Temps /\ (account.pw = k \/ kind[account.pw] = "reset")

OwnerOK(q) ==
    /\ q.pc \in {"register", "reregister"} => ~account.verified
    /\ q.pc = "register" => q.uid = account.id
    /\ q.pc = "reregister" =>
          \A k \in Temps : Exists(k) /\ temp[k].type = "email_verify" => k \in q.doomed
    /\ q.op = "signup" /\ q.pc \in {"insert", "mail"} => Chosen(q.tok)
    /\ q.op = "verify" => q.tok \notin used /\ Chosen(q.tok)

AloneInv == ~disturbed =>
    /\ \A r, s \in Requests : r = s \/ req[r].pc = "idle" \/ req[s].pc = "idle"
    /\ \A r \in Requests : OwnerOK(req[r])
    /\ \A k \in Temps : Exists(k) /\ temp[k].type = "email_verify" => Chosen(k)

\* What a step of r does that leaves the password to who chose it.
Owns(r) ==
    /\ Alone(r) /\ \A s \in Requests \ {r} : req[s].pc = "idle"
    /\ OwnerOK(req[r])'
    /\ \A k \in Temps : temp'[k].uid # 0 /\ temp'[k].type = "email_verify" => Chosen(k)'

\* Nothing else is to be shown of it.
LEMMA AloneClose ==
    ASSUME TypeInv, TypeInv', NEW r \in Requests, Owns(r)
    PROVE  AloneInv'
<1>1. ASSUME NEW s \in Requests \ {r} PROVE req'[s].pc = "idle" /\ OwnerOK(req[s])'
  <2>1. req'[s] = req[s] /\ req[s].pc = "idle" /\ Known(req[s])
    BY DEF Owns, Alone, TypeInv
  <2>2. QED
    BY <2>1 DEF Known, OwnerOK
<1>2. OwnerOK(req[r])' /\ \A k \in Temps : temp'[k].uid # 0 /\ temp'[k].type = "email_verify" => Chosen(k)'
  BY DEF Owns
<1>3. \A s \in Requests : OwnerOK(req[s])'
  BY <1>1, <1>2
<1>4. QED
  BY <1>1, <1>2, <1>3 DEF AloneInv, Exists

\* The choice stands while the password and the reset tokens do.
LEMMA ChosenStill ==
    ASSUME TypeInv, NEW k, Chosen(k), account'.pw = account.pw,
           \A j \in Temps : kind[j] # "none" => kind'[j] = kind[j]
    PROVE  Chosen(k)'
BY DEF Chosen

\* A handler that steps was under way, and nobody else when they come one at a time.
LEMMA OnlyOne ==
    ASSUME TypeInv, AloneInv, ~disturbed, NEW r \in Requests, HandlerStep(r)
    PROVE  /\ disturbed' = disturbed /\ \A s \in Requests \ {r} : req[s].pc = "idle"
           /\ \A k \in Temps : temp[k].uid # 0 /\ temp[k].type = "email_verify" => Chosen(k)
           /\ OwnerOK(req[r])
<1>1. req[r].pc # "idle" /\ disturbed' = disturbed
  BY CreateAccountDoes, DropOldTokensDoes, ReRegisterDoes, InsertTokenDoes, MailDoes,
     MailFailsDoes, RetractDoes, StoreCodeDoes, LoadUserDoes, ActivateDoes, SetPasswordDoes, EraseDoes DEF HandlerStep
<1>2. QED
  BY <1>1 DEF AloneInv, Exists

\* Every step of a handler that is alone leaves the password to who chose it.
LEMMA HandlerOwns ==
    ASSUME TypeInv, TokenInv, AloneInv, ~disturbed, NEW r \in Requests, HandlerStep(r)
    PROVE  Owns(r)
<1> USE DEF data, drawn, post
<1>1. /\ \A s \in Requests \ {r} : req[s].pc = "idle"
      /\ \A k \in Temps : temp[k].uid # 0 /\ temp[k].type = "email_verify" => Chosen(k)
      /\ OwnerOK(req[r]) /\ Known(req[r]) /\ TokenOf(req[r])
  BY OnlyOne DEF TypeInv, TokenInv
<1>2. Ended(r) => Alone(r) /\ OwnerOK(req[r])'
  BY DEF Ended, OwnerOK, Idle
<1>3. ASSUME Alone(r), OwnerOK(req[r])', account'.pw = account.pw, kind' = kind,
             \A k \in Temps : temp'[k].uid # 0 =>
               temp[k].uid # 0 /\ temp'[k].type = temp[k].type
      PROVE  Owns(r)
  <2>1. \A k \in Temps : temp'[k].uid # 0 /\ temp'[k].type = "email_verify" => Chosen(k)'
    BY <1>1, <1>3, ChosenStill
  <2>2. QED
    BY <1>1, <1>3, <2>1 DEF Owns
<1>4. ASSUME NEW S, Drops(S), NEW k \in Temps
      PROVE  temp'[k].uid # 0 => temp[k].uid # 0 /\ temp'[k].type = temp[k].type /\ k \notin S
  BY <1>4 DEF Drops, NoRow
<1>5. CASE CreateAccount(r)
  <2>1. CASE Ended(r) /\ UNCHANGED <<account, lastId>>
    BY <1>2, <1>3, <1>5, <2>1, CreateAccountDoes
  <2>2. CASE ~(Ended(r) /\ UNCHANGED <<account, lastId>>)
    <3>1. /\ req[r].pc = "register" /\ account.id = 0 /\ account'.pw = req[r].tok /\ Alone(r)
          /\ req'[r].op = req[r].op /\ req'[r].pc = "insert" /\ req'[r].tok = req[r].tok
          /\ UNCHANGED <<temp, kind>>
      BY <1>5, <2>2, CreateAccountDoes
    <3>2. req[r].op = "signup" /\ req[r].tok \in Temps
      BY <1>1, <3>1 DEF Known, ResendOps
    <3>3. OwnerOK(req[r])'
      BY <3>1, <3>2 DEF OwnerOK, Chosen
    <3>4. \A k \in Temps : temp'[k].uid = 0
      BY <3>1 DEF TokenInv, RowOf, Exists
    <3>5. QED
      BY <1>1, <3>1, <3>3, <3>4 DEF Owns
  <2>3. QED
    BY <2>1, <2>2
<1>6. CASE ReRegister(r)
  <2>1. CASE Ended(r) /\ UNCHANGED <<account, temp>>
    BY <1>2, <1>3, <1>6, <2>1, ReRegisterDoes
  <2>2. CASE Moved(r, "insert") /\ account'.pw = req[r].tok /\ Drops(req[r].doomed)
    <3>1. /\ req[r].pc = "reregister" /\ req[r].op = "signup" /\ req[r].tok \in Temps
          /\ kind' = kind
      BY <1>1, <1>6, ReRegisterDoes DEF Known, ResendOps
    <3>2. OwnerOK(req[r])' /\ Alone(r)
      BY <2>2, <3>1 DEF Moved, OwnerOK, Chosen
    <3>3. \A k \in Temps : temp[k].uid # 0 /\ temp[k].type = "email_verify" => k \in req[r].doomed
      BY <1>1, <3>1 DEF OwnerOK, Exists
    <3>4. \A k \in Temps : temp'[k].uid # 0 => temp'[k].type # "email_verify"
      BY <1>4, <2>2, <3>3
    <3>5. QED
      BY <1>1, <3>2, <3>4 DEF Owns
  <2>3. QED
    BY <1>6, <2>1, <2>2, ReRegisterDoes
<1>7. CASE InsertToken(r)
  <2>1. CASE Ended(r) /\ UNCHANGED <<temp, codes>>
    BY <1>2, <1>3, <1>7, <2>1, InsertTokenDoes
  <2>2. CASE ~(Ended(r) /\ UNCHANGED <<temp, codes>>)
    <3> DEFINE j == req[r].tok
    <3>1. /\ req[r].pc = "insert" /\ Alone(r) /\ req'[r].op = req[r].op /\ req'[r].pc = "mail"
          /\ req'[r].tok = req[r].tok /\ temp'[j].type = TypeOfOp(req[r].op)
          /\ \A k \in Temps \ {j} : temp'[k] = temp[k]
          /\ UNCHANGED <<account, kind>>
      BY <1>7, <2>2, InsertTokenDoes
    <3>2. req[r].op \in IssueOps
      BY <1>1, <3>1 DEF Known, IssueOps, ResendOps
    <3>3. temp'[j].type = "email_verify" => Chosen(j)
      BY <1>1, <3>1, <3>2 DEF OwnerOK, TypeOfOp, IssueOps
    <3>4. \A k \in Temps : temp'[k].uid # 0 /\ temp'[k].type = "email_verify" => Chosen(k)
      BY <1>1, <3>1, <3>3
    <3>5. \A k : Chosen(k) => Chosen(k)'
      BY <3>1 DEF Chosen
    <3>6. OwnerOK(req[r])'
      BY <1>1, <3>1, <3>2 DEF OwnerOK, IssueOps, Chosen
    <3>7. QED
      BY <1>1, <3>1, <3>4, <3>5, <3>6 DEF Owns
  <2>3. QED
    BY <2>1, <2>2
<1>8. CASE Mail(r) \/ MailFails(r)
  <2>1. UNCHANGED <<account, temp, kind>> /\ (AfterMailDoes(r, TRUE) \/ AfterMailDoes(r, FALSE))
    BY <1>8, MailDoes, MailFailsDoes
  <2>2. OwnerOK(req[r])' /\ Alone(r)
    BY <1>2, <2>1 DEF AfterMailDoes, Moved, OwnerOK, ResendOps
  <2>3. QED
    BY <1>3, <2>1, <2>2
<1>9. CASE Retract(r)
  BY <1>2, <1>3, <1>4, <1>9, RetractDoes
<1>10. CASE StoreCode(r)
  <2>1. Ended(r) /\ UNCHANGED <<account, kind>>
        /\ \A k \in Temps : temp'[k].uid = temp[k].uid /\ temp'[k].type = temp[k].type
    BY <1>10, StoreCodeDoes
  <2>2. QED
    BY <1>2, <1>3, <2>1
<1>11. CASE LoadUser(r)
  <2>1. UNCHANGED <<account, temp, kind, used>> /\ req[r].pc = "load"
    BY <1>11, LoadUserDoes
  <2>2. CASE ~Ended(r)
    <3>1. Alone(r) /\ req'[r].op = req[r].op /\ req'[r].pc = "activate" /\ req'[r].tok = req[r].tok
      BY <1>11, <2>2, LoadUserDoes
    <3>2. OwnerOK(req[r])'
      BY <1>1, <2>1, <3>1 DEF OwnerOK, Chosen
    <3>3. QED
      BY <1>3, <2>1, <3>1, <3>2
  <2>3. QED
    BY <1>2, <1>3, <2>1, <2>2
<1>12. CASE Activate(r)
  <2>1. Ended(r) /\ kind' = kind /\ account'.pw = account.pw /\ (temp' = temp \/ Drops({req[r].tok}))
    BY <1>12, ActivateDoes
  <2>2. QED
    BY <1>2, <1>3, <1>4, <2>1
<1>13. CASE SetPassword(r)
  <2>1. Ended(r) /\ req[r].pc = "set_password" /\ req[r].tok \in Temps /\ kind' = kind
    BY <1>13, SetPasswordDoes
  <2>2. CASE UNCHANGED <<account, temp, used>>
    BY <1>2, <1>3, <2>1, <2>2
  <2>3. CASE ~UNCHANGED <<account, temp, used>>
    <3>1. account'.pw = req[r].tok
      BY <1>13, <2>3, SetPasswordDoes
    <3>2. kind[req[r].tok] = "reset"
      BY <1>1, <2>1 DEF Known, TokenOf, Acting, DrawnBy, ResendOps
    <3>3. \A k : Chosen(k)'
      BY <2>1, <3>1, <3>2 DEF Chosen
    <3>4. QED
      BY <1>1, <1>2, <2>1, <3>3 DEF Owns
  <2>4. QED
    BY <2>2, <2>3
<1>14. CASE Erase(r)
  <2>1. Ended(r) /\ kind' = kind
    BY <1>14, EraseDoes
  <2>2. CASE UNCHANGED <<account, temp>>
    BY <1>2, <1>3, <2>1, <2>2
  <2>3. CASE ~UNCHANGED <<account, temp>>
    <3>1. Present(req[r].uid) /\ Drops({k \in Temps : temp[k].uid = req[r].uid})
      BY <1>14, <2>3, EraseDoes
    <3>2. \A k \in Temps : temp'[k].uid = 0
      BY <3>1 DEF Drops, NoRow, Present, TokenInv, RowOf, Exists
    <3>3. QED
      BY <1>1, <1>2, <2>1, <3>2 DEF Owns
  <2>4. QED
    BY <2>2, <2>3
<1>15. CASE DropOldTokens(r)
  <2>1. /\ req[r].pc = "register" /\ Moved(r, "reregister")
        /\ req'[r].doomed = {k \in Temps : temp[k].uid = req[r].uid /\ temp[k].type = "email_verify"}
        /\ UNCHANGED <<account, temp, kind, used>>
    BY <1>15, DropOldTokensDoes
  <2>2. req[r].op = "signup" /\ req[r].uid = account.id /\ ~account.verified
    BY <1>1, <2>1 DEF Known, ResendOps, OwnerOK
  <2>3. \A k \in Temps : temp[k].uid # 0 /\ temp[k].type = "email_verify" => k \in req'[r].doomed
    BY <2>1, <2>2 DEF TokenInv, RowOf, Exists
  <2>4. OwnerOK(req[r])' /\ Alone(r)
    BY <2>1, <2>2, <2>3 DEF Moved, OwnerOK, Exists
  <2>5. QED
    BY <1>3, <2>1, <2>4
<1>16. QED
  BY <1>5, <1>6, <1>7, <1>8, <1>9, <1>10, <1>11, <1>12, <1>13, <1>14, <1>15 DEF HandlerStep

\* So does an arriving one.
LEMMA ArriveOwns ==
    ASSUME TypeInv, TokenInv, AloneInv, ~disturbed', NEW r \in Requests, NEW k \in Temps, Arrive(r, k)
    PROVE  Owns(r)
<1> USE DEF data, drawn, post
<1>1. ASSUME NEW op, NEW pc, Begins(r, op, pc, k), UNCHANGED <<account, temp>>,
             \A j \in Temps : kind[j] # "none" => kind'[j] = kind[j],
             pc = "register" => ~account.verified /\ req'[r].uid = account.id, pc # "reregister",
             op = "signup" => pc \notin {"insert", "mail"},
             op = "verify" => k \notin used' /\ temp[k].uid # 0 /\ temp[k].type = "email_verify"
      PROVE  Owns(r)
  <2>1. ~disturbed /\ (\A s \in Requests : req[s].pc = "idle") /\ Alone(r)
    BY <1>1 DEF Begins
  <2>2. \A j \in Temps : temp[j].uid # 0 /\ temp[j].type = "email_verify" => Chosen(j)
    BY <2>1 DEF AloneInv, Exists
  <2>3. \A j \in Temps : temp'[j].uid # 0 /\ temp'[j].type = "email_verify" => Chosen(j)'
    BY <1>1, <2>2, ChosenStill
  <2>4. OwnerOK(req[r])'
    BY <1>1, <2>3 DEF Begins, OwnerOK
  <2>5. QED
    BY <2>1, <2>3, <2>4 DEF Owns
<1>2. ASSUME NEW op \in IssueOps, kind[k] = "none", kind' = [kind EXCEPT ![k] = op]
      PROVE  \A j \in Temps : kind[j] # "none" => kind'[j] = kind[j]
  BY <1>2 DEF TypeInv, TypeOK
<1>3. CASE StartSignup(r, k)
  BY <1>1, <1>2, <1>3, StartSignupDoes DEF IssueOps
<1>4. ASSUME NEW op, StartIssue(r, op, k) PROVE Owns(r)
  <2> HIDE DEF data, drawn, post
  <2>1. /\ Begins(r, op, "insert", k) /\ req'[r].uid = account.id /\ op \in {"reset", "delete"}
        /\ kind[k] = "none" /\ kind' = [kind EXCEPT ![k] = op] /\ account.id # 0
        /\ UNCHANGED <<data, codes, post, used>>
    BY <1>4, StartIssueDoes
  <2>2. op \in IssueOps /\ op \notin {"signup", "verify"} /\ UNCHANGED <<account, temp>>
    BY <2>1 DEF IssueOps, data
  <2>3. QED
    BY <1>1, <1>2, <2>1, <2>2
<1>5. ASSUME NEW op, StartResend(r, op, k) PROVE Owns(r)
  <2>1. Begins(r, op, "mail", k) /\ op \notin {"signup", "verify"} /\ UNCHANGED <<account, temp, kind>>
    BY <1>5, StartResendDoes DEF ResendOps
  <2>2. QED
    BY <1>1, <2>1
<1>6. ASSUME NEW op, NEW pc, NEW type, Proven(r, op, pc, k, type), op # "signup",
             pc \notin {"register", "reregister"}, op = "verify" => type = "email_verify"
      PROVE  Owns(r)
  <2>1. Begins(r, op, pc, k) /\ temp[k].type = type /\ UNCHANGED <<account, temp, kind, used>>
    BY <1>6 DEF Proven
  <2>2. temp[k].type # "none" => temp[k].uid # 0 /\ k \notin used
    BY DEF TokenInv, RowOf, Exists
  <2>3. QED
    BY <1>1, <1>6, <2>1, <2>2
<1>7. QED
  BY <1>3, <1>4, <1>5, <1>6, StartProvenDoes DEF Arrive

\* Every step leaves the password to who chose it, as long as requests come one at a time.
LEMMA AloneStep == TypeInv /\ TokenInv /\ AloneInv /\ [Next]_vars => AloneInv'
<1> SUFFICES ASSUME TypeInv, TokenInv, AloneInv, [Next]_vars, ~disturbed' PROVE AloneInv'
  BY DEF AloneInv
<1>1. TypeInv'
  BY TypeStep
<1>2. CASE Fading
  <2>1. UNCHANGED <<account, kind, req, disturbed, used>>
    BY <1>2 DEF Fading, drawn
  <2>2. \A k \in Temps : temp'[k].uid # 0 => temp[k].uid # 0 /\ temp'[k].type = temp[k].type
    BY <1>2 DEF Fading, NoRow
  <2>3. QED
    BY <2>1, <2>2 DEF AloneInv, OwnerOK, Chosen, Exists
<1>3. ASSUME NEW r \in Requests, HandlerStep(r) PROVE AloneInv'
  <2>1. ~disturbed
    BY <1>3, CreateAccountDoes, DropOldTokensDoes, ReRegisterDoes, InsertTokenDoes, MailDoes,
       MailFailsDoes, RetractDoes, StoreCodeDoes, LoadUserDoes, ActivateDoes, SetPasswordDoes, EraseDoes
       DEF HandlerStep
  <2>2. QED
    BY <1>1, <1>3, <2>1, HandlerOwns, AloneClose
<1>4. QED
  BY <1>1, <1>2, <1>3, Steps, CrashDoes, ArriveOwns, AloneClose

\* At the start nobody chose anything.
LEMMA AloneInit == Init => AloneInv
BY DEF Init, AloneInv, OwnerOK, Idle, NoRow, Exists

\* While requests for the address come one at a time and no worker dies, signup never
\* touches a verified account: its password changes by a reset only.
THEOREM VerifiedStaysFinal == Spec => VerifiedIsFinalAlone
<1> DEFINE Inv == TypeInv /\ TokenInv /\ AloneInv
           Prop == ~disturbed => VerifiedChange
<1>1. Init => Inv
  BY TypeInit, TokenInit, AloneInit
<1>2. Inv /\ [Next]_vars => Inv'
  BY TypeStep, TokenStep, AloneStep
<1>3. Inv /\ [Next]_vars => [Prop]_vars
  <2> SUFFICES ASSUME Inv, [Next]_vars, ~disturbed, account.verified, account'.verified,
                      account'.pw # account.pw
               PROVE  kind[account'.pw] = "reset"
    BY DEF VerifiedChange
  <2>1. PICK r \in Requests : HandlerStep(r)
    BY Steps, ArriveLeaves, CrashDoes DEF Fading, data
  <2>2. OwnerOK(req[r]) /\ Known(req[r]) /\ TokenOf(req[r])
    BY <2>1, OnlyOne DEF TypeInv, TokenInv
  <2>3. ~CreateAccount(r) /\ ~DropOldTokens(r) /\ ~ReRegister(r) /\ ~Activate(r)
    BY <2>2, CreateAccountDoes, DropOldTokensDoes, ReRegisterDoes, ActivateDoes DEF OwnerOK, data
  <2>4. ~InsertToken(r) /\ ~Mail(r) /\ ~MailFails(r) /\ ~Retract(r) /\ ~StoreCode(r) /\ ~LoadUser(r)
    BY InsertTokenDoes, MailDoes, MailFailsDoes, RetractDoes, StoreCodeDoes, LoadUserDoes DEF data
  <2>5. ~Erase(r)
    <3>1. NoAccount.verified = FALSE
      BY DEF NoAccount
    <3>2. QED
      BY <3>1, EraseDoes
  <2>6. SetPassword(r) /\ req[r].pc = "set_password" /\ account'.pw = req[r].tok
    BY <2>1, <2>3, <2>4, <2>5, SetPasswordDoes DEF HandlerStep
  <2>7. QED
    BY <2>2, <2>6 DEF Known, TokenOf, Acting, DrawnBy, ResendOps
<1>4. QED
  BY <1>1, <1>2, <1>3, PTL DEF Spec, VerifiedIsFinalAlone

\* One at a time, a verification activates the password it was requested with, or one that
\* was reset since, never that of another signup.
THEOREM ActivatesOwnPassword == Spec => ActivatesItsOwnPassword
<1> DEFINE Inv == TypeInv /\ TokenInv /\ AloneInv
           Prop == ~disturbed /\ ~account.verified /\ account'.verified =>
                       account.pw \in used' \ used \/ kind[account.pw] = "reset"
<1>1. Init => Inv
  BY TypeInit, TokenInit, AloneInit
<1>2. Inv /\ [Next]_vars => Inv'
  BY TypeStep, TokenStep, AloneStep
<1>3. Inv /\ [Next]_vars => [Prop]_vars
  <2> SUFFICES ASSUME Inv, [Next]_vars, ~disturbed, ~account.verified, account'.verified
               PROVE  account.pw \in used' \ used \/ kind[account.pw] = "reset"
    OBVIOUS
  <2>1. PICK r \in Requests : HandlerStep(r)
    BY Steps, ArriveLeaves, CrashDoes DEF Fading, data
  <2>2. OwnerOK(req[r]) /\ Known(req[r])
    BY <2>1, OnlyOne DEF TypeInv
  <2>3. ~CreateAccount(r) /\ ~DropOldTokens(r) /\ ~ReRegister(r) /\ ~SetPassword(r)
    BY CreateAccountDoes, DropOldTokensDoes, ReRegisterDoes, SetPasswordDoes DEF data
  <2>4. ~InsertToken(r) /\ ~Mail(r) /\ ~MailFails(r) /\ ~Retract(r) /\ ~StoreCode(r) /\ ~LoadUser(r)
    BY InsertTokenDoes, MailDoes, MailFailsDoes, RetractDoes, StoreCodeDoes, LoadUserDoes DEF data
  <2>5. ~Erase(r)
    <3>1. NoAccount.verified = FALSE
      BY DEF NoAccount
    <3>2. QED
      BY <3>1, EraseDoes
  <2>6. Activate(r) /\ req[r].pc = "activate" /\ used' = used \cup {req[r].tok}
    BY <2>1, <2>3, <2>4, <2>5, ActivateDoes DEF HandlerStep
  <2>7. req[r].op = "verify"
    BY <2>2, <2>6 DEF Known, ResendOps
  <2>8. QED
    BY <2>2, <2>6, <2>7 DEF OwnerOK, Chosen
<1>4. QED
  BY <1>1, <1>2, <1>3, PTL DEF Spec, ActivatesItsOwnPassword
=============================================================================
