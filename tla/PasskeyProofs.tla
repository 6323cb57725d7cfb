---------------------------- MODULE PasskeyProofs -----------------------------
(***************************************************************************)
(* What holds of Passkey for any credentials, challenges, counters and     *)
(* requests: unless its sign-ins overlap, a cloned authenticator is caught *)
(* and an assertion signs in once.                                         *)
(***************************************************************************)
EXTENDS Passkey, TLAPS

-----------------------------------------------------------------------------
(* The requests *)

Verifying == {"reg_verify", "login_verify"}

\* Handler q has a response when it verifies one, and a challenge it read was drawn.
Known(q) ==
    /\ q.op \in Verifying => q.cred \in Credentials /\ q.ch \in drawn
    /\ q.expected \in drawn \cup {None}

TypeInv == TypeOK /\ \A r \in Requests : Known(req[r])

\* Handler r makes the step, the others stay.
Alone(r) == req' \in [Requests -> Handlers] /\ \A s \in Requests \ {r} : req'[s] = req[s]

\* Handler r has record q, but for its pc.
Same(r, q) ==
    /\ q.op = req[r].op /\ q.cred = req[r].cred /\ q.ch = req[r].ch
    /\ q.count = req[r].count /\ q.expected = req[r].expected

\* Handler r goes on at pc.
Moved(r, pc) == Alone(r) /\ Same(r, req'[r]) /\ req'[r].pc = pc

\* Handler r ends.
Ended(r) == Alone(r) /\ req'[r] = Idle

\* The idle record has its type.
LEMMA IdleType == Idle \in Handlers /\ Known(Idle) /\ Idle.op = "none"
BY PasskeyAssumption DEF Idle, Handlers, Ops, PCs, Counts, Known, Verifying

\* One handler changes.
LEMMA BecomeOne ==
    ASSUME TypeInv, NEW r \in Requests, NEW rec \in Handlers, Become(r, rec)
    PROVE  Alone(r) /\ req'[r] = rec
BY DEF TypeInv, TypeOK, Become, Alone

\* A handler that finishes leaves its slot idle.
LEMMA Ending ==
    ASSUME TypeInv, NEW r \in Requests, Finish(r)
    PROVE  Ended(r)
BY BecomeOne, IdleType DEF Finish, Ended

\* A handler goes on.
LEMMA Moving ==
    ASSUME TypeInv, NEW r \in Requests, NEW pc \in PCs, Goto(r, pc)
    PROVE  Moved(r, pc)
<1> DEFINE rec == [req[r] EXCEPT !.pc = pc]
<1>1. req[r] \in Handlers /\ Become(r, rec)
  BY DEF TypeInv, TypeOK, Goto
<1>2. rec \in Handlers /\ Same(r, rec) /\ rec.pc = pc
  BY <1>1 DEF Handlers, Same
<1> HIDE DEF rec
<1>3. QED
  BY <1>1, <1>2, BecomeOne DEF Moved

\* Handler r goes on at pc with challenge ch as the expected one.
Expects(r, pc, ch) ==
    /\ Alone(r) /\ req'[r].pc = pc /\ req'[r].expected = ch
    /\ req'[r].op = req[r].op /\ req'[r].cred = req[r].cred /\ req'[r].ch = req[r].ch
    /\ req'[r].count = req[r].count

\* A handler has read the challenge.
LEMMA Expecting ==
    ASSUME TypeInv, NEW r \in Requests, NEW pc \in PCs, NEW ch \in Challenges,
           Become(r, [req[r] EXCEPT !.pc = pc, !.expected = ch])
    PROVE  Expects(r, pc, ch)
<1> DEFINE rec == [req[r] EXCEPT !.pc = pc, !.expected = ch]
<1>1. req[r] \in Handlers /\ Become(r, rec)
  BY DEF TypeInv, TypeOK
<1>2. /\ rec \in Handlers /\ rec.pc = pc /\ rec.expected = ch
      /\ rec.op = req[r].op /\ rec.cred = req[r].cred /\ rec.ch = req[r].ch
      /\ rec.count = req[r].count
  BY <1>1 DEF Handlers
<1> HIDE DEF rec
<1>3. QED
  BY <1>1, <1>2, BecomeOne DEF Expects

-----------------------------------------------------------------------------
(* The steps *)

\* Only handler r changes.
Silent == UNCHANGED <<store, reg, auth, drawn, history>>

\* A request for options begins, or one that verifies a response.
LEMMA StartDoes ==
    ASSUME TypeInv, NEW r \in Requests
    PROVE  /\ StartRegOptions(r) \/ StartLoginOptions(r) =>
                Silent /\ Alone(r) /\ req'[r].op \notin Verifying /\ req'[r].expected = None
           /\ \A c \in Credentials, ch \in drawn, n \in Counts :
                /\ StartRegVerify(r, c, ch, n) =>
                     /\ Silent /\ Alone(r) /\ req'[r].op = "reg_verify" /\ req'[r].cred = c
                     /\ req'[r].ch = ch /\ req'[r].expected = None
                /\ StartLoginVerify(r, c, ch, n) =>
                     /\ UNCHANGED <<store, reg, auth, drawn, accepted, left>> /\ Alone(r)
                     /\ req'[r].op = "login_verify" /\ req'[r].pc = "challenge"
                     /\ req'[r].cred = c /\ req'[r].ch = ch /\ req'[r].expected = None
                     /\ mixed' \in SUBSET Credentials /\ mixed \subseteq mixed'
                     /\ \A s \in Requests :
                          req[s].op = "login_verify" /\ req[s].cred = c => c \in mixed'
<1>1. ASSUME NEW op \in {"reg_options", "login_options"},
             Become(r, [Idle EXCEPT !.op = op, !.pc = "account"])
      PROVE  Alone(r) /\ req'[r].op \notin Verifying /\ req'[r].expected = None
  <2> DEFINE rec == [Idle EXCEPT !.op = op, !.pc = "account"]
  <2>1. rec \in Handlers /\ rec.op = op /\ rec.expected = None
    BY IdleType DEF Idle, Handlers, Ops, PCs
  <2> HIDE DEF rec
  <2>2. Become(r, rec)
    BY <1>1 DEF rec
  <2>3. QED
    BY <2>1, <2>2, BecomeOne DEF Verifying
<1>2. ASSUME NEW op \in Verifying, NEW c \in Credentials, NEW ch \in drawn, NEW n \in Counts,
             Become(r, [op |-> op, pc |-> "challenge", cred |-> c, ch |-> ch, count |-> n,
                        expected |-> None])
      PROVE  /\ Alone(r) /\ req'[r].op = op /\ req'[r].pc = "challenge" /\ req'[r].cred = c
             /\ req'[r].ch = ch /\ req'[r].expected = None
  <2> DEFINE rec == [op |-> op, pc |-> "challenge", cred |-> c, ch |-> ch, count |-> n,
                     expected |-> None]
  <2>1. ch \in Challenges
    BY DEF TypeInv, TypeOK
  <2>2. /\ rec \in Handlers /\ rec.op = op /\ rec.pc = "challenge" /\ rec.cred = c
        /\ rec.ch = ch /\ rec.expected = None
    BY <2>1 DEF Handlers, Ops, PCs, Verifying
  <2> HIDE DEF rec
  <2>3. Become(r, rec)
    BY <1>2 DEF rec
  <2>4. QED
    BY <2>2, <2>3, BecomeOne
<1>3. ASSUME NEW c \in Credentials, NEW ch \in drawn, NEW n \in Counts, StartLoginVerify(r, c, ch, n)
      PROVE  /\ mixed' \in SUBSET Credentials /\ mixed \subseteq mixed'
             /\ \A s \in Requests :
                  req[s].op = "login_verify" /\ req[s].cred = c => c \in mixed'
  BY <1>3 DEF StartLoginVerify, TypeInv, TypeOK
<1>4. QED
  BY <1>1, <1>2, <1>3 DEF StartRegOptions, StartLoginOptions, StartRegVerify, StartLoginVerify,
                          Silent, Verifying

\* The steps that read the account, or whether it has keys.
LEMMA WalkDoes ==
    ASSUME TypeInv, NEW r \in Requests,
           RegAccount(r) \/ LoginOptionsAccount(r) \/ LoginOptionsKeys(r) \/ LoginAccount(r)
    PROVE  /\ Silent
           /\ Ended(r) \/ (\E pc \in {"store", "keys", "key"} : Moved(r, pc))
<1>1. Silent
  BY DEF RegAccount, LoginOptionsAccount, LoginOptionsKeys, LoginAccount, Silent
<1>2. Finish(r) \/ Goto(r, "store") \/ Goto(r, "keys") \/ Goto(r, "key")
  BY DEF RegAccount, LoginOptionsAccount, LoginOptionsKeys, LoginAccount
<1>3. QED
  BY <1>1, <1>2, Ending, Moving DEF PCs

\* A new challenge is stored under one key or the other.
LEMMA StoreChallengeDoes ==
    ASSUME TypeInv, NEW r \in Requests, StoreRegChallenge(r) \/ StoreAuthChallenge(r)
    PROVE  /\ Ended(r) /\ UNCHANGED <<store, history>>
           /\ \E ch \in Challenges \ drawn :
                /\ drawn' = drawn \cup {ch}
                /\ (reg' = ch /\ auth' = auth) \/ (auth' = ch /\ reg' = reg)
BY Ending DEF StoreRegChallenge, StoreAuthChallenge

\* A registration reads its challenge.
LEMMA RegChallengeDoes ==
    ASSUME TypeInv, NEW r \in Requests, RegChallenge(r)
    PROVE  /\ Silent /\ req[r].op = "reg_verify"
           /\ Ended(r) \/ (reg \in drawn /\ Expects(r, "commit", reg))
<1>1. reg \in drawn \cup {None} /\ drawn \subseteq Challenges
  BY DEF TypeInv, TypeOK
<1>2. QED
  BY <1>1, Ending, Expecting DEF RegChallenge, At, Silent, PCs

\* A sign-in reads its challenge.
LEMMA LoginChallengeDoes ==
    ASSUME TypeInv, NEW r \in Requests, LoginChallenge(r)
    PROVE  /\ Silent /\ req[r].op = "login_verify"
           /\ Ended(r) \/ (auth \in drawn /\ Expects(r, "account", auth))
<1>1. auth \in drawn \cup {None} /\ drawn \subseteq Challenges
  BY DEF TypeInv, TypeOK
<1>2. QED
  BY <1>1, Ending, Expecting DEF LoginChallenge, At, Silent, PCs

\* The stored counters are numbers.
LEMMA StoredCounts ==
    ASSUME TypeInv, NEW c \in Credentials
    PROVE  /\ c \in Stored => keys[c] \in Nat /\ keys[c] \in Counts
           /\ c \notin Stored => keys[c] = None
BY PasskeyAssumption DEF TypeInv, TypeOK, Stored, Counts

\* The credentials, challenges and counters of the handlers are what they should be.
LEMMA Fields ==
    ASSUME TypeInv, NEW r \in Requests
    PROVE  /\ req[r].count \in Nat /\ req[r].count \in Counts /\ MaxCount \in Nat
           /\ req[r].op \in Verifying => req[r].cred \in Credentials /\ req[r].ch \in drawn
           /\ req[r].expected \in drawn \cup {None} /\ drawn \subseteq Challenges
           /\ None \notin Challenges
<1>1. req[r] \in Handlers /\ Known(req[r])
  BY DEF TypeInv, TypeOK
<1>2. QED
  BY <1>1, PasskeyAssumption DEF Handlers, Known, Counts, TypeInv, TypeOK

\* A key is stored that was not, of an account that is there.
LEMMA StoreKeyDoes ==
    ASSUME TypeInv, NEW r \in Requests, StoreKey(r)
    PROVE  /\ req[r].op = "reg_verify" /\ UNCHANGED <<reg, auth, drawn, history>>
           /\ \/ Ended(r) /\ UNCHANGED store
              \/ /\ Moved(r, "cleanup") /\ account.exists /\ req[r].cred \notin Stored
                 /\ account' \in [exists : BOOLEAN, blocked : BOOLEAN, enabled : BOOLEAN]
                 /\ account'.exists = account.exists /\ account'.enabled = TRUE
                 /\ keys' \in [Credentials -> Counts \cup {None}]
                 /\ \A c \in Credentials :
                      keys'[c] = IF c = req[r].cred THEN req[r].count ELSE keys[c]
<1>1. req[r].op = "reg_verify" /\ UNCHANGED <<reg, auth, drawn, history>>
  BY DEF StoreKey, At
<1>2. CASE ~(account.exists /\ req[r].cred \notin Stored)
  BY <1>1, <1>2, Ending DEF StoreKey
<1>3. CASE account.exists /\ req[r].cred \notin Stored
  <2>1. /\ keys' = [keys EXCEPT ![req[r].cred] = req[r].count]
        /\ account' = [account EXCEPT !.enabled = TRUE]
        /\ Moved(r, "cleanup")
    BY <1>3, Moving DEF StoreKey, PCs
  <2>2. req[r].cred \in Credentials /\ req[r].count \in Counts
    BY <1>1, Fields DEF Verifying
  <2>3. /\ keys' \in [Credentials -> Counts \cup {None}]
        /\ \A c \in Credentials : keys'[c] = IF c = req[r].cred THEN req[r].count ELSE keys[c]
    BY <2>1, <2>2 DEF TypeInv, TypeOK
  <2>4. /\ account' \in [exists : BOOLEAN, blocked : BOOLEAN, enabled : BOOLEAN]
        /\ account'.exists = account.exists /\ account'.enabled = TRUE
    BY <2>1 DEF TypeInv, TypeOK
  <2>5. QED
    BY <1>1, <1>3, <2>1, <2>3, <2>4
<1>4. QED
  BY <1>2, <1>3

\* A registration ends.
LEMMA RegCleanupDoes ==
    ASSUME TypeInv, NEW r \in Requests, RegCleanup(r)
    PROVE  Ended(r) /\ reg' \in {None, reg} /\ UNCHANGED <<store, auth, drawn, history>>
BY Ending DEF RegCleanup

\* An assertion is verified against the challenge and the counter there is.
LEMMA LoginKeyDoes ==
    ASSUME TypeInv, NEW r \in Requests, LoginKey(r)
    PROVE  /\ Silent /\ req[r].op = "login_verify" /\ req[r].pc = "key"
           /\ \/ Ended(r)
              \/ /\ Moved(r, "commit") /\ req[r].cred \in Stored
                 /\ req[r].ch = req[r].expected
                 /\ \/ req[r].count > keys[req[r].cred]
                    \/ req[r].count = 0 /\ keys[req[r].cred] = 0
<1>1. Silent /\ req[r].op = "login_verify" /\ req[r].pc = "key"
  BY DEF LoginKey, At, Silent
<1>2. CASE req[r].cred \in Stored /\ Verifies(r, keys[req[r].cred])
  BY <1>1, <1>2, Moving DEF LoginKey, Verifies, PCs
<1>3. CASE ~(req[r].cred \in Stored /\ Verifies(r, keys[req[r].cred]))
  BY <1>1, <1>3, Ending DEF LoginKey
<1>4. QED
  BY <1>2, <1>3

\* A sign-in is committed: its counter stands, if it counts.
LEMMA SignInDoes ==
    ASSUME TypeInv, NEW r \in Requests, SignIn(r)
    PROVE  /\ req[r].op = "login_verify" /\ req[r].pc = "commit"
           /\ UNCHANGED <<account, reg, auth, drawn, mixed, left>>
           /\ \/ Ended(r) /\ UNCHANGED <<keys, accepted>>
              \/ /\ Moved(r, "cleanup") /\ req[r].cred \in Stored
                 /\ accepted' = accepted \cup {Assertion(r)}
                 /\ keys' \in [Credentials -> Counts \cup {None}]
                 /\ \A c \in Credentials :
                      keys'[c] = IF c = req[r].cred /\ req[r].count # 0 THEN req[r].count ELSE keys[c]
<1>1. /\ req[r].op = "login_verify" /\ req[r].pc = "commit"
      /\ UNCHANGED <<account, reg, auth, drawn, mixed, left>>
  BY DEF SignIn, At
<1>2. CASE req[r].cred \notin Stored
  BY <1>1, <1>2, Ending DEF SignIn
<1>3. CASE req[r].cred \in Stored
  <2>1. /\ keys' = IF req[r].count = 0 THEN keys ELSE [keys EXCEPT ![req[r].cred] = req[r].count]
        /\ accepted' = accepted \cup {Assertion(r)} /\ Moved(r, "cleanup")
    BY <1>3, Moving DEF SignIn, PCs
  <2>2. req[r].cred \in Credentials /\ req[r].count \in Counts
        /\ keys \in [Credentials -> Counts \cup {None}]
    BY <1>1, Fields DEF Verifying, TypeInv, TypeOK
  <2>3. /\ keys' \in [Credentials -> Counts \cup {None}]
        /\ \A c \in Credentials :
             keys'[c] = IF c = req[r].cred /\ req[r].count # 0 THEN req[r].count ELSE keys[c]
    BY <2>1, <2>2
  <2>4. QED
    BY <1>1, <1>3, <2>1, <2>3
<1>4. QED
  BY <1>2, <1>3

\* A sign-in deletes the challenge, or fails to.
LEMMA LoginCleanupDoes ==
    ASSUME TypeInv, NEW r \in Requests, LoginCleanup(r)
    PROVE  /\ req[r].op = "login_verify" /\ req[r].pc = "cleanup" /\ Ended(r)
           /\ UNCHANGED <<store, reg, drawn, accepted, mixed>>
           /\ \/ auth' = None /\ left' = left
              \/ auth' = auth /\ left' = left \cup {req[r].ch}
BY Ending DEF LoginCleanup, At

\* A worker dies.
LEMMA CrashDoes ==
    ASSUME TypeInv, NEW r \in Requests, Crash(r)
    PROVE  /\ Ended(r) /\ UNCHANGED <<store, reg, auth, drawn, accepted, mixed>>
           /\ \/ req[r].op = "login_verify" /\ req[r].pc = "cleanup" /\ left' = left \cup {req[r].ch}
              \/ ~(req[r].op = "login_verify" /\ req[r].pc = "cleanup") /\ left' = left
BY Ending DEF Crash, At

\* The account goes, and its passkeys.
LEMMA DeleteAccountDoes ==
    ASSUME TypeInv, DeleteAccount
    PROVE  /\ account' \in [exists : BOOLEAN, blocked : BOOLEAN, enabled : BOOLEAN]
           /\ account'.exists = FALSE /\ account'.enabled = FALSE
           /\ keys' \in [Credentials -> Counts \cup {None}]
           /\ \A c \in Credentials : keys'[c] = None
           /\ UNCHANGED <<reg, auth, drawn, req, history>>
BY DEF DeleteAccount

\* The account is blocked or unblocked.
LEMMA BlockDoes ==
    ASSUME TypeInv, NEW b \in BOOLEAN, Block(b)
    PROVE  /\ account' \in [exists : BOOLEAN, blocked : BOOLEAN, enabled : BOOLEAN]
           /\ account'.exists = account.exists /\ account'.enabled = account.enabled
           /\ UNCHANGED <<keys, reg, auth, drawn, req, history>>
BY DEF Block, TypeInv, TypeOK

-----------------------------------------------------------------------------
(* Types *)

\* The store and the flag of the account agree.
StoreOK ==
    /\ account \in [exists : BOOLEAN, blocked : BOOLEAN, enabled : BOOLEAN]
    /\ keys \in [Credentials -> Counts \cup {None}]
    /\ account.enabled <=> Stored # {}
    /\ Stored # {} => account.exists

\* What is left to show of a step of r.
LEMMA TypeClose ==
    ASSUME TypeInv, NEW r \in Requests, Alone(r), Known(req[r])', StoreOK',
           drawn \subseteq drawn', drawn' \subseteq Challenges,
           reg' \in drawn' \cup {None}, auth' \in drawn' \cup {None},
           accepted' \subseteq Assertions, mixed' \subseteq Credentials, left' \subseteq drawn'
    PROVE  TypeInv'
<1>1. ASSUME NEW s \in Requests PROVE Known(req[s])'
  BY DEF Alone, TypeInv, Known
<1>2. QED
  BY <1>1 DEF Alone, TypeInv, TypeOK, StoreOK

\* At the start everything has its type.
LEMMA TypeInit == Init => TypeInv
BY IdleType DEF Init, TypeInv, TypeOK, Stored

\* Every step keeps everything in its type.
LEMMA TypeStep == TypeInv /\ [Next]_vars => TypeInv'
<1> SUFFICES ASSUME TypeInv, [Next]_vars PROVE TypeInv'
  OBVIOUS
<1> USE DEF store, history
<1>1. /\ StoreOK /\ drawn \subseteq Challenges
      /\ reg \in drawn \cup {None} /\ auth \in drawn \cup {None}
      /\ accepted \subseteq Assertions /\ mixed \subseteq Credentials /\ left \subseteq drawn
      /\ \A r \in Requests : Known(req[r])
  BY DEF TypeInv, TypeOK, StoreOK
<1>2. UNCHANGED store => StoreOK'
  BY <1>1 DEF StoreOK, Stored
<1>3. CASE UNCHANGED vars
  BY <1>3 DEF vars, TypeInv, TypeOK, Known, Stored
<1>4. ASSUME NEW r \in Requests, Alone(r), Known(req[r])', Silent PROVE TypeInv'
  <2>1. UNCHANGED <<store, reg, auth, drawn, accepted, mixed, left>>
    BY <1>4 DEF Silent
  <2>2. QED
    BY <1>1, <1>2, <1>4, <2>1, TypeClose
<1>5. ASSUME NEW r \in Requests, Ended(r) PROVE Alone(r) /\ Known(req[r])'
  <2>1. Idle.expected = None /\ Idle.op \notin Verifying
    BY DEF Idle, Verifying
  <2>2. QED
    BY <1>5, <2>1 DEF Ended, Known
<1>6. ASSUME NEW r \in Requests, NEW pc, Moved(r, pc), drawn' = drawn
      PROVE  Alone(r) /\ Known(req[r])'
  BY <1>1, <1>6 DEF Moved, Same, Known
<1>7. ASSUME NEW r \in Requests, Crash(r) PROVE TypeInv'
  <2>1. left' \subseteq drawn
    BY <1>1, <1>7, CrashDoes, Fields DEF Verifying
  <2>2. QED
    BY <1>1, <1>2, <1>5, <1>7, <2>1, CrashDoes, TypeClose
<1>8. CASE Expire
  BY <1>8 DEF Expire, TypeInv, TypeOK, Known, Stored
<1>9. CASE DeleteAccount
  <2>1. Stored' = {}
    BY <1>9, DeleteAccountDoes DEF Stored
  <2>2. QED
    BY <1>1, <1>9, <2>1, DeleteAccountDoes DEF TypeInv, TypeOK, Known
<1>10. ASSUME NEW b \in BOOLEAN, Block(b) PROVE TypeInv'
  <2>1. Stored' = Stored
    BY <1>10, BlockDoes DEF Stored
  <2>2. QED
    BY <1>1, <1>10, <2>1, BlockDoes DEF TypeInv, TypeOK, Known
<1>11. ASSUME NEW r \in Requests, Arrive(r) PROVE TypeInv'
  <2>1. CASE StartRegOptions(r) \/ StartLoginOptions(r)
    <3>1. Silent /\ Alone(r) /\ req'[r].op \notin Verifying /\ req'[r].expected = None
      BY <2>1, StartDoes
    <3>2. QED
      BY <1>4, <3>1 DEF Known
  <2>2. ASSUME NEW c \in Credentials, NEW ch \in drawn, NEW n \in Counts, StartRegVerify(r, c, ch, n)
        PROVE  TypeInv'
    <3>1. /\ Silent /\ Alone(r) /\ req'[r].op = "reg_verify" /\ req'[r].cred = c
          /\ req'[r].ch = ch /\ req'[r].expected = None
      BY <2>2, StartDoes
    <3>2. Known(req[r])'
      BY <3>1 DEF Known, Silent
    <3>3. QED
      BY <1>4, <3>1, <3>2
  <2>3. ASSUME NEW c \in Credentials, NEW ch \in drawn, NEW n \in Counts, StartLoginVerify(r, c, ch, n)
        PROVE  TypeInv'
    <3>1. /\ UNCHANGED <<store, reg, auth, drawn, accepted, left>> /\ Alone(r)
          /\ req'[r].cred = c /\ req'[r].ch = ch /\ req'[r].expected = None
          /\ mixed' \in SUBSET Credentials
      BY <2>3, StartDoes
    <3>2. Known(req[r])'
      BY <3>1 DEF Known
    <3>3. QED
      BY <1>1, <1>2, <3>1, <3>2, TypeClose
  <2>4. QED
    BY <1>11, <2>1, <2>2, <2>3 DEF Arrive
<1>12. ASSUME NEW r \in Requests, HandlerStep(r) PROVE TypeInv'
  <2>1. CASE RegAccount(r) \/ LoginOptionsAccount(r) \/ LoginOptionsKeys(r) \/ LoginAccount(r)
    <3>1. Silent /\ (Ended(r) \/ \E pc : Moved(r, pc))
      BY <2>1, WalkDoes
    <3>2. QED
      BY <1>4, <1>5, <1>6, <3>1 DEF Silent
  <2>2. CASE StoreRegChallenge(r) \/ StoreAuthChallenge(r)
    <3>1. PICK ch \in Challenges \ drawn :
            /\ drawn' = drawn \cup {ch}
            /\ (reg' = ch /\ auth' = auth) \/ (auth' = ch /\ reg' = reg)
      BY <2>2, StoreChallengeDoes
    <3>2. Ended(r) /\ UNCHANGED <<store, accepted, mixed, left>>
      BY <2>2, StoreChallengeDoes
    <3>3. QED
      BY <1>1, <1>2, <1>5, <3>1, <3>2, TypeClose
  <2>3. ASSUME NEW pc, NEW ch \in drawn, Expects(r, pc, ch), Silent PROVE TypeInv'
    <3>1. Known(req[r])'
      BY <1>1, <2>3 DEF Expects, Known, Silent
    <3>2. QED
      BY <1>4, <2>3, <3>1 DEF Expects
  <2>4. CASE RegChallenge(r)
    BY <1>4, <1>5, <2>3, <2>4, RegChallengeDoes
  <2>5. CASE LoginChallenge(r)
    BY <1>4, <1>5, <2>3, <2>5, LoginChallengeDoes
  <2>6. CASE StoreKey(r)
    <3>1. CASE Ended(r) /\ UNCHANGED store
      BY <1>1, <1>2, <1>5, <2>6, <3>1, StoreKeyDoes, TypeClose
    <3>2. CASE ~(Ended(r) /\ UNCHANGED store)
      <4>1. /\ Moved(r, "cleanup") /\ account.exists
            /\ account' \in [exists : BOOLEAN, blocked : BOOLEAN, enabled : BOOLEAN]
            /\ account'.exists = account.exists /\ account'.enabled = TRUE
            /\ keys' \in [Credentials -> Counts \cup {None}]
            /\ keys'[req[r].cred] = req[r].count /\ req[r].cred \in Credentials
        BY <2>6, <3>2, StoreKeyDoes, Fields DEF Verifying
      <4>2. req[r].cred \in Stored'
        BY <4>1, Fields, PasskeyAssumption DEF Stored
      <4>3. StoreOK'
        BY <4>1, <4>2 DEF StoreOK
      <4>4. UNCHANGED <<reg, auth, drawn, accepted, mixed, left>>
        BY <2>6, StoreKeyDoes
      <4>5. QED
        BY <1>1, <1>6, <4>1, <4>3, <4>4, TypeClose
    <3>3. QED
      BY <3>1, <3>2
  <2>7. CASE RegCleanup(r)
    BY <1>1, <1>2, <1>5, <2>7, RegCleanupDoes, TypeClose
  <2>8. CASE LoginKey(r)
    BY <1>4, <1>5, <1>6, <2>8, LoginKeyDoes DEF Silent
  <2>9. CASE SignIn(r)
    <3>1. UNCHANGED <<account, reg, auth, drawn, mixed, left>> /\ req[r].op = "login_verify"
      BY <2>9, SignInDoes
    <3>2. CASE Ended(r) /\ UNCHANGED <<keys, accepted>>
      BY <1>1, <1>2, <1>5, <3>1, <3>2, TypeClose
    <3>3. CASE ~(Ended(r) /\ UNCHANGED <<keys, accepted>>)
      <4>1. /\ Moved(r, "cleanup") /\ req[r].cred \in Stored
            /\ accepted' = accepted \cup {Assertion(r)}
            /\ keys' \in [Credentials -> Counts \cup {None}]
            /\ \A c \in Credentials :
                 keys'[c] = IF c = req[r].cred /\ req[r].count # 0 THEN req[r].count ELSE keys[c]
        BY <2>9, <3>3, SignInDoes
      <4>2. req[r].cred \in Credentials /\ req[r].ch \in Challenges /\ req[r].count \in Counts
            /\ req[r].count \in Nat
        BY <3>1, Fields DEF Verifying
      <4>3. Assertion(r) \in Assertions
        BY <4>2 DEF Assertion, Assertions
      <4>4. Stored' = Stored
        BY <4>1, <4>2, PasskeyAssumption DEF Stored
      <4>5. StoreOK'
        BY <1>1, <3>1, <4>1, <4>4 DEF StoreOK
      <4>6. QED
        BY <1>1, <1>6, <3>1, <4>1, <4>3, <4>5, TypeClose
    <3>4. QED
      BY <3>2, <3>3
  <2>10. CASE LoginCleanup(r)
    <3>1. left' \subseteq drawn
      BY <1>1, <2>10, LoginCleanupDoes, Fields DEF Verifying
    <3>2. QED
      BY <1>1, <1>2, <1>5, <2>10, <3>1, LoginCleanupDoes, TypeClose
  <2>11. QED
    BY <1>12, <2>1, <2>2, <2>4, <2>5, <2>6, <2>7, <2>8, <2>9, <2>10 DEF HandlerStep
<1>13. QED
  BY <1>3, <1>7, <1>8, <1>9, <1>10, <1>11, <1>12 DEF Next

\* Every variable of Passkey always has its type, and an account is enabled exactly when
\* it has a passkey.
THEOREM TypeCorrect == Spec => []TypeOK
<1>1. TypeInv => TypeOK
  BY DEF TypeInv
<1>2. QED
  BY <1>1, TypeInit, TypeStep, PTL DEF Spec

-----------------------------------------------------------------------------
(* A cloned authenticator is caught *)

\* A record of a sign-in.
SigningIn(q) == q.op = "login_verify"

\* Sign-ins with one credential overlap only when it is mixed.
Apart ==
    \A r, s \in Requests : r # s /\ SigningIn(req[r]) /\ SigningIn(req[s]) /\ req[r].cred = req[s].cred
        => req[r].cred \in mixed

\* A credential that has signed in is stored while the account is there.
SignedInIsStored == \A a \in accepted : account.exists => a.cred \in Stored

\* The stored counter is the highest one accepted.
CounterIsHighest ==
    \A a \in accepted : a.cred \in Stored /\ a.cred \notin mixed => a.count <= keys[a.cred]

\* What keeps a clone out: the counter of a sign-in that is verified exceeds the stored
\* one, and that one is the highest of those accepted.
CountInv == Apart /\ SignedInIsStored /\ CounterIsHighest /\ CloneIsCaughtAlone

\* A free handler signs nobody in.
LEMMA IdleSignsNobodyIn == ~SigningIn(Idle)
BY DEF SigningIn, Idle

\* Handler r begins no sign-in and reaches no commit.
Quiet(r) ==
    /\ Alone(r)
    /\ SigningIn(req'[r]) =>
         /\ SigningIn(req[r]) /\ req'[r].cred = req[r].cred
         /\ req'[r].pc # "commit"

\* An ended handler is quiet.
LEMMA EndedIsQuiet ==
    ASSUME NEW r \in Requests, Ended(r)
    PROVE  Quiet(r)
BY IdleSignsNobodyIn DEF Ended, Quiet

\* So is one that moves anywhere but to its commit.
LEMMA MovedIsQuiet ==
    ASSUME NEW r \in Requests, NEW pc, Moved(r, pc), pc # "commit"
    PROVE  Quiet(r)
BY DEF Moved, Same, Quiet, SigningIn

\* Apart is a matter of who signs in with what.
LEMMA ApartKept ==
    ASSUME Apart, NEW r \in Requests, Alone(r), mixed \subseteq mixed',
           SigningIn(req'[r]) => SigningIn(req[r]) /\ req'[r].cred = req[r].cred
    PROVE  Apart'
<1> SUFFICES ASSUME NEW s \in Requests, NEW t \in Requests, s # t,
                    SigningIn(req'[s]), SigningIn(req'[t]), req'[s].cred = req'[t].cred
             PROVE  req'[s].cred \in mixed'
  BY DEF Apart, SigningIn
<1>1. /\ SigningIn(req[s]) /\ req'[s].cred = req[s].cred
      /\ SigningIn(req[t]) /\ req'[t].cred = req[t].cred
  BY DEF Alone
<1>2. QED
  BY <1>1 DEF Apart

\* What is left to show of a step that is quiet and accepts nothing.
LEMMA CountKept ==
    ASSUME TypeInv, CountInv, NEW r \in Requests, Quiet(r),
           accepted' = accepted, mixed \subseteq mixed', keys' = keys, account' = account
    PROVE  CountInv'
<1>1. Apart'
  BY ApartKept DEF CountInv, Quiet
<1>2. SignedInIsStored'
  BY DEF CountInv, SignedInIsStored, Stored
<1>3. CounterIsHighest'
  BY DEF CountInv, CounterIsHighest, Stored
<1>4. CloneIsCaughtAlone'
  <2> SUFFICES ASSUME NEW s \in Requests, Accepts(s)', req'[s].cred \notin mixed',
                      NEW a \in accepted, a.cred = req'[s].cred
               PROVE  a.count < req'[s].count \/ (a.count = 0 /\ req'[s].count = 0)
    BY DEF CloneIsCaughtAlone
  <2>1. s # r
    BY DEF Quiet, Accepts, At, SigningIn
  <2>2. req'[s] = req[s]
    BY <2>1 DEF Quiet, Alone
  <2>3. Accepts(s) /\ req[s].cred \notin mixed /\ a.cred = req[s].cred
    BY <2>2 DEF Accepts, At
  <2>4. QED
    BY <2>2, <2>3 DEF CountInv, CloneIsCaughtAlone
<1>5. QED
  BY <1>1, <1>2, <1>3, <1>4 DEF CountInv

\* Nobody has signed in at the start.
LEMMA CountInit == Init => CountInv
BY IdleSignsNobodyIn DEF Init, CountInv, Apart, SignedInIsStored, CounterIsHighest,
   CloneIsCaughtAlone

\* A sign-in that begins beside another with its credential mixes it.
LEMMA CountStart ==
    ASSUME TypeInv, CountInv, NEW r \in Requests, NEW c \in Credentials, NEW ch \in drawn,
           NEW n \in Counts, StartLoginVerify(r, c, ch, n)
    PROVE  CountInv'
<1>1. /\ UNCHANGED <<account, keys, accepted>> /\ Alone(r) /\ mixed \subseteq mixed'
      /\ req'[r].op = "login_verify" /\ req'[r].pc = "challenge" /\ req'[r].cred = c
      /\ \A s \in Requests : req[s].op = "login_verify" /\ req[s].cred = c => c \in mixed'
  BY StartDoes DEF store
<1>2. Apart'
  <2> SUFFICES ASSUME NEW s \in Requests, NEW t \in Requests, s # t,
                      SigningIn(req'[s]), SigningIn(req'[t]), req'[s].cred = req'[t].cred
               PROVE  req'[s].cred \in mixed'
    BY DEF Apart, SigningIn
  <2>1. CASE s = r \/ t = r
    <3>1. PICK u \in {s, t} : u # r
      OBVIOUS
    <3>2. req[u].op = "login_verify" /\ req[u].cred = c
      BY <1>1, <2>1, <3>1 DEF Alone, SigningIn
    <3>3. QED
      BY <1>1, <2>1, <3>2
  <2>2. CASE s # r /\ t # r
    BY <1>1, <2>2 DEF Alone, CountInv, Apart
  <2>3. QED
    BY <2>1, <2>2
<1>3. SignedInIsStored' /\ CounterIsHighest'
  BY <1>1 DEF CountInv, SignedInIsStored, CounterIsHighest, Stored
<1>4. CloneIsCaughtAlone'
  <2> SUFFICES ASSUME NEW s \in Requests, Accepts(s)', req'[s].cred \notin mixed',
                      NEW a \in accepted, a.cred = req'[s].cred
               PROVE  a.count < req'[s].count \/ (a.count = 0 /\ req'[s].count = 0)
    BY <1>1 DEF CloneIsCaughtAlone
  <2>1. req'[s] = req[s]
    BY <1>1 DEF Accepts, At, Alone
  <2>2. Accepts(s) /\ req[s].cred \notin mixed /\ a.cred = req[s].cred
    BY <1>1, <2>1 DEF Accepts, At
  <2>3. QED
    BY <2>1, <2>2 DEF CountInv, CloneIsCaughtAlone
<1>5. QED
  BY <1>2, <1>3, <1>4 DEF CountInv

\* A key is stored that nobody has signed in with.
LEMMA CountStoreKey ==
    ASSUME TypeInv, CountInv, NEW r \in Requests, StoreKey(r)
    PROVE  CountInv'
<1>1. req[r].op = "reg_verify" /\ accepted' = accepted /\ mixed' = mixed
  BY StoreKeyDoes DEF history
<1>2. CASE Ended(r) /\ UNCHANGED store
  BY <1>1, <1>2, EndedIsQuiet, CountKept DEF store
<1>3. CASE ~(Ended(r) /\ UNCHANGED store)
  <2>1. /\ Moved(r, "cleanup") /\ account.exists /\ req[r].cred \notin Stored
        /\ account'.exists = account.exists
        /\ \A c \in Credentials :
             keys'[c] = IF c = req[r].cred THEN req[r].count ELSE keys[c]
    BY <1>3, StoreKeyDoes
  <2>2. Quiet(r)
    BY <2>1, MovedIsQuiet
  <2>3. \A a \in accepted : a.cred \in Stored /\ a.cred # req[r].cred
    BY <2>1 DEF CountInv, SignedInIsStored
  <2>4. \A a \in accepted : a.cred \in Stored' /\ keys'[a.cred] = keys[a.cred]
    BY <2>1, <2>3 DEF Stored
  <2>5. Apart'
    BY <1>1, <2>2, ApartKept DEF CountInv, Quiet
  <2>6. SignedInIsStored' /\ CounterIsHighest'
    BY <1>1, <2>3, <2>4 DEF CountInv, SignedInIsStored, CounterIsHighest
  <2>7. CloneIsCaughtAlone'
    <3> SUFFICES ASSUME NEW s \in Requests, Accepts(s)', req'[s].cred \notin mixed',
                        NEW a \in accepted, a.cred = req'[s].cred
                 PROVE  a.count < req'[s].count \/ (a.count = 0 /\ req'[s].count = 0)
      BY <1>1 DEF CloneIsCaughtAlone
    <3>1. s # r
      BY <2>2 DEF Quiet, Accepts, At, SigningIn
    <3>2. req'[s] = req[s]
      BY <2>2, <3>1 DEF Quiet, Alone
    <3>3. Accepts(s) /\ req[s].cred \notin mixed /\ a.cred = req[s].cred
      BY <1>1, <3>2 DEF Accepts, At
    <3>4. QED
      BY <3>2, <3>3 DEF CountInv, CloneIsCaughtAlone
  <2>8. QED
    BY <2>5, <2>6, <2>7 DEF CountInv
<1>4. QED
  BY <1>2, <1>3

\* An assertion is verified: its counter exceeds the stored one, and so those accepted.
LEMMA CountVerify ==
    ASSUME TypeInv, CountInv, NEW r \in Requests, LoginKey(r)
    PROVE  CountInv'
<1>1. UNCHANGED <<account, keys, accepted, mixed>> /\ req[r].op = "login_verify"
  BY LoginKeyDoes DEF Silent, store, history
<1>2. CASE Ended(r)
  BY <1>1, <1>2, EndedIsQuiet, CountKept
<1>3. CASE ~Ended(r)
  <2>1. /\ Moved(r, "commit") /\ req[r].cred \in Stored
        /\ req[r].count > keys[req[r].cred] \/ (req[r].count = 0 /\ keys[req[r].cred] = 0)
    BY <1>3, LoginKeyDoes
  <2>2. Apart'
    BY <1>1, <2>1, ApartKept DEF CountInv, Moved, Same, SigningIn
  <2>3. SignedInIsStored' /\ CounterIsHighest'
    BY <1>1 DEF CountInv, SignedInIsStored, CounterIsHighest, Stored
  <2>4. CloneIsCaughtAlone'
    <3> SUFFICES ASSUME NEW s \in Requests, Accepts(s)', req'[s].cred \notin mixed,
                        NEW a \in accepted, a.cred = req'[s].cred
                 PROVE  a.count < req'[s].count \/ (a.count = 0 /\ req'[s].count = 0)
      BY <1>1 DEF CloneIsCaughtAlone
    <3>1. CASE s = r
      <4>1. req'[s].count = req[r].count /\ a.cred = req[r].cred /\ a.cred \notin mixed
        BY <2>1, <3>1 DEF Moved, Same
      <4>2. a.count <= keys[req[r].cred]
        BY <2>1, <4>1 DEF CountInv, CounterIsHighest
      <4>3. a.count \in Nat /\ req[r].count \in Nat /\ keys[req[r].cred] \in Nat
        BY <1>1, <2>1, Fields, StoredCounts DEF Verifying, TypeInv, TypeOK, Assertions, Counts
      <4>4. QED
        BY <2>1, <4>1, <4>2, <4>3
    <3>2. CASE s # r
      <4>1. req'[s] = req[s]
        BY <2>1, <3>2 DEF Moved, Alone
      <4>2. Accepts(s) /\ req[s].cred \notin mixed /\ a.cred = req[s].cred
        BY <4>1 DEF Accepts, At
      <4>3. QED
        BY <4>1, <4>2 DEF CountInv, CloneIsCaughtAlone
    <3>3. QED
      BY <3>1, <3>2
  <2>5. QED
    BY <2>2, <2>3, <2>4 DEF CountInv
<1>4. QED
  BY <1>2, <1>3

\* A sign-in is accepted: its counter is the highest now, and nobody else is about to sign
\* in with its credential.
LEMMA CountSignIn ==
    ASSUME TypeInv, CountInv, NEW r \in Requests, SignIn(r)
    PROVE  CountInv'
<1>1. /\ req[r].op = "login_verify" /\ req[r].pc = "commit"
      /\ account' = account /\ mixed' = mixed
  BY SignInDoes
<1>2. CASE Ended(r) /\ UNCHANGED <<keys, accepted>>
  BY <1>1, <1>2, EndedIsQuiet, CountKept
<1>3. CASE ~(Ended(r) /\ UNCHANGED <<keys, accepted>>)
  <2>1. /\ Moved(r, "cleanup") /\ req[r].cred \in Stored
        /\ accepted' = accepted \cup {Assertion(r)}
        /\ \A c \in Credentials :
             keys'[c] = IF c = req[r].cred /\ req[r].count # 0 THEN req[r].count ELSE keys[c]
    BY <1>3, SignInDoes
  <2>2. req[r].cred \in Credentials /\ req[r].count \in Nat /\ Quiet(r)
    BY <1>1, <2>1, Fields, MovedIsQuiet DEF Verifying
  <2>3. Assertion(r).cred = req[r].cred /\ Assertion(r).count = req[r].count
    BY DEF Assertion
  <2>4. Stored' = Stored
    BY <2>1, <2>2, PasskeyAssumption DEF Stored
  <2>5. Apart'
    BY <1>1, <2>2, ApartKept DEF CountInv, Quiet
  <2>6. SignedInIsStored'
    BY <1>1, <2>1, <2>3, <2>4 DEF CountInv, SignedInIsStored
  <2>7. CounterIsHighest'
    <3> SUFFICES ASSUME NEW a \in accepted', a.cred \in Stored, a.cred \notin mixed
                 PROVE  a.count <= keys'[a.cred]
      BY <1>1, <2>4 DEF CounterIsHighest
    <3>1. CASE a = Assertion(r)
      <4>1. keys[req[r].cred] \in Nat
        BY <2>1, <2>2, StoredCounts
      <4>2. QED
        BY <2>1, <2>2, <2>3, <3>1, <4>1
    <3>2. CASE a \in accepted
      <4>1. a.count \in Nat /\ a.cred \in Credentials
        BY <3>2 DEF TypeInv, TypeOK, Assertions, Counts
      <4>2. a.count <= keys[a.cred]
        BY <3>2 DEF CountInv, CounterIsHighest
      <4>3. a.cred = req[r].cred => a.count <= req[r].count
        BY <1>1, <2>2, <3>2, <4>1 DEF CountInv, CloneIsCaughtAlone, Accepts, At
      <4>4. QED
        BY <2>1, <4>1, <4>2, <4>3
    <3>3. QED
      BY <2>1, <3>1, <3>2
  <2>8. CloneIsCaughtAlone'
    <3> SUFFICES ASSUME NEW s \in Requests, Accepts(s)', req'[s].cred \notin mixed,
                        NEW a \in accepted', a.cred = req'[s].cred
                 PROVE  a.count < req'[s].count \/ (a.count = 0 /\ req'[s].count = 0)
      BY <1>1 DEF CloneIsCaughtAlone
    <3>1. s # r
      BY <2>2 DEF Quiet, Accepts, At, SigningIn
    <3>2. req'[s] = req[s]
      BY <2>2, <3>1 DEF Quiet, Alone
    <3>3. Accepts(s) /\ req[s].cred \notin mixed /\ a.cred = req[s].cred
      BY <3>2 DEF Accepts, At
    <3>4. a # Assertion(r)
      BY <1>1, <2>3, <3>1, <3>3 DEF CountInv, Apart, SigningIn, Accepts, At
    <3>5. QED
      BY <2>1, <3>2, <3>3, <3>4 DEF CountInv, CloneIsCaughtAlone
  <2>9. QED
    BY <2>5, <2>6, <2>7, <2>8 DEF CountInv
<1>4. QED
  BY <1>2, <1>3

\* The passkeys go with the account, and nobody stores one again.
LEMMA CountDelete ==
    ASSUME TypeInv, CountInv, DeleteAccount
    PROVE  CountInv'
<1>1. /\ account'.exists = FALSE /\ UNCHANGED <<req, accepted, mixed>>
      /\ \A c \in Credentials : keys'[c] = None
  BY DeleteAccountDoes DEF history
<1>2. Stored' = {}
  BY <1>1 DEF Stored
<1>3. QED
  BY <1>1, <1>2 DEF CountInv, Apart, SignedInIsStored, CounterIsHighest, CloneIsCaughtAlone,
                    Accepts, At

\* Every step keeps the clones out.
LEMMA CountStep == TypeInv /\ CountInv /\ [Next]_vars => CountInv'
<1> SUFFICES ASSUME TypeInv, CountInv, [Next]_vars PROVE CountInv'
  OBVIOUS
<1> USE DEF store, history
<1>1. ASSUME UNCHANGED <<keys, req, accepted, mixed>>, account'.exists = account.exists
      PROVE  CountInv'
  BY <1>1 DEF CountInv, Apart, SignedInIsStored, CounterIsHighest, CloneIsCaughtAlone,
              Accepts, At, Stored
<1>2. CASE UNCHANGED vars
  BY <1>1, <1>2 DEF vars
<1>3. CASE Expire
  BY <1>1, <1>3 DEF Expire
<1>4. ASSUME NEW b \in BOOLEAN, Block(b) PROVE CountInv'
  BY <1>1, <1>4, BlockDoes
<1>5. ASSUME NEW r \in Requests, Crash(r) PROVE CountInv'
  BY <1>5, CrashDoes, EndedIsQuiet, CountKept
<1>6. ASSUME NEW r \in Requests, Arrive(r) PROVE CountInv'
  <2>1. CASE StartRegOptions(r) \/ StartLoginOptions(r)
    <3>1. Silent /\ Quiet(r)
      BY <2>1, StartDoes DEF Quiet, SigningIn, Verifying
    <3>2. QED
      BY <3>1, CountKept DEF Silent
  <2>2. ASSUME NEW c \in Credentials, NEW ch \in drawn, NEW n \in Counts, StartRegVerify(r, c, ch, n)
        PROVE  CountInv'
    <3>1. Silent /\ Quiet(r)
      BY <2>2, StartDoes DEF Quiet, SigningIn
    <3>2. QED
      BY <3>1, CountKept DEF Silent
  <2>3. QED
    BY <1>6, <2>1, <2>2, CountStart DEF Arrive
<1>7. ASSUME NEW r \in Requests, HandlerStep(r) PROVE CountInv'
  <2>1. CASE RegAccount(r) \/ LoginOptionsAccount(r) \/ LoginOptionsKeys(r) \/ LoginAccount(r)
    <3>1. Silent /\ (Ended(r) \/ \E pc \in {"store", "keys", "key"} : Moved(r, pc))
      BY <2>1, WalkDoes
    <3>2. Quiet(r)
      BY <3>1, EndedIsQuiet, MovedIsQuiet
    <3>3. QED
      BY <3>1, <3>2, CountKept DEF Silent
  <2>2. CASE StoreRegChallenge(r) \/ StoreAuthChallenge(r)
    BY <2>2, StoreChallengeDoes, EndedIsQuiet, CountKept
  <2>3. CASE RegChallenge(r)
    <3>1. Silent /\ Quiet(r)
      BY <2>3, RegChallengeDoes, EndedIsQuiet DEF Expects, Quiet, SigningIn
    <3>2. QED
      BY <3>1, CountKept DEF Silent
  <2>4. CASE LoginChallenge(r)
    <3>1. Silent /\ Quiet(r)
      BY <2>4, LoginChallengeDoes, EndedIsQuiet DEF Expects, Quiet, SigningIn
    <3>2. QED
      BY <3>1, CountKept DEF Silent
  <2>5. CASE RegCleanup(r)
    BY <2>5, RegCleanupDoes, EndedIsQuiet, CountKept
  <2>6. CASE LoginCleanup(r)
    BY <2>6, LoginCleanupDoes, EndedIsQuiet, CountKept
  <2>7. QED
    BY <1>7, <2>1, <2>2, <2>3, <2>4, <2>5, <2>6, CountStoreKey, CountVerify, CountSignIn
       DEF HandlerStep
<1>8. QED
  BY <1>2, <1>3, <1>4, <1>5, <1>6, <1>7, CountDelete DEF Next

\* A clone is caught: unless sign-ins with its credential overlapped, the counter of an
\* assertion about to be committed is above every one accepted before, or neither counts.
THEOREM ClonesAreCaught == Spec => []CloneIsCaughtAlone
<1>1. CountInv => CloneIsCaughtAlone
  BY DEF CountInv
<1>2. QED
  BY <1>1, TypeInit, TypeStep, CountInit, CountStep, PTL DEF Spec

-----------------------------------------------------------------------------
(* An assertion signs in once *)

\* A sign-in that was verified answers the challenge it read.
VerifiedAnswers ==
    \A r \in Requests :
        SigningIn(req[r]) /\ req[r].pc \in {"commit", "cleanup"} => req[r].ch = req[r].expected

\* The challenge of assertion a is out of reach of sign-ins with its credential: the key
\* does not hold it, and none of them has read it.
Consumed(a) ==
    /\ auth # a.ch
    /\ \A r \in Requests : SigningIn(req[r]) /\ req[r].cred = a.cred => req[r].expected # a.ch

\* A sign-in is about to delete the challenge of assertion a.
Deleting(a) ==
    \E s \in Requests :
        /\ SigningIn(req[s]) /\ req[s].pc = "cleanup"
        /\ req[s].cred = a.cred /\ req[s].ch = a.ch

\* An accepted assertion's challenge is being deleted, or is out of reach.
AcceptedIsConsumed ==
    \A a \in accepted : a.cred \notin mixed /\ a.ch \notin left => Deleting(a) \/ Consumed(a)

OnceInv ==
    /\ \A a \in accepted : a.ch \in drawn
    /\ VerifiedAnswers /\ AcceptedIsConsumed

\* Handler r is no sign-in about to delete its challenge, nor one that begins, reads its
\* challenge or is verified.
Calm(r) ==
    /\ Alone(r) /\ ~(SigningIn(req[r]) /\ req[r].pc = "cleanup")
    /\ SigningIn(req'[r]) =>
         /\ req'[r].pc \notin {"commit", "cleanup"}
         /\ \/ req'[r].expected = None
            \/ /\ SigningIn(req[r]) /\ req'[r].cred = req[r].cred
               /\ req'[r].expected = req[r].expected

\* An accepted assertion that handler r does not delete is deleted still.
LEMMA DeletingKept ==
    ASSUME NEW a, NEW r \in Requests, Deleting(a), Alone(r),
           ~(SigningIn(req[r]) /\ req[r].pc = "cleanup" /\ req[r].ch = a.ch)
    PROVE  Deleting(a)'
<1>1. PICK s \in Requests : /\ SigningIn(req[s]) /\ req[s].pc = "cleanup"
                            /\ req[s].cred = a.cred /\ req[s].ch = a.ch
  BY DEF Deleting
<1>2. req'[s] = req[s]
  BY <1>1 DEF Alone
<1>3. QED
  BY <1>1, <1>2 DEF Deleting, SigningIn

\* A challenge that is out of reach stays there while r reads none.
LEMMA ConsumedKept ==
    ASSUME NEW a, NEW r \in Requests, Consumed(a), Alone(r), auth' # a.ch,
           SigningIn(req'[r]) /\ req'[r].cred = a.cred => req'[r].expected # a.ch
    PROVE  Consumed(a)'
BY DEF Consumed, Alone, SigningIn

\* What is left to show of a calm step that accepts nothing.
LEMMA OnceKept ==
    ASSUME TypeInv, OnceInv, NEW r \in Requests, Calm(r), accepted' = accepted,
           mixed \subseteq mixed', left \subseteq left', drawn \subseteq drawn',
           auth' \in {auth, None} \/ auth' \notin drawn
    PROVE  OnceInv'
<1>1. \A a \in accepted' : a.ch \in drawn'
  BY DEF OnceInv
<1>2. VerifiedAnswers'
  <2> SUFFICES ASSUME NEW s \in Requests, SigningIn(req'[s]), req'[s].pc \in {"commit", "cleanup"}
               PROVE  req'[s].ch = req'[s].expected
    BY DEF VerifiedAnswers, SigningIn
  <2>1. req'[s] = req[s]
    BY DEF Calm, Alone
  <2>2. QED
    BY <2>1 DEF OnceInv, VerifiedAnswers
<1>3. AcceptedIsConsumed'
  <2> SUFFICES ASSUME NEW a \in accepted, a.cred \notin mixed, a.ch \notin left
               PROVE  Deleting(a)' \/ Consumed(a)'
    BY DEF AcceptedIsConsumed
  <2>1. a.ch \in drawn /\ a.ch # None
    BY PasskeyAssumption DEF OnceInv, TypeInv, TypeOK
  <2>2. CASE Deleting(a)
    BY <2>2, DeletingKept DEF Calm
  <2>3. CASE Consumed(a)
    <3>1. auth' # a.ch
      BY <2>1, <2>3 DEF Consumed
    <3>2. SigningIn(req'[r]) /\ req'[r].cred = a.cred => req'[r].expected # a.ch
      BY <2>1, <2>3 DEF Consumed, Calm
    <3>3. QED
      BY <2>3, <3>1, <3>2, ConsumedKept DEF Calm
  <2>4. QED
    BY <2>2, <2>3 DEF OnceInv, AcceptedIsConsumed
<1>4. QED
  BY <1>1, <1>2, <1>3 DEF OnceInv

\* Nothing was accepted at the start.
LEMMA OnceInit == Init => OnceInv
BY IdleSignsNobodyIn DEF Init, OnceInv, VerifiedAnswers, AcceptedIsConsumed

\* A sign-in reads the challenge the key holds, which is that of no assertion accepted,
\* but those whose deletion is to come.
LEMMA OnceChallenge ==
    ASSUME TypeInv, OnceInv, NEW r \in Requests, LoginChallenge(r)
    PROVE  OnceInv'
<1>1. /\ UNCHANGED <<auth, drawn, accepted, mixed, left>> /\ SigningIn(req[r])
      /\ req[r].pc = "challenge"
  BY LoginChallengeDoes DEF Silent, history, SigningIn, LoginChallenge, At
<1>2. CASE Ended(r)
  <2>1. Calm(r)
    BY <1>1, <1>2, IdleSignsNobodyIn DEF Calm, Ended
  <2>2. QED
    BY <1>1, <2>1, OnceKept
<1>3. CASE ~Ended(r)
  <2>1. /\ Alone(r) /\ req'[r].pc = "account" /\ req'[r].expected = auth
        /\ req'[r].op = req[r].op /\ req'[r].cred = req[r].cred
    BY <1>3, LoginChallengeDoes DEF Expects
  <2>2. VerifiedAnswers'
    <3> SUFFICES ASSUME NEW s \in Requests, SigningIn(req'[s]), req'[s].pc \in {"commit", "cleanup"}
                 PROVE  req'[s].ch = req'[s].expected
      BY DEF VerifiedAnswers, SigningIn
    <3>1. req'[s] = req[s]
      BY <2>1 DEF Alone
    <3>2. QED
      BY <3>1 DEF OnceInv, VerifiedAnswers
  <2>3. AcceptedIsConsumed'
    <3> SUFFICES ASSUME NEW a \in accepted, a.cred \notin mixed, a.ch \notin left
                 PROVE  Deleting(a)' \/ Consumed(a)'
      BY <1>1 DEF AcceptedIsConsumed
    <3>1. CASE Deleting(a)
      BY <1>1, <2>1, <3>1, DeletingKept
    <3>2. CASE Consumed(a)
      BY <1>1, <2>1, <3>2, ConsumedKept DEF Consumed
    <3>3. QED
      BY <3>1, <3>2 DEF OnceInv, AcceptedIsConsumed
  <2>4. QED
    BY <1>1, <2>2, <2>3 DEF OnceInv
<1>4. QED
  BY <1>2, <1>3

\* A sign-in is verified: its response is to the challenge it read.
LEMMA OnceVerify ==
    ASSUME TypeInv, OnceInv, NEW r \in Requests, LoginKey(r)
    PROVE  OnceInv'
<1>1. /\ UNCHANGED <<auth, drawn, accepted, mixed, left>> /\ SigningIn(req[r])
      /\ req[r].pc = "key"
  BY LoginKeyDoes DEF Silent, history, SigningIn
<1>2. CASE Ended(r)
  <2>1. Calm(r)
    BY <1>1, <1>2, IdleSignsNobodyIn DEF Calm, Ended
  <2>2. QED
    BY <1>1, <2>1, OnceKept
<1>3. CASE ~Ended(r)
  <2>1. Moved(r, "commit") /\ req[r].ch = req[r].expected
    BY <1>3, LoginKeyDoes
  <2>2. VerifiedAnswers'
    <3> SUFFICES ASSUME NEW s \in Requests, SigningIn(req'[s]), req'[s].pc \in {"commit", "cleanup"}
                 PROVE  req'[s].ch = req'[s].expected
      BY DEF VerifiedAnswers, SigningIn
    <3>1. CASE s = r
      BY <2>1, <3>1 DEF Moved, Same
    <3>2. CASE s # r
      <4>1. req'[s] = req[s]
        BY <2>1, <3>2 DEF Moved, Alone
      <4>2. QED
        BY <4>1 DEF OnceInv, VerifiedAnswers
    <3>3. QED
      BY <3>1, <3>2
  <2>3. AcceptedIsConsumed'
    <3> SUFFICES ASSUME NEW a \in accepted, a.cred \notin mixed, a.ch \notin left
                 PROVE  Deleting(a)' \/ Consumed(a)'
      BY <1>1 DEF AcceptedIsConsumed
    <3>1. CASE Deleting(a)
      BY <1>1, <2>1, <3>1, DeletingKept DEF Moved
    <3>2. CASE Consumed(a)
      BY <1>1, <2>1, <3>2, ConsumedKept DEF Consumed, Moved, Same, SigningIn
    <3>3. QED
      BY <3>1, <3>2 DEF OnceInv, AcceptedIsConsumed
  <2>4. QED
    BY <1>1, <2>2, <2>3 DEF OnceInv
<1>4. QED
  BY <1>2, <1>3

\* A sign-in is accepted, and is to delete its challenge.
LEMMA OnceSignIn ==
    ASSUME TypeInv, OnceInv, NEW r \in Requests, SignIn(r)
    PROVE  OnceInv'
<1>1. /\ UNCHANGED <<auth, drawn, mixed, left>> /\ SigningIn(req[r]) /\ req[r].pc = "commit"
  BY SignInDoes DEF SigningIn
<1>2. CASE Ended(r) /\ UNCHANGED <<keys, accepted>>
  <2>1. Calm(r)
    BY <1>1, <1>2, IdleSignsNobodyIn DEF Calm, Ended
  <2>2. QED
    BY <1>1, <1>2, <2>1, OnceKept
<1>3. CASE ~(Ended(r) /\ UNCHANGED <<keys, accepted>>)
  <2>1. Moved(r, "cleanup") /\ accepted' = accepted \cup {Assertion(r)}
    BY <1>3, SignInDoes
  <2>2. /\ req[r].ch \in drawn /\ req[r].ch = req[r].expected
        /\ Assertion(r).ch = req[r].ch /\ Assertion(r).cred = req[r].cred
    BY <1>1, Fields DEF Verifying, SigningIn, OnceInv, VerifiedAnswers, Assertion
  <2>3. \A a \in accepted' : a.ch \in drawn'
    BY <1>1, <2>1, <2>2 DEF OnceInv
  <2>4. VerifiedAnswers'
    <3> SUFFICES ASSUME NEW s \in Requests, SigningIn(req'[s]), req'[s].pc \in {"commit", "cleanup"}
                 PROVE  req'[s].ch = req'[s].expected
      BY DEF VerifiedAnswers, SigningIn
    <3>1. CASE s = r
      BY <2>1, <2>2, <3>1 DEF Moved, Same
    <3>2. CASE s # r
      <4>1. req'[s] = req[s]
        BY <2>1, <3>2 DEF Moved, Alone
      <4>2. QED
        BY <4>1 DEF OnceInv, VerifiedAnswers
    <3>3. QED
      BY <3>1, <3>2
  <2>5. AcceptedIsConsumed'
    <3> SUFFICES ASSUME NEW a \in accepted', a.cred \notin mixed, a.ch \notin left
                 PROVE  Deleting(a)' \/ Consumed(a)'
      BY <1>1 DEF AcceptedIsConsumed
    <3>1. CASE a = Assertion(r)
      BY <1>1, <2>1, <2>2, <3>1 DEF Deleting, Moved, Same, SigningIn
    <3>2. CASE a \in accepted /\ Deleting(a)
      BY <1>1, <2>1, <3>2, DeletingKept DEF Moved
    <3>3. CASE a \in accepted /\ Consumed(a)
      BY <1>1, <2>1, <3>3, ConsumedKept DEF Consumed, Moved, Same, SigningIn
    <3>4. QED
      BY <2>1, <3>1, <3>2, <3>3 DEF OnceInv, AcceptedIsConsumed
  <2>6. QED
    BY <2>3, <2>4, <2>5 DEF OnceInv
<1>4. QED
  BY <1>2, <1>3

\* A sign-in ends that was to delete its challenge: the key is empty and nobody else with
\* its credential has read the challenge, or the challenge is left.
LEMMA OnceCleanup ==
    ASSUME TypeInv, CountInv, OnceInv, NEW r \in Requests, Ended(r),
           SigningIn(req[r]), req[r].pc = "cleanup", UNCHANGED <<drawn, accepted, mixed>>,
           (auth' = None /\ left' = left) \/ (auth' = auth /\ left' = left \cup {req[r].ch})
    PROVE  OnceInv'
<1>1. Alone(r) /\ ~SigningIn(req'[r])
  BY IdleSignsNobodyIn DEF Ended
<1>2. VerifiedAnswers'
  <2> SUFFICES ASSUME NEW s \in Requests, SigningIn(req'[s]), req'[s].pc \in {"commit", "cleanup"}
               PROVE  req'[s].ch = req'[s].expected
    BY DEF VerifiedAnswers, SigningIn
  <2>1. req'[s] = req[s]
    BY <1>1 DEF Alone
  <2>2. QED
    BY <2>1 DEF OnceInv, VerifiedAnswers
<1>3. AcceptedIsConsumed'
  <2> SUFFICES ASSUME NEW a \in accepted, a.cred \notin mixed, a.ch \notin left'
               PROVE  Deleting(a)' \/ Consumed(a)'
    BY DEF AcceptedIsConsumed
  <2>1. a.ch \notin left /\ a.ch \in drawn /\ a.ch # None
    BY PasskeyAssumption DEF OnceInv, TypeInv, TypeOK
  <2>2. CASE Consumed(a)
    <3>1. auth' # a.ch
      BY <2>1, <2>2 DEF Consumed
    <3>2. QED
      BY <1>1, <2>2, <3>1, ConsumedKept
  <2>3. CASE Deleting(a)
    <3>1. PICK s \in Requests : /\ SigningIn(req[s]) /\ req[s].pc = "cleanup"
                                /\ req[s].cred = a.cred /\ req[s].ch = a.ch
      BY <2>3 DEF Deleting
    <3>2. CASE s # r
      <4>1. req'[s] = req[s]
        BY <1>1, <3>2 DEF Alone
      <4>2. QED
        BY <3>1, <4>1 DEF Deleting, SigningIn
    <3>3. CASE s = r
      <4>1. auth' = None
        BY <3>1, <3>3
      <4>2. \A t \in Requests : ~(SigningIn(req'[t]) /\ req'[t].cred = a.cred)
        BY <1>1, <3>1, <3>3 DEF CountInv, Apart, Alone
      <4>3. QED
        BY <2>1, <4>1, <4>2 DEF Consumed, SigningIn
    <3>4. QED
      BY <3>2, <3>3
  <2>4. QED
    BY <2>1, <2>2, <2>3 DEF OnceInv, AcceptedIsConsumed
<1>4. QED
  BY <1>2, <1>3 DEF OnceInv

\* A step of a handler that ends without deleting anything.
LEMMA OnceEnded ==
    ASSUME TypeInv, OnceInv, NEW r \in Requests, Ended(r), UNCHANGED <<accepted, mixed, left>>,
           ~(SigningIn(req[r]) /\ req[r].pc = "cleanup"), drawn \subseteq drawn',
           auth' = auth \/ auth' \notin drawn
    PROVE  OnceInv'
<1>1. Calm(r)
  BY IdleSignsNobodyIn DEF Calm, Ended
<1>2. QED
  BY <1>1, OnceKept

\* Every step keeps accepted challenges out of reach.
LEMMA OnceStep == TypeInv /\ CountInv /\ OnceInv /\ [Next]_vars => OnceInv'
<1> SUFFICES ASSUME TypeInv, CountInv, OnceInv, [Next]_vars PROVE OnceInv'
  OBVIOUS
<1> USE DEF store, history
<1>1. ASSUME UNCHANGED <<req, drawn, accepted, mixed, left>>, auth' \in {auth, None}
      PROVE  OnceInv'
  <2>1. \A a \in accepted : a.ch # None
    BY PasskeyAssumption DEF OnceInv, TypeInv, TypeOK
  <2>2. VerifiedAnswers' /\ \A a \in accepted' : a.ch \in drawn'
    BY <1>1 DEF OnceInv, VerifiedAnswers, SigningIn
  <2>3. AcceptedIsConsumed'
    <3> SUFFICES ASSUME NEW a \in accepted, a.cred \notin mixed, a.ch \notin left
                 PROVE  Deleting(a)' \/ Consumed(a)'
      BY <1>1 DEF AcceptedIsConsumed
    <3>1. Deleting(a) => Deleting(a)'
      BY <1>1 DEF Deleting, SigningIn
    <3>2. Consumed(a) => Consumed(a)'
      BY <1>1, <2>1 DEF Consumed, SigningIn
    <3>3. QED
      BY <3>1, <3>2 DEF OnceInv, AcceptedIsConsumed
  <2>4. QED
    BY <2>2, <2>3 DEF OnceInv
<1>2. CASE UNCHANGED vars
  BY <1>1, <1>2 DEF vars
<1>3. CASE Expire
  BY <1>1, <1>3 DEF Expire
<1>4. ASSUME NEW b \in BOOLEAN, Block(b) PROVE OnceInv'
  BY <1>1, <1>4, BlockDoes
<1>5. CASE DeleteAccount
  BY <1>1, <1>5, DeleteAccountDoes
<1>6. ASSUME NEW r \in Requests, Crash(r) PROVE OnceInv'
  <2>1. Ended(r) /\ UNCHANGED <<auth, drawn, accepted, mixed>>
    BY <1>6, CrashDoes
  <2>2. CASE SigningIn(req[r]) /\ req[r].pc = "cleanup"
    BY <1>6, <2>1, <2>2, CrashDoes, OnceCleanup DEF SigningIn
  <2>3. CASE ~(SigningIn(req[r]) /\ req[r].pc = "cleanup")
    BY <1>6, <2>1, <2>3, CrashDoes, OnceEnded DEF SigningIn
  <2>4. QED
    BY <2>2, <2>3
<1>7. ASSUME NEW r \in Requests, Arrive(r) PROVE OnceInv'
  <2>1. ~SigningIn(req[r])
    BY <1>7 DEF Arrive, StartRegOptions, StartLoginOptions, StartRegVerify, StartLoginVerify,
                Free, SigningIn
  <2>2. CASE StartRegOptions(r) \/ StartLoginOptions(r)
    <3>1. Silent /\ Calm(r)
      BY <2>1, <2>2, StartDoes DEF Calm, SigningIn, Verifying
    <3>2. QED
      BY <3>1, OnceKept DEF Silent
  <2>3. ASSUME NEW c \in Credentials, NEW ch \in drawn, NEW n \in Counts, StartRegVerify(r, c, ch, n)
        PROVE  OnceInv'
    <3>1. Silent /\ Calm(r)
      BY <2>1, <2>3, StartDoes DEF Calm, SigningIn
    <3>2. QED
      BY <3>1, OnceKept DEF Silent
  <2>4. ASSUME NEW c \in Credentials, NEW ch \in drawn, NEW n \in Counts, StartLoginVerify(r, c, ch, n)
        PROVE  OnceInv'
    <3>1. Calm(r) /\ UNCHANGED <<auth, drawn, accepted, left>> /\ mixed \subseteq mixed'
      BY <2>1, <2>4, StartDoes DEF Calm
    <3>2. QED
      BY <3>1, OnceKept
  <2>5. QED
    BY <1>7, <2>2, <2>3, <2>4 DEF Arrive
<1>8. ASSUME NEW r \in Requests, HandlerStep(r) PROVE OnceInv'
  <2>1. CASE RegAccount(r) \/ LoginOptionsAccount(r) \/ LoginOptionsKeys(r) \/ LoginAccount(r)
    <3>1. Silent /\ (Ended(r) \/ \E pc \in {"store", "keys", "key"} : Moved(r, pc))
      BY <2>1, WalkDoes
    <3>2. req[r].pc # "cleanup"
      BY <2>1 DEF RegAccount, LoginOptionsAccount, LoginOptionsKeys, LoginAccount, At
    <3>3. Calm(r)
      BY <3>1, <3>2, IdleSignsNobodyIn DEF Calm, Ended, Moved, Same, SigningIn
    <3>4. QED
      BY <3>1, <3>3, OnceKept DEF Silent
  <2>2. CASE StoreRegChallenge(r) \/ StoreAuthChallenge(r)
    <3>1. req[r].pc # "cleanup"
      BY <2>2 DEF StoreRegChallenge, StoreAuthChallenge, At
    <3>2. QED
      BY <2>2, <3>1, StoreChallengeDoes, OnceEnded
  <2>3. ASSUME req[r].op = "reg_verify", UNCHANGED <<auth, drawn, accepted, mixed, left>>,
               Alone(r), req'[r] = Idle \/ req'[r].op = "reg_verify"
        PROVE  OnceInv'
    <3>1. Calm(r)
      BY <2>3, IdleSignsNobodyIn DEF Calm, SigningIn
    <3>2. QED
      BY <2>3, <3>1, OnceKept
  <2>4. CASE RegChallenge(r)
    BY <2>3, <2>4, RegChallengeDoes DEF Expects, Ended, Silent
  <2>5. CASE StoreKey(r)
    BY <2>3, <2>5, StoreKeyDoes DEF Moved, Same, Ended
  <2>6. CASE RegCleanup(r)
    <3>1. req[r].op = "reg_verify"
      BY <2>6 DEF RegCleanup, At
    <3>2. QED
      BY <2>3, <2>6, <3>1, RegCleanupDoes DEF Ended
  <2>7. CASE LoginCleanup(r)
    BY <2>7, LoginCleanupDoes, OnceCleanup DEF SigningIn
  <2>8. QED
    BY <1>8, <2>1, <2>2, <2>4, <2>5, <2>6, <2>7, OnceChallenge, OnceVerify, OnceSignIn
       DEF HandlerStep
<1>9. QED
  BY <1>2, <1>3, <1>4, <1>5, <1>6, <1>7, <1>8 DEF Next

\* With a challenge out of reach, and counters that rise, an assertion is not about to
\* sign in again.
LEMMA OnceHolds == TypeInv /\ CountInv /\ OnceInv => AssertionOnceAlone
<1> SUFFICES ASSUME TypeInv, CountInv, OnceInv, NEW r \in Requests, Accepts(r),
                    Assertion(r) \in accepted, req[r].cred \notin mixed
             PROVE  req[r].ch \in left /\ req[r].count = 0
  BY DEF AssertionOnceAlone
<1> DEFINE a == Assertion(r)
<1>1. /\ a.cred = req[r].cred /\ a.ch = req[r].ch /\ a.count = req[r].count /\ a \in accepted
      /\ SigningIn(req[r]) /\ req[r].pc = "commit"
  BY DEF Assertion, Accepts, At, SigningIn
<1> HIDE DEF a
<1>2. req[r].count = 0
  BY <1>1, Fields DEF CountInv, CloneIsCaughtAlone
<1>3. ~Consumed(a)
  BY <1>1 DEF Consumed, OnceInv, VerifiedAnswers
<1>4. ~Deleting(a)
  BY <1>1 DEF Deleting, CountInv, Apart
<1>5. QED
  BY <1>1, <1>2, <1>3, <1>4 DEF OnceInv, AcceptedIsConsumed

\* An assertion signs in once: unless sign-ins with its credential overlapped, or the
\* deletion of its challenge failed and its counter does not count.
THEOREM AssertionsSignInOnce == Spec => []AssertionOnceAlone
<1> USE TypeInit, TypeStep, CountInit, CountStep, OnceInit, OnceStep, OnceHolds
<1>1. QED
  BY PTL DEF Spec
=============================================================================
