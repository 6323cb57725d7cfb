--------------------------- MODULE TwoFactorProofs ---------------------------
(***************************************************************************)
(* What holds of TwoFactor for any number of draws, challenges and         *)
(* requests, any clock and any codes presented, crashes included.          *)
(***************************************************************************)
EXTENDS TwoFactor, FiniteSetTheorems, FunctionTheorems, TLAPS

-----------------------------------------------------------------------------
(* Fresh row ids *)

\* The elements' images under a function form a finite set.
LEMMA FiniteImage ==
    ASSUME NEW S, IsFiniteSet(S), NEW f, f = [x \in S |-> f[x]]
    PROVE  IsFiniteSet({f[x] : x \in S})
<1> DEFINE T == {f[x] : x \in S}
<1>1. f \in [S -> T]
  OBVIOUS
<1>2. \A t \in T : \E x \in S : f[x] = t
  OBVIOUS
<1>3. f \in Surjection(S, T)
  BY <1>1, <1>2, Fun_IsSurj
<1>4. QED
  BY <1>3, FS_Surjection

\* Finitely many rows have finitely many ids.
LEMMA FiniteIds == ASSUME NEW S, IsFiniteSet(S) PROVE IsFiniteSet(Ids(S))
<1> DEFINE f == [c \in S |-> c.id]
<1>1. IsFiniteSet({f[c] : c \in S})
  BY FiniteImage
<1>2. Ids(S) = {f[c] : c \in S}
  BY DEF Ids
<1>3. QED
  BY <1>1, <1>2

\* Finitely many handlers remember finitely many ids.
LEMMA FiniteInMind ==
    ASSUME \A r \in Requests : IsFiniteSet(req[r].seen)
    PROVE  IsFiniteSet(InMind)
<1> DEFINE f == [r \in Requests |-> req[r].seen]
<1>1. IsFiniteSet({f[r] : r \in Requests})
  BY FiniteImage, TwoFactorAssumption
<1>2. {f[r] : r \in Requests} = {req[r].seen : r \in Requests}
  OBVIOUS
<1>3. IsFiniteSet({req[r].seen : r \in Requests})
  BY <1>1, <1>2
<1>4. \A T \in {req[r].seen : r \in Requests} : IsFiniteSet(T)
  OBVIOUS
<1>5. QED
  BY <1>3, <1>4, FS_UNION DEF InMind

\* There always is an id for a new row among the naturals up to one more than
\* there are ids taken.
LEMMA FreshId ==
    ASSUME NEW taken, IsFiniteSet(taken)
    PROVE  \E n \in 1..Cardinality(taken) + 1 : n \notin taken
<1> DEFINE k == Cardinality(taken)
<1>1. k \in Nat
  BY FS_CardinalityType
<1>2. Cardinality(1..k + 1) = k + 1
  BY <1>1, FS_Interval
<1>3. ~(1..k + 1 \subseteq taken)
  <2> SUFFICES ASSUME 1..k + 1 \subseteq taken PROVE FALSE
    OBVIOUS
  <2>1. Cardinality(1..k + 1) <= k
    BY FS_Subset
  <2>2. QED
    BY <1>1, <1>2, <2>1
<1>4. QED
  BY <1>3

\* Inserting a batch adds one row.
LEMMA InsertedType ==
    ASSUME NEW S \in SUBSET Rows, IsFiniteSet(S), NEW d \in Draws,
           \A r \in Requests : IsFiniteSet(req[r].seen)
    PROVE  /\ Inserted(d, S) \subseteq Rows /\ IsFiniteSet(Inserted(d, S))
           /\ NewRow(d, S).id \notin Ids(S) \cup InMind /\ ~NewRow(d, S).spent
<1> DEFINE taken == Ids(S) \cup InMind
           id    == CHOOSE n \in 1..Cardinality(taken) + 1 : n \notin taken
<1>1. IsFiniteSet(taken)
  BY FiniteIds, FiniteInMind, FS_Union
<1>2. \E n \in 1..Cardinality(taken) + 1 : n \notin taken
  BY <1>1, FreshId
<1>3. id \in 1..Cardinality(taken) + 1 /\ id \notin taken
  BY <1>2
<1>4. Cardinality(taken) \in Nat
  BY <1>1, FS_CardinalityType
<1>5. id \in Nat
  BY <1>3, <1>4
<1>6. NewRow(d, S) = [id |-> id, batch |-> d, used |-> FALSE,
                      spent |-> FALSE]
  BY DEF NewRow
<1> HIDE DEF id
<1>7. NewRow(d, S) \in Rows /\ NewRow(d, S).id = id /\ ~NewRow(d, S).spent
  BY <1>5, <1>6 DEF Rows
<1>8. QED
  BY <1>3, <1>7, FS_AddElement DEF Inserted
-----------------------------------------------------------------------------
(* Type correctness *)

\* What a handler's locals hold in the steps that use them; D is what was drawn, P
\* what was proven.
Known(q, D, P) ==
    /\ q.pc = "store" => q.draw \in D
    /\ q.pc = "get_setup" => q.op = "confirm"
    /\ q.pc = "load" => q.op = "verify"
    /\ q.pc \in {"prove", "mark"} =>
         q.secret \in D /\ q.op \in {"confirm", "verify", "regenerate", "delete"}
    /\ q.pc = "mark" => q.step \in Steps
    /\ q.pc = "enable" => q.secret \in P
    /\ q.op = "regenerate" => q.draw \in D
    /\ IsFiniteSet(q.seen)

StoreKnown ==
    /\ IsFiniteSet(codes)
    /\ pending \in drawn \cup {None}
    /\ account.secret \in drawn \cup {None}

TypeInv == TypeOK /\ StoreKnown /\ \A r \in Requests : Known(req[r], drawn, proven)

\* Initially everything has its type.
LEMMA TypeInit == Init => TypeInv
<1> SUFFICES ASSUME Init PROVE TypeInv
  OBVIOUS
<1>1. Idle \in Handlers
  BY DEF Idle, Handlers, OpNames, PCs
<1>2. IsFiniteSet({})
  BY FS_EmptySet
<1>3. TypeOK
  <2>1. account \in Accounts
    BY DEF Init, Off, Accounts
  <2>2. req \in [Requests -> Handlers]
    BY <1>1 DEF Init
  <2>3. clock \in 0..MaxClock
    BY TwoFactorAssumption DEF Init
  <2>4. QED
    BY <2>1, <2>2, <2>3 DEF Init, TypeOK
<1>4. StoreKnown
  BY <1>2 DEF Init, StoreKnown, Off
<1>5. \A r \in Requests : Known(req[r], drawn, proven)
  BY <1>2 DEF Init, Known, Idle
<1>6. QED
  BY <1>3, <1>4, <1>5 DEF TypeInv

\* Replacing one handler by a well-formed one, while what was drawn and proven only grows.
LEMMA BecomeKnown ==
    ASSUME TypeInv, NEW r \in Requests, NEW rec \in Handlers, Become(r, rec),
           Known(rec, drawn', proven'), drawn \subseteq drawn', proven \subseteq proven'
    PROVE  req' \in [Requests -> Handlers] /\ \A s \in Requests : Known(req'[s], drawn', proven')
<1>1. req' \in [Requests -> Handlers]
  BY DEF Become, TypeInv, TypeOK
<1>2. \A s \in Requests : req'[s] = IF s = r THEN rec ELSE req[s]
  BY DEF Become, TypeInv, TypeOK
<1>3. ASSUME NEW s \in Requests, s # r PROVE Known(req'[s], drawn', proven')
  BY <1>2, <1>3 DEF TypeInv, Known
<1>4. Known(req'[r], drawn', proven')
  BY <1>2 DEF Known
<1>5. QED
  BY <1>1, <1>3, <1>4
\* Ending a handler.
LEMMA FinishKnown ==
    ASSUME TypeInv, NEW r \in Requests, Finish(r), drawn \subseteq drawn', proven \subseteq proven'
    PROVE  req' \in [Requests -> Handlers] /\ \A s \in Requests : Known(req'[s], drawn', proven')
<1>1. Idle \in Handlers
  BY DEF Idle, Handlers, OpNames, PCs
<1>2. Known(Idle, drawn', proven')
  BY FS_EmptySet DEF Known, Idle
<1>3. QED
  BY <1>1, <1>2, BecomeKnown DEF Finish

\* Moving a handler on to a step whose locals it has.
LEMMA GotoKnown ==
    ASSUME TypeInv, NEW r \in Requests, NEW p \in PCs, Goto(r, p),
           drawn \subseteq drawn', proven \subseteq proven',
           p \notin {"store", "get_setup", "load", "prove", "mark"},
           p = "enable" => req[r].secret \in proven'
    PROVE  req' \in [Requests -> Handlers] /\ \A s \in Requests : Known(req'[s], drawn', proven')
<1> DEFINE rec == [req[r] EXCEPT !.pc = p]
<1>1. req[r] \in Handlers /\ Known(req[r], drawn, proven)
  BY DEF TypeInv, TypeOK
<1>2. rec \in Handlers
  BY <1>1 DEF Handlers
<1>3. rec.pc = p /\ rec.secret = req[r].secret /\ rec.op = req[r].op
      /\ rec.draw = req[r].draw /\ rec.seen = req[r].seen
  BY <1>1 DEF Handlers
<1>4. Known(rec, drawn', proven')
  BY <1>1, <1>3 DEF Known
<1>5. QED
  BY <1>2, <1>4, BecomeKnown DEF Goto

\* A handler starts with what it read.
LEMMA TypeArrive == ASSUME TypeInv, NEW r \in Requests, Arrive(r) PROVE TypeInv'
<1>0. /\ TypeOK /\ StoreKnown /\ Idle \in Handlers /\ IsFiniteSet({})
      /\ disturbed \in BOOLEAN /\ drawn \subseteq Draws /\ account.secret \in drawn \cup {None}
  BY FS_EmptySet DEF TypeInv, TypeOK, StoreKnown, Idle, Handlers, OpNames, PCs
<1>1. CASE \E d \in Draws : StartSetup(r, d)
  <2> PICK d \in Draws : StartSetup(r, d)
    BY <1>1
  <2> DEFINE rec == [Idle EXCEPT !.op = "setup", !.pc = "store", !.draw = d]
  <2>1. rec \in Handlers /\ Known(rec, drawn', proven')
    BY <1>0 DEF StartSetup, Idle, Handlers, OpNames, PCs, Known
  <2>2. req' \in [Requests -> Handlers] /\ \A s \in Requests : Known(req'[s], drawn', proven')
    BY <2>1, BecomeKnown DEF StartSetup, Begin, past
  <2>3. QED
    BY <1>0, <2>2 DEF TypeInv, TypeOK, StoreKnown, StartSetup, Begin, store, past
<1>2. CASE \E d \in Draws : StartRegenerate(r, d)
  <2> PICK d \in Draws : StartRegenerate(r, d)
    BY <1>2
  <2> DEFINE rec == [Idle EXCEPT !.op = "regenerate", !.pc = "prove",
                                 !.secret = account.secret, !.draw = d]
  <2>0. account.secret \in drawn
    BY <1>0 DEF StartRegenerate
  <2>1. rec \in Handlers /\ Known(rec, drawn', proven')
    BY <1>0, <2>0 DEF StartRegenerate, Idle, Handlers, OpNames, PCs, Known
  <2>2. req' \in [Requests -> Handlers] /\ \A s \in Requests : Known(req'[s], drawn', proven')
    BY <2>1, BecomeKnown DEF StartRegenerate, Begin, past
  <2>3. QED
    BY <1>0, <2>2 DEF TypeInv, TypeOK, StoreKnown, StartRegenerate, Begin, store, past
<1>3. CASE StartConfirm(r)
  <2> DEFINE rec == [Idle EXCEPT !.op = "confirm", !.pc = "get_setup"]
  <2>1. rec \in Handlers /\ Known(rec, drawn', proven')
    BY <1>0 DEF Idle, Handlers, OpNames, PCs, Known
  <2>2. req' \in [Requests -> Handlers] /\ \A s \in Requests : Known(req'[s], drawn', proven')
    BY <1>3, <2>1, BecomeKnown DEF StartConfirm, Begin, past
  <2>3. QED
    BY <1>0, <1>3, <2>2 DEF TypeInv, TypeOK, StoreKnown, StartConfirm, Begin, store, past
<1>4. CASE StartDisable(r)
  <2> DEFINE rec == [Idle EXCEPT !.op = "disable", !.pc = "wipe"]
  <2>1. rec \in Handlers /\ Known(rec, drawn', proven')
    BY <1>0 DEF Idle, Handlers, OpNames, PCs, Known
  <2>2. req' \in [Requests -> Handlers] /\ \A s \in Requests : Known(req'[s], drawn', proven')
    BY <1>4, <2>1, BecomeKnown DEF StartDisable, Begin, past
  <2>3. QED
    BY <1>0, <1>4, <2>2 DEF TypeInv, TypeOK, StoreKnown, StartDisable, Begin, store, past
<1>5. CASE StartDelete(r)
  <2> DEFINE rec == [Idle EXCEPT !.op = "delete", !.pc = "prove", !.secret = account.secret]
  <2>0. account.secret \in drawn /\ drawn' = drawn
    BY <1>0, <1>5 DEF StartDelete
  <2>1. rec \in Handlers /\ Known(rec, drawn', proven')
    BY <1>0, <2>0 DEF Idle, Handlers, OpNames, PCs, Known
  <2>2. req' \in [Requests -> Handlers] /\ \A s \in Requests : Known(req'[s], drawn', proven')
    BY <1>5, <2>1, BecomeKnown DEF StartDelete, Begin, past
  <2>3. QED
    BY <1>0, <1>5, <2>2 DEF TypeInv, TypeOK, StoreKnown, StartDelete, Begin, store, past
<1>6. CASE \E l \in Challenges : StartVerify(r, l)
  <2> PICK l \in Challenges : StartVerify(r, l)
    BY <1>6
  <2> DEFINE rec == [Idle EXCEPT !.op = "verify", !.pc = "load", !.ch = l]
  <2>1. rec \in Handlers /\ Known(rec, drawn', proven')
    BY <1>0 DEF Idle, Handlers, OpNames, PCs, Known
  <2>2. req' \in [Requests -> Handlers] /\ \A s \in Requests : Known(req'[s], drawn', proven')
    BY <2>1, BecomeKnown DEF StartVerify, Begin, past
  <2>3. QED
    BY <1>0, <2>2 DEF TypeInv, TypeOK, StoreKnown, StartVerify, Begin, store, past
<1>7. QED
  BY <1>1, <1>2, <1>3, <1>4, <1>5, <1>6 DEF Arrive

\* Enrolment.
LEMMA TypeEnrol ==
    ASSUME TypeInv, NEW r \in Requests,
           StoreSetup(r) \/ GetSetup(r) \/ Enable(r) \/ DropSetup(r)
    PROVE  TypeInv'
<1>0. /\ TypeOK /\ StoreKnown /\ req[r] \in Handlers /\ Known(req[r], drawn, proven)
      /\ drawn \subseteq Draws /\ proven \subseteq drawn
  BY DEF TypeInv, TypeOK
<1>1. CASE StoreSetup(r)
  <2>1. req' \in [Requests -> Handlers] /\ \A s \in Requests : Known(req'[s], drawn', proven')
    BY <1>1, FinishKnown DEF StoreSetup, past
  <2>2. req[r].draw \in drawn
    BY <1>0, <1>1 DEF StoreSetup, At, Known
  <2>3. QED
    BY <1>0, <1>1, <2>1, <2>2 DEF TypeInv, TypeOK, StoreKnown, StoreSetup, store, past
<1>2. CASE GetSetup(r)
  <2>1. req' \in [Requests -> Handlers] /\ \A s \in Requests : Known(req'[s], drawn', proven')
    <3>1. CASE pending = None
      BY <1>2, <3>1, FinishKnown DEF GetSetup, past
    <3>2. CASE pending # None
      <4> DEFINE rec == [req[r] EXCEPT !.pc = "prove", !.secret = pending]
      <4>1. pending \in drawn /\ drawn' = drawn /\ proven' = proven
        BY <1>0, <1>2, <3>2 DEF StoreKnown, GetSetup, past
      <4>2. req[r].op = "confirm"
        BY <1>0, <1>2 DEF GetSetup, At, Known
      <4>3. rec \in Handlers /\ Known(rec, drawn', proven')
        BY <1>0, <4>1, <4>2 DEF Handlers, PCs, Known
      <4>4. QED
        BY <1>2, <3>2, <4>1, <4>3, BecomeKnown DEF GetSetup
    <3>3. QED
      BY <3>1, <3>2
  <2>2. QED
    BY <1>0, <1>2, <2>1 DEF TypeInv, TypeOK, StoreKnown, GetSetup, store, past
<1>3. CASE Enable(r)
  <2>1. req' \in [Requests -> Handlers] /\ \A s \in Requests : Known(req'[s], drawn', proven')
    BY <1>3, FinishKnown, GotoKnown DEF Enable, past, PCs
  <2>2. /\ account' \in Accounts /\ account'.secret \in drawn \cup {None}
        /\ codes' \subseteq Rows /\ IsFiniteSet(codes')
    <3>1. CASE account.exists
      <4>1. req[r].secret \in drawn /\ req[r].secret \in Draws
        BY <1>0, <1>3 DEF Enable, At, Known
      <4>2. codes \subseteq Rows /\ IsFiniteSet(codes) /\ \A s \in Requests : IsFiniteSet(req[s].seen)
        BY DEF TypeInv, TypeOK, StoreKnown, Known
      <4>3. Inserted(req[r].secret, codes) \subseteq Rows
            /\ IsFiniteSet(Inserted(req[r].secret, codes))
        BY <4>1, <4>2, InsertedType
      <4>4. QED
        BY <1>0, <1>3, <3>1, <4>1, <4>3 DEF Enable, TypeOK, Accounts
    <3>2. CASE ~account.exists
      BY <1>0, <1>3, <3>2 DEF Enable, TypeOK, StoreKnown, store
    <3>3. QED
      BY <3>1, <3>2
  <2>3. QED
    BY <1>0, <1>3, <2>1, <2>2 DEF TypeInv, TypeOK, StoreKnown, Enable, past
<1>4. CASE DropSetup(r)
  <2>1. req' \in [Requests -> Handlers] /\ \A s \in Requests : Known(req'[s], drawn', proven')
    BY <1>4, FinishKnown DEF DropSetup, past
  <2>2. QED
    BY <1>0, <1>4, <2>1 DEF TypeInv, TypeOK, StoreKnown, DropSetup, store, past
<1>5. QED
  BY <1>1, <1>2, <1>3, <1>4

\* A code is offered: what it proves is known, and the handler goes on only where
\* its locals suffice.
LEMMA TypeCode ==
    ASSUME TypeInv, NEW r \in Requests,
           \/ \E n \in Steps : Check(r, n)
           \/ Mark(r)
           \/ WrongCode(r)
           \/ \E c \in codes : PickCode(r, c)
    PROVE  TypeInv'
<1>0. /\ TypeOK /\ StoreKnown /\ req[r] \in Handlers /\ Known(req[r], drawn, proven)
      /\ drawn \subseteq Draws /\ proven \subseteq drawn /\ clock \in 0..MaxClock
      /\ codes \subseteq Rows /\ accepted \subseteq TOTPs
  BY DEF TypeInv, TypeOK
<1>1. CASE \E n \in Steps : Check(r, n)
  <2> PICK n \in Steps : Check(r, n)
    BY <1>1
  <2> DEFINE rec == [req[r] EXCEPT !.pc = "mark", !.step = n]
  <2>1. /\ req[r].pc = "prove" /\ drawn' = drawn /\ proven' = proven
        /\ req[r].secret \in drawn /\ req[r].op \in {"confirm", "verify", "regenerate", "delete"}
    BY <1>0 DEF Check, At, Known, past
  <2>2. rec \in Handlers
    BY <1>0 DEF Handlers, PCs
  <2>3. /\ rec.pc = "mark" /\ rec.step = n /\ rec.secret = req[r].secret
        /\ rec.op = req[r].op /\ rec.draw = req[r].draw /\ rec.seen = req[r].seen
    BY <1>0 DEF Handlers
  <2> HIDE DEF rec
  <2>4. Known(rec, drawn', proven')
    BY <1>0, <2>1, <2>3 DEF Known
  <2>5. Become(r, rec)
    BY DEF Check, rec
  <2>6. req' \in [Requests -> Handlers] /\ \A s \in Requests : Known(req'[s], drawn', proven')
    BY <2>1, <2>2, <2>4, <2>5, BecomeKnown
  <2>7. QED
    BY <1>0, <2>6 DEF TypeInv, TypeOK, StoreKnown, Check, store, past
<1>5. CASE Mark(r)
  <2> DEFINE code == <<req[r].secret, req[r].step>>
             p    == AfterCode(req[r].op)
             rec  == [req[r] EXCEPT !.pc = p, !.step = 0]
  <2>1. /\ req[r].secret \in drawn /\ req[r].step \in Steps
        /\ req[r].op \in {"confirm", "verify", "regenerate", "delete"}
    BY <1>0, <1>5 DEF Mark, At, Known
  <2>2. code \in TOTPs
    BY <1>0, <2>1 DEF TOTPs
  <2>3. p \in PCs /\ p \notin {"store", "get_setup", "load", "prove", "mark"}
    BY <2>1 DEF AfterCode, PCs
  <2>4. CASE \E k \in replay : k.code = code
    <3>1. Finish(r) /\ UNCHANGED <<account, codes, pending, replay, clock, challenge, drawn,
                                   proven, accepted, twice, disturbed>>
      BY <1>5, <2>4 DEF Mark, store, past
    <3>2. req' \in [Requests -> Handlers] /\ \A s \in Requests : Known(req'[s], drawn', proven')
      BY <3>1, FinishKnown
    <3>3. QED
      BY <1>0, <3>1, <3>2 DEF TypeInv, TypeOK, StoreKnown
  <2>5. CASE ~\E k \in replay : k.code = code
    <3>1. /\ Become(r, rec)
          /\ replay' = replay \cup {[code |-> code, at |-> clock]}
          /\ proven' = proven \cup {req[r].secret}
          /\ accepted' = accepted \cup {code}
          /\ twice' \in {twice, twice \cup ({code} \cap accepted)}
          /\ UNCHANGED <<account, codes, pending, clock, challenge, drawn, disturbed>>
      BY <1>5, <2>5 DEF Mark, store
    <3>2. rec \in Handlers
      BY <1>0, <2>3 DEF Handlers
    <3>3. /\ rec.pc = p /\ rec.secret = req[r].secret /\ rec.op = req[r].op
          /\ rec.draw = req[r].draw /\ rec.seen = req[r].seen
      BY <1>0 DEF Handlers
    <3>4. Known(rec, drawn', proven')
      <4> HIDE DEF rec, p
      <4>1. QED
        BY <1>0, <2>3, <3>1, <3>3 DEF Known
    <3>5. req' \in [Requests -> Handlers] /\ \A s \in Requests : Known(req'[s], drawn', proven')
      BY <3>1, <3>2, <3>4, BecomeKnown
    <3>6. replay' \subseteq [code : TOTPs, at : 0..MaxClock] /\ accepted' \subseteq TOTPs
          /\ twice' \subseteq TOTPs /\ proven' \subseteq drawn'
      BY <1>0, <2>1, <2>2, <3>1 DEF TypeOK
    <3>7. QED
      BY <1>0, <3>1, <3>5, <3>6 DEF TypeInv, TypeOK, StoreKnown
  <2>6. QED
    BY <2>4, <2>5
<1>2. CASE WrongCode(r)
  <2>1. req' \in [Requests -> Handlers] /\ \A s \in Requests : Known(req'[s], drawn', proven')
    BY <1>2, FinishKnown DEF WrongCode, past
  <2>2. QED
    BY <1>0, <1>2, <2>1 DEF TypeInv, TypeOK, StoreKnown, WrongCode, store, past
<1>3. CASE \E c \in codes : PickCode(r, c)
  <2> PICK c \in codes : PickCode(r, c)
    BY <1>3
  <2> DEFINE rec == [req[r] EXCEPT !.pc = AfterCode(req[r].op), !.seen = {c.id}]
  <2>1. AfterCode(req[r].op) \in {"sign_in", "erase"} /\ drawn' = drawn /\ proven' = proven
    BY DEF PickCode, AfterCode, past
  <2>2. c.id \in Nat
    BY <1>0 DEF Rows
  <2>3. rec \in Handlers
    BY <1>0, <2>1, <2>2 DEF Handlers, PCs
  <2>4. rec.pc = AfterCode(req[r].op) /\ rec.op = req[r].op /\ rec.draw = req[r].draw
        /\ rec.seen = {c.id}
    BY <1>0 DEF Handlers
  <2>5. Known(rec, drawn', proven')
    <3>1. IsFiniteSet(rec.seen)
      BY <2>4, FS_Singleton
    <3>2. rec.pc \in {"sign_in", "erase"}
      BY <2>1, <2>4
    <3> HIDE DEF rec
    <3>3. QED
      BY <1>0, <2>1, <2>4, <3>1, <3>2 DEF Known
  <2>6. req' \in [Requests -> Handlers] /\ \A s \in Requests : Known(req'[s], drawn', proven')
    BY <2>1, <2>3, <2>5, BecomeKnown DEF PickCode
  <2>7. QED
    BY <1>0, <2>6 DEF TypeInv, TypeOK, StoreKnown, PickCode, store, past
<1>4. QED
  BY <1>1, <1>2, <1>3, <1>5

\* Sign-in.
LEMMA TypeSignIn ==
    ASSUME TypeInv, NEW r \in Requests, LoadUser(r) \/ SignIn(r)
    PROVE  TypeInv'
<1>0. /\ TypeOK /\ StoreKnown /\ req[r] \in Handlers /\ Known(req[r], drawn, proven)
      /\ drawn \subseteq Draws /\ codes \subseteq Rows /\ IsFiniteSet(codes)
  BY DEF TypeInv, TypeOK, StoreKnown
<1>1. CASE LoadUser(r)
  <2>1. req' \in [Requests -> Handlers] /\ \A s \in Requests : Known(req'[s], drawn', proven')
    <3> DEFINE rec == [req[r] EXCEPT !.pc = "prove", !.secret = account.secret]
    <3>1. CASE Become(r, rec) /\ account.secret # None
      <4>1. account.secret \in drawn /\ drawn' = drawn /\ proven' = proven
        BY <1>0, <1>1, <3>1 DEF StoreKnown, LoadUser, past
      <4>2. req[r].op = "verify"
        BY <1>0, <1>1 DEF LoadUser, At, Known
      <4>3. rec \in Handlers /\ Known(rec, drawn', proven')
        BY <1>0, <4>1, <4>2 DEF Handlers, PCs, Known
      <4>4. QED
        BY <3>1, <4>1, <4>3, BecomeKnown
    <3>2. CASE Finish(r)
      BY <1>1, <3>2, FinishKnown DEF LoadUser, past
    <3>3. QED
      BY <1>1, <3>1, <3>2 DEF LoadUser
  <2>2. QED
    BY <1>0, <1>1, <2>1 DEF TypeInv, TypeOK, StoreKnown, LoadUser, store, past
<1>2. CASE SignIn(r)
  <2>1. req' \in [Requests -> Handlers] /\ \A s \in Requests : Known(req'[s], drawn', proven')
    BY <1>2, FinishKnown DEF SignIn, past
  <2>2. codes' \subseteq Rows /\ IsFiniteSet(codes')
    <3> DEFINE mark(c) == [c EXCEPT !.used = TRUE, !.spent = @ \/ ~Contended(r, c)]
               f       == [c \in Offered(r) |-> mark(c)]
               marked  == {mark(c) : c \in Offered(r)}
               rest    == Without(req[r].seen)
    <3>1. Offered(r) \subseteq codes /\ rest \subseteq codes
      BY DEF Offered, Without
    <3>2. IsFiniteSet(Offered(r)) /\ IsFiniteSet(rest)
      BY <1>0, <3>1, FS_Subset
    <3>3. IsFiniteSet({f[c] : c \in Offered(r)})
      <4>1. f = [c \in Offered(r) |-> f[c]]
        OBVIOUS
      <4> HIDE DEF f
      <4>2. QED
        BY <3>2, <4>1, FiniteImage
    <3>4. marked = {f[c] : c \in Offered(r)}
      OBVIOUS
    <3>5. marked \subseteq Rows
      <4>1. ASSUME NEW c \in Rows PROVE mark(c) \in Rows
        <5> DEFINE b == c.spent \/ ~Contended(r, c)
        <5>1. b \in BOOLEAN
          BY DEF Rows, Contended
        <5>2. mark(c) = [c EXCEPT !.used = TRUE, !.spent = b]
          BY DEF Rows
        <5> HIDE DEF b
        <5>3. QED
          BY <5>1, <5>2 DEF Rows
      <4>2. QED
        BY <1>0, <3>1, <4>1
    <3>6. IsFiniteSet(rest \cup marked) /\ rest \cup marked \subseteq Rows
      BY <1>0, <3>1, <3>2, <3>3, <3>4, <3>5, FS_Union
    <3>7. QED
      BY <1>0, <1>2, <3>6 DEF SignIn
  <2>3. QED
    BY <1>0, <1>2, <2>1, <2>2 DEF TypeInv, TypeOK, StoreKnown, SignIn, store, past
<1>3. QED
  BY <1>1, <1>2

\* The new set of backup codes, switching off, deletion.
LEMMA TypeRemove ==
    ASSUME TypeInv, NEW r \in Requests,
           Wipe(r) \/ Lock(r) \/ Disable(r) \/ Replace(r) \/ Erase(r)
    PROVE  TypeInv'
<1>0. /\ TypeOK /\ StoreKnown /\ req[r] \in Handlers /\ Known(req[r], drawn, proven)
      /\ drawn \subseteq Draws /\ codes \subseteq Rows /\ IsFiniteSet(codes)
      /\ account \in Accounts
  BY DEF TypeInv, TypeOK, StoreKnown
<1>1. IsFiniteSet(Without(req[r].seen)) /\ Without(req[r].seen) \subseteq Rows
  <2>1. Without(req[r].seen) \subseteq codes
    BY DEF Without
  <2>2. QED
    BY <1>0, <2>1, FS_Subset
<1>2. CASE Wipe(r)
  <2> DEFINE rec == [req[r] EXCEPT !.pc = "lock", !.seen = Ids(codes)]
  <2>1. Ids(codes) \subseteq Nat /\ IsFiniteSet(Ids(codes))
    BY <1>0, FiniteIds DEF Ids, Rows
  <2>2. rec \in Handlers /\ Known(rec, drawn', proven')
    BY <1>0, <1>2, <2>1 DEF Wipe, Handlers, PCs, Known, past
  <2>3. req' \in [Requests -> Handlers] /\ \A s \in Requests : Known(req'[s], drawn', proven')
    BY <1>2, <2>2, BecomeKnown DEF Wipe, past
  <2>4. QED
    BY <1>0, <1>2, <2>3 DEF TypeInv, TypeOK, StoreKnown, Wipe, store, past
<1>3. CASE Lock(r)
  <2>1. req' \in [Requests -> Handlers] /\ \A s \in Requests : Known(req'[s], drawn', proven')
    BY <1>3, GotoKnown DEF Lock, PCs, past
  <2>2. QED
    BY <1>0, <1>3, <2>1 DEF TypeInv, TypeOK, StoreKnown, Lock, store, past
<1>4. CASE Disable(r)
  <2>1. req' \in [Requests -> Handlers] /\ \A s \in Requests : Known(req'[s], drawn', proven')
    BY <1>4, FinishKnown DEF Disable, past
  <2>2. account' \in Accounts /\ account'.secret \in drawn \cup {None}
        /\ codes' \subseteq Rows /\ IsFiniteSet(codes')
    BY <1>0, <1>1, <1>4 DEF Disable, Accounts, store, StoreKnown
  <2>3. QED
    BY <1>0, <1>4, <2>1, <2>2 DEF TypeInv, TypeOK, StoreKnown, Disable, past
<1>5. CASE Replace(r)
  <2>1. req' \in [Requests -> Handlers] /\ \A s \in Requests : Known(req'[s], drawn', proven')
    BY <1>5, FinishKnown DEF Replace, past
  <2>2. req[r].draw \in Draws
    BY <1>0, <1>5 DEF Replace, Known
  <2>3. \A s \in Requests : IsFiniteSet(req[s].seen)
    BY DEF TypeInv, Known
  <2>4. Inserted(req[r].draw, Without(req[r].seen)) \subseteq Rows
        /\ IsFiniteSet(Inserted(req[r].draw, Without(req[r].seen)))
    BY <1>1, <2>2, <2>3, InsertedType
  <2>5. codes' \subseteq Rows /\ IsFiniteSet(codes')
    BY <1>0, <1>5, <2>4 DEF Replace
  <2>6. QED
    BY <1>0, <1>5, <2>1, <2>5 DEF TypeInv, TypeOK, StoreKnown, Replace, past
<1>6. CASE Erase(r)
  <2>1. req' \in [Requests -> Handlers] /\ \A s \in Requests : Known(req'[s], drawn', proven')
    BY <1>6, FinishKnown DEF Erase, past
  <2>2. account' \in Accounts /\ account'.secret = None
    BY <1>6 DEF Erase, Off, Accounts
  <2>3. codes' = {} /\ IsFiniteSet(codes')
    BY <1>6, FS_EmptySet DEF Erase
  <2>4. QED
    BY <1>0, <1>6, <2>1, <2>2, <2>3 DEF TypeInv, TypeOK, StoreKnown, Erase, past
<1>7. QED
  BY <1>2, <1>3, <1>4, <1>5, <1>6

\* Steps of no handler: sign-in with the password, time, and a crash.
LEMMA TypeEnvironment ==
    ASSUME TypeInv,
           \/ \E l \in Challenges : Login(l) \/ ChallengeExpires(l)
           \/ Tick \/ SetupExpires
           \/ \E r \in Requests : Crash(r)
           \/ UNCHANGED vars
    PROVE  TypeInv'
<1>0. /\ TypeOK /\ StoreKnown
      /\ req \in [Requests -> Handlers] /\ \A s \in Requests : Known(req[s], drawn, proven)
  BY DEF TypeInv, TypeOK
<1>1. CASE \E l \in Challenges : Login(l) \/ ChallengeExpires(l)
  BY <1>0, <1>1 DEF TypeInv, TypeOK, StoreKnown, Login, ChallengeExpires, store, past
<1>2. CASE Tick
  <2>1. clock' \in 0..MaxClock
    BY <1>0, <1>2, TwoFactorAssumption DEF Tick, TypeOK
  <2>2. QED
    BY <1>0, <1>2, <2>1 DEF TypeInv, TypeOK, StoreKnown, Tick, store, past
<1>3. CASE SetupExpires
  BY <1>0, <1>3 DEF TypeInv, TypeOK, StoreKnown, SetupExpires, store, past
<1>4. CASE \E r \in Requests : Crash(r)
  <2> PICK r \in Requests : Crash(r)
    BY <1>4
  <2>1. req' \in [Requests -> Handlers] /\ \A s \in Requests : Known(req'[s], drawn', proven')
    BY FinishKnown DEF Crash, past
  <2>2. QED
    BY <1>0, <2>1 DEF TypeInv, TypeOK, StoreKnown, Crash, store, past
<1>5. CASE UNCHANGED vars
  BY <1>0, <1>5 DEF TypeInv, TypeOK, StoreKnown, vars
<1>6. QED
  BY <1>1, <1>2, <1>3, <1>4, <1>5

\* Every step keeps the types.
LEMMA TypeStep == TypeInv /\ [Next]_vars => TypeInv'
BY TypeArrive, TypeEnrol, TypeCode, TypeSignIn, TypeRemove, TypeEnvironment
   DEF Next, HandlerStep

\* Every variable keeps its type, for any draws, challenges, requests and clock.
THEOREM TypeCorrect == Spec => []TypeOK
<1>1. TypeInv => TypeOK
  BY DEF TypeInv
<1>2. QED
  BY <1>1, TypeInit, TypeStep, PTL DEF Spec

-----------------------------------------------------------------------------
(* The secret *)

\* The account's flag and secret change where a set-up is confirmed, where
\* two-factor is switched off and where the account is deleted; what was proven stays so.
LEMMA AccountChanges ==
    ASSUME TypeInv, [Next]_vars
    PROVE  /\ proven \subseteq proven'
           /\ \/ account' = account
              \/ \E r \in Requests : Enable(r) \/ Disable(r) \/ Erase(r)
<1>1. ASSUME NEW r \in Requests, Arrive(r) \/ Crash(r)
      PROVE  UNCHANGED <<account, proven>>
  BY <1>1 DEF Arrive, StartSetup, StartRegenerate, StartConfirm, StartDisable, StartDelete,
              StartVerify, Crash, store, past
<1>2. ASSUME NEW r \in Requests, HandlerStep(r)
      PROVE  proven \subseteq proven' /\ (account' = account \/ Enable(r) \/ Disable(r) \/ Erase(r))
  BY <1>2 DEF HandlerStep, StoreSetup, GetSetup, Enable, DropSetup, Check, Mark, WrongCode,
              PickCode,
              LoadUser, SignIn, Wipe, Lock, Disable, Replace, Erase, store, past
<1>3. ASSUME (\E l \in Challenges : Login(l) \/ ChallengeExpires(l)) \/ Tick \/ SetupExpires
             \/ UNCHANGED vars
      PROVE  UNCHANGED <<account, proven>>
  BY <1>3 DEF Login, ChallengeExpires, Tick, SetupExpires, vars, store, past
<1>4. QED
  BY <1>1, <1>2, <1>3 DEF Next

SecretInv == TypeInv /\ SecretIffEnabled /\ ProvenSecret

\* Nothing is on and nothing stored at first.
LEMMA SecretInit == Init => SecretInv
BY TypeInit DEF Init, Off, SecretInv, SecretIffEnabled, ProvenSecret

\* A confirmation stores a secret of which it has just seen a code, the other two
\* clear flag and secret together.
LEMMA SecretStep == SecretInv /\ [Next]_vars => SecretInv'
<1> SUFFICES ASSUME SecretInv, [Next]_vars PROVE SecretInv'
  OBVIOUS
<1>1. TypeInv /\ SecretIffEnabled /\ ProvenSecret /\ TypeInv'
  BY TypeStep DEF SecretInv
<1>2. account \in Accounts /\ proven \subseteq proven' /\ proven \subseteq Draws
  BY <1>1, AccountChanges DEF TypeInv, TypeOK
<1>3. CASE account' = account
  BY <1>1, <1>2, <1>3 DEF SecretInv, SecretIffEnabled, ProvenSecret
<1>4. ASSUME NEW r \in Requests, Enable(r), account' # account PROVE SecretInv'
  <2>1. /\ account' = [account EXCEPT !.enabled = TRUE, !.secret = req[r].secret]
        /\ req[r].secret \in proven
    BY <1>1, <1>4 DEF Enable, At, TypeInv, Known, store
  <2>2. account'.enabled = TRUE /\ account'.secret = req[r].secret
    BY <1>2, <2>1 DEF Accounts
  <2>3. QED
    BY <1>1, <1>2, <2>1, <2>2, TwoFactorAssumption DEF SecretInv, SecretIffEnabled, ProvenSecret
<1>5. ASSUME NEW r \in Requests, Disable(r) \/ Erase(r), account' # account PROVE SecretInv'
  <2>1. account'.enabled = FALSE /\ account'.secret = None
    BY <1>2, <1>5 DEF Disable, Erase, Off, Accounts, store
  <2>2. QED
    BY <1>1, <2>1 DEF SecretInv, SecretIffEnabled, ProvenSecret
<1>6. QED
  BY <1>1, <1>3, <1>4, <1>5, AccountChanges

\* The flag and the secret agree: no overlap of confirmation, switching off and
\* deletion leaves an account that asks for a code it cannot check.
THEOREM FlagMeansSecret == Spec => []SecretIffEnabled
<1>1. SecretInv => SecretIffEnabled
  BY DEF SecretInv
<1>2. QED
  BY <1>1, SecretInit, SecretStep, PTL DEF Spec

\* Nobody is locked out: whatever set-ups and confirmations overlap, the secret stored is
\* one whose code the client has shown.
THEOREM SecretWasProven == Spec => []ProvenSecret
<1>1. SecretInv => ProvenSecret
  BY DEF SecretInv
<1>2. QED
  BY <1>1, SecretInit, SecretStep, PTL DEF Spec

-----------------------------------------------------------------------------
(* TOTP codes *)

\* An accepted code has its replay key, set no more than one step before the code's
\* own, or is past its validity.
KeyKept ==
    \A code \in accepted :
        \/ code[2] + 1 < clock
        \/ \E k \in replay : k.code = code /\ code[2] <= k.at + 1

\* The code a handler is about to mark is not one of a step to come.
CheckedInTime == \A r \in Requests : req[r].pc = "mark" => req[r].step <= clock + 1

ReplayInv == TypeInv /\ CheckedInTime /\ KeyKept /\ TotpOnce

\* No code has been accepted at first.
LEMMA ReplayInit == Init => ReplayInv
BY TypeInit DEF Init, Idle, ReplayInv, CheckedInTime, KeyKept, TotpOnce

\* Keys, accepted codes and the clock change where a code is marked and when time passes.
LEMMA ReplayChanges ==
    ASSUME [Next]_vars
    PROVE  \/ UNCHANGED <<replay, accepted, twice, clock>>
           \/ \E r \in Requests : Mark(r)
           \/ Tick
<1>1. ASSUME NEW r \in Requests, Arrive(r) \/ Crash(r)
      PROVE  UNCHANGED <<replay, accepted, twice, clock>>
  BY <1>1 DEF Arrive, StartSetup, StartRegenerate, StartConfirm, StartDisable, StartDelete,
              StartVerify, Crash, store, past
<1>2. ASSUME NEW r \in Requests, HandlerStep(r)
      PROVE  UNCHANGED <<replay, accepted, twice, clock>> \/ Mark(r)
  BY <1>2 DEF HandlerStep, StoreSetup, GetSetup, Enable, DropSetup, Check, WrongCode, PickCode,
              LoadUser, SignIn, Wipe, Lock, Disable, Replace, Erase, store, past
<1>3. ASSUME (\E l \in Challenges : Login(l) \/ ChallengeExpires(l)) \/ SetupExpires
             \/ UNCHANGED vars
      PROVE  UNCHANGED <<replay, accepted, twice, clock>>
  BY <1>3 DEF Login, ChallengeExpires, SetupExpires, vars, store, past
<1>4. QED
  BY <1>1, <1>2, <1>3 DEF Next

\* A handler comes to its mark only by a check.
LEMMA MarkAfterCheck ==
    ASSUME TypeInv, [Next]_vars, NEW s \in Requests, req'[s].pc = "mark"
    PROVE  req'[s] = req[s] \/ \E n \in Steps : Check(s, n) /\ req'[s].step = n
<1>0. req \in [Requests -> Handlers] /\ \A r \in Requests : Known(req[r], drawn, proven)
  BY DEF TypeInv, TypeOK
<1>1. ASSUME NEW r \in Requests, NEW rec, Become(r, rec), rec.pc # "mark"
      PROVE  req'[s] = req[s]
  BY <1>0, <1>1 DEF Become
<1>2. ASSUME NEW r \in Requests, Finish(r) PROVE req'[s] = req[s]
  BY <1>1, <1>2 DEF Finish, Idle
<1>3. ASSUME NEW r \in Requests, NEW p, p # "mark", Goto(r, p) PROVE req'[s] = req[s]
  <2> DEFINE rec == [req[r] EXCEPT !.pc = p]
  <2>1. rec.pc = p
    BY <1>0 DEF Handlers
  <2>2. QED
    BY <1>1, <1>3, <2>1 DEF Goto
<1>4. ASSUME NEW r \in Requests, Arrive(r) PROVE req'[s] = req[s]
  BY <1>1, <1>4 DEF Arrive, StartSetup, StartRegenerate, StartConfirm, StartDisable,
                    StartDelete, StartVerify, Begin, Idle
<1>5. ASSUME NEW r \in Requests, HandlerStep(r), ~\E n \in Steps : Check(r, n)
      PROVE  req'[s] = req[s]
  <2>1. CASE StoreSetup(r) \/ Enable(r) \/ DropSetup(r) \/ WrongCode(r) \/ SignIn(r)
             \/ Lock(r) \/ Disable(r) \/ Replace(r) \/ Erase(r)
    BY <1>2, <1>3, <2>1 DEF StoreSetup, Enable, DropSetup, WrongCode, SignIn, Lock, Disable,
                            Replace, Erase
  <2>2. CASE GetSetup(r)
    <3> DEFINE rec == [req[r] EXCEPT !.pc = "prove", !.secret = pending]
    <3>1. rec.pc = "prove"
      BY <1>0 DEF Handlers
    <3>2. QED
      BY <1>1, <1>2, <2>2, <3>1 DEF GetSetup
  <2>3. CASE LoadUser(r)
    <3> DEFINE rec == [req[r] EXCEPT !.pc = "prove", !.secret = account.secret]
    <3>1. rec.pc = "prove"
      BY <1>0 DEF Handlers
    <3>2. QED
      BY <1>1, <1>2, <2>3, <3>1 DEF LoadUser
  <2>4. CASE Mark(r)
    <3> DEFINE rec == [req[r] EXCEPT !.pc = AfterCode(req[r].op), !.step = 0]
    <3>1. req[r].op \in {"confirm", "verify", "regenerate", "delete"}
      BY <1>0, <2>4 DEF Mark, At, Known
    <3>2. rec.pc # "mark"
      BY <1>0, <3>1 DEF AfterCode, Handlers
    <3>3. QED
      BY <1>1, <1>2, <2>4, <3>2 DEF Mark
  <2>5. CASE \E c \in codes : PickCode(r, c)
    <3> PICK c \in codes : PickCode(r, c)
      BY <2>5
    <3> DEFINE rec == [req[r] EXCEPT !.pc = AfterCode(req[r].op), !.seen = {c.id}]
    <3>1. rec.pc # "mark"
      BY <1>0 DEF PickCode, AfterCode, Handlers
    <3>2. QED
      BY <1>1, <3>1 DEF PickCode
  <2>6. CASE Wipe(r)
    <3> DEFINE rec == [req[r] EXCEPT !.pc = "lock", !.seen = Ids(codes)]
    <3>1. rec.pc = "lock"
      BY <1>0 DEF Handlers
    <3>2. QED
      BY <1>1, <2>6, <3>1 DEF Wipe
  <2>7. QED
    BY <1>5, <2>1, <2>2, <2>3, <2>4, <2>5, <2>6 DEF HandlerStep
<1>6. ASSUME NEW r \in Requests, NEW n \in Steps, Check(r, n)
      PROVE  req'[s] = req[s] \/ (Check(s, n) /\ req'[s].step = n)
  <2> DEFINE rec == [req[r] EXCEPT !.pc = "mark", !.step = n]
  <2>1. rec.step = n
    BY <1>0 DEF Handlers
  <2>2. QED
    BY <1>0, <1>6, <2>1 DEF Check, Become
<1>7. ASSUME (\E l \in Challenges : Login(l) \/ ChallengeExpires(l)) \/ Tick \/ SetupExpires
             \/ UNCHANGED vars
      PROVE  req'[s] = req[s]
  BY <1>7 DEF Login, ChallengeExpires, Tick, SetupExpires, vars
<1>8. ASSUME NEW r \in Requests, Crash(r) PROVE req'[s] = req[s]
  BY <1>2, <1>8 DEF Crash
<1>9. QED
  BY <1>4, <1>5, <1>6, <1>7, <1>8 DEF Next

\* A code is accepted when it has no key, and then has one set at the earliest one step
\* before its own; three steps later the code is no longer valid.
LEMMA ReplayStep == ReplayInv /\ [Next]_vars => ReplayInv'
<1> SUFFICES ASSUME ReplayInv, [Next]_vars PROVE ReplayInv'
  OBVIOUS
<1>1. TypeInv /\ CheckedInTime /\ KeyKept /\ TotpOnce /\ TypeInv'
  BY TypeStep DEF ReplayInv
<1>2. /\ accepted \subseteq TOTPs /\ clock \in Nat
      /\ \A k \in replay : k.at \in Nat
      /\ \A code \in TOTPs : code[2] \in Nat
  <2>1. /\ accepted \subseteq TOTPs /\ clock \in 0..MaxClock
        /\ replay \subseteq [code : TOTPs, at : 0..MaxClock]
    BY <1>1 DEF TypeInv, TypeOK
  <2>2. \A k \in replay : k.at \in 0..MaxClock
    BY <2>1
  <2>3. \A code \in TOTPs : code[2] \in Nat
    BY TwoFactorAssumption DEF TOTPs
  <2>4. 0..MaxClock \subseteq Nat
    BY TwoFactorAssumption
  <2>5. QED
    BY <2>1, <2>2, <2>3, <2>4
<1>3. CheckedInTime'
  <2>1. clock' = clock \/ clock' = clock + 1
    BY ReplayChanges DEF Mark, Tick
  <2>2. ASSUME NEW s \in Requests, req'[s].pc = "mark" PROVE req'[s].step <= clock' + 1
    <3>1. CASE req'[s] = req[s]
      <4>1. req[s].step \in Nat
        BY TwoFactorAssumption, <1>1, <2>2, <3>1 DEF TypeInv, Known
      <4>2. QED
        BY <1>1, <1>2, <2>1, <2>2, <3>1, <4>1 DEF CheckedInTime
    <3>2. CASE \E n \in Steps : Check(s, n) /\ req'[s].step = n
      BY <3>2 DEF Check, Valid
    <3>3. QED
      BY <1>1, <2>2, <3>1, <3>2, MarkAfterCheck
  <2>3. QED
    BY <2>2 DEF CheckedInTime
<1>4. CASE UNCHANGED <<replay, accepted, twice, clock>>
  BY <1>1, <1>3, <1>4 DEF ReplayInv, KeyKept, TotpOnce
<1>5. ASSUME NEW r \in Requests, Mark(r) PROVE ReplayInv'
  <2> DEFINE n    == req[r].step
             code == <<req[r].secret, n>>
             key  == [code |-> code, at |-> clock]
  <2>1. CASE \E k \in replay : k.code = code
    <3>1. UNCHANGED <<replay, accepted, twice, clock>>
      BY <1>5, <2>1 DEF Mark, past
    <3>2. QED
      BY <1>4, <3>1
  <2>2. CASE ~\E k \in replay : k.code = code
    <3>1. /\ replay' = replay \cup {key} /\ accepted' = accepted \cup {code} /\ clock' = clock
          /\ twice' = IF Valid(n) THEN twice \cup ({code} \cap accepted) ELSE twice
      BY <1>5, <2>2 DEF Mark
    <3>2. n <= clock + 1 /\ n \in Nat
      BY <1>1, <1>5, TwoFactorAssumption DEF CheckedInTime, Mark, At, TypeInv, Known
    <3>3. Valid(n) => code \notin accepted
      BY <1>1, <1>2, <2>2, <3>2 DEF KeyKept, Valid
    <3>4. TotpOnce'
      BY <1>1, <3>1, <3>3 DEF TotpOnce
    <3>5. KeyKept'
      <4>1. key \in replay' /\ key.code = code /\ code[2] <= key.at + 1
        BY <3>1, <3>2
      <4>2. replay \subseteq replay'
        BY <3>1
      <4> HIDE DEF key
      <4>3. QED
        BY <1>1, <3>1, <4>1, <4>2 DEF KeyKept
    <3>6. QED
      BY <1>1, <1>3, <3>4, <3>5 DEF ReplayInv
  <2>3. QED
    BY <2>1, <2>2
<1>6. CASE Tick
  <2>1. TotpOnce' /\ accepted' = accepted /\ clock' = clock + 1
    BY <1>1, <1>6 DEF Tick, TotpOnce, past
  <2>2. ASSUME NEW code \in accepted, ~(code[2] + 1 < clock + 1)
        PROVE  \E k \in replay' : k.code = code /\ code[2] <= k.at + 1
    <3>1. code[2] \in Nat /\ ~(code[2] + 1 < clock)
      BY <1>2, <2>2
    <3>2. PICK k \in replay : k.code = code /\ code[2] <= k.at + 1
      BY <1>1, <3>1 DEF KeyKept
    <3>3. clock + 1 < k.at + 3
      BY <1>2, <2>2, <3>1, <3>2
    <3>4. k \in replay'
      BY <1>6, <3>3 DEF Tick, Live, KeySteps
    <3>5. QED
      BY <3>2, <3>4
  <2>3. KeyKept'
    BY <2>1, <2>2 DEF KeyKept
  <2>4. QED
    BY <1>1, <1>3, <2>1, <2>3 DEF ReplayInv
<1>7. QED
  BY <1>4, <1>5, <1>6, ReplayChanges

\* No TOTP code is accepted again while it is valid, across confirmation, sign-in,
\* regeneration and deletion: the 90 seconds of a replay key cover that time.
THEOREM CodeAcceptedOnce == Spec => []TotpOnce
<1>1. ReplayInv => TotpOnce
  BY DEF ReplayInv
<1>2. QED
  BY <1>1, ReplayInit, ReplayStep, PTL DEF Spec
-----------------------------------------------------------------------------
(* Backup codes, one request at a time *)

\* One row while two-factor is on, none while it is off; a is the account, C the rows.
Batch(a, C) == IF a.enabled THEN \E c \in C : C = {c} ELSE C = {}

\* What a handler that runs alone may rely on in each of its steps.
Steady(q, a, C) ==
    /\ q.pc = "idle" => q = Idle
    /\ q.op = "confirm" /\ q.pc # "drop_setup" => ~a.enabled
    /\ q.op = "regenerate" => a.enabled
    /\ q.pc = "enable" => q.op = "confirm"
    /\ q.pc \in {"lock", "commit"} => q.seen = Ids(C)
    /\ q.pc \in {"get_setup", "prove", "mark", "load"} => q.seen = {}

Alone == \A r, s \in Requests : ~At(r, "idle") /\ ~At(s, "idle") => r = s

BatchInv ==
    ~disturbed => /\ Alone
                  /\ Batch(account, codes)
                  /\ \A r \in Requests : Steady(req[r], account, codes)

\* A handler that is done relies on nothing.
LEMMA IdleSteady == ASSUME NEW a, NEW C PROVE Steady(Idle, a, C)
BY DEF Steady, Idle

\* Nothing is on and no request under way at first.
LEMMA BatchInit == Init => BatchInv
<1> SUFFICES ASSUME Init PROVE BatchInv
  OBVIOUS
<1>1. \A r \in Requests : req[r] = Idle
  BY DEF Init
<1>2. Alone
  BY <1>1 DEF Alone, At, Idle
<1>3. Batch(account, codes)
  BY DEF Init, Off, Batch
<1>4. QED
  BY <1>1, <1>2, <1>3, IdleSteady DEF BatchInv

\* While nothing overlaps, the others are idle when one handler takes a step.
LEMMA OthersIdle ==
    ASSUME BatchInv, ~disturbed, NEW r \in Requests, req[r].pc # "idle"
    PROVE  \A s \in Requests \ {r} : req[s] = Idle
BY DEF BatchInv, Alone, At, Steady

\* The step of the one handler under way keeps the invariant if it leaves one batch and
\* what the handler will rely on.
LEMMA LoneStep ==
    ASSUME TypeInv, NEW r \in Requests, NEW rec, Become(r, rec),
           \A s \in Requests \ {r} : req[s] = Idle,
           Batch(account', codes'), Steady(rec, account', codes')
    PROVE  BatchInv'
<1>1. \A s \in Requests : req'[s] = IF s = r THEN rec ELSE req[s]
  BY DEF Become, TypeInv, TypeOK
<1>2. ASSUME NEW s \in Requests PROVE Steady(req[s], account, codes)'
  <2>1. CASE s = r
    <3>1. req'[s] = rec
      BY <1>1, <2>1
    <3>2. QED
      BY <3>1 DEF Steady
  <2>2. CASE s # r
    <3>1. req'[s] = Idle
      BY <1>1, <2>2
    <3>2. Steady(Idle, account', codes')
      BY IdleSteady
    <3>3. QED
      BY <3>1, <3>2 DEF Steady
  <2>3. QED
    BY <2>1, <2>2
<1>3. Alone'
  <2>1. \A s \in Requests \ {r} : req'[s] = Idle
    BY <1>1
  <2>2. QED
    BY <2>1 DEF Alone, At, Idle
<1>4. Batch(account, codes)'
  BY DEF Batch
<1>5. QED
  BY <1>2, <1>3, <1>4 DEF BatchInv

\* The end of the one handler under way.
LEMMA LoneEnd ==
    ASSUME TypeInv, BatchInv, ~disturbed, NEW r \in Requests, req[r].pc # "idle", Finish(r),
           Batch(account', codes')
    PROVE  BatchInv'
<1>1. \A s \in Requests \ {r} : req[s] = Idle
  BY OthersIdle
<1>2. Steady(Idle, account', codes')
  BY IdleSteady
<1>3. QED
  BY <1>1, <1>2, LoneStep DEF Finish

\* A request that arrives while none is under way.
LEMMA BatchArrive ==
    ASSUME TypeInv, BatchInv, ~disturbed', NEW r \in Requests, Arrive(r) PROVE BatchInv'
<1>1. UNCHANGED <<account, codes>>
  BY DEF Arrive, StartSetup, StartRegenerate, StartConfirm, StartDisable, StartDelete,
         StartVerify, store
<1>2. ASSUME NEW rec, Begin(r, rec), Steady(rec, account, codes) PROVE BatchInv'
  <2>1. ~disturbed /\ \A s \in Requests : req[s].pc = "idle"
    BY <1>2 DEF Begin, At, TypeInv, TypeOK
  <2>2. Batch(account, codes) /\ \A s \in Requests : req[s] = Idle
    BY <2>1 DEF BatchInv, Steady
  <2>3. account' = account /\ codes' = codes
    BY <1>1
  <2>4. QED
    BY <1>2, <2>2, <2>3, LoneStep DEF Begin
<1>3. CASE \E d \in Draws : StartSetup(r, d)
  <2> PICK d \in Draws : StartSetup(r, d)
    BY <1>3
  <2>1. QED
    BY <1>2 DEF StartSetup, Steady, Idle
<1>4. CASE \E d \in Draws : StartRegenerate(r, d)
  <2> PICK d \in Draws : StartRegenerate(r, d)
    BY <1>4
  <2>1. QED
    BY <1>2 DEF StartRegenerate, Steady, Idle
<1>5. CASE StartConfirm(r)
  BY <1>2, <1>5 DEF StartConfirm, Steady, Idle
<1>6. CASE StartDisable(r)
  BY <1>2, <1>6 DEF StartDisable, Steady, Idle
<1>7. CASE StartDelete(r)
  BY <1>2, <1>7 DEF StartDelete, Steady, Idle
<1>8. CASE \E l \in Challenges : StartVerify(r, l)
  <2> PICK l \in Challenges : StartVerify(r, l)
    BY <1>8
  <2>1. QED
    BY <1>2 DEF StartVerify, Steady, Idle
<1>9. QED
  BY <1>3, <1>4, <1>5, <1>6, <1>7, <1>8 DEF Arrive

\* Steps that leave the account and its codes alone.
LEMMA BatchQuiet ==
    ASSUME TypeInv, BatchInv, ~disturbed', NEW r \in Requests,
           \/ StoreSetup(r) \/ GetSetup(r) \/ DropSetup(r)
           \/ \E n \in Steps : Check(r, n)
           \/ Mark(r)
           \/ WrongCode(r)
           \/ \E c \in codes : PickCode(r, c)
           \/ LoadUser(r) \/ Wipe(r) \/ Lock(r)
    PROVE  BatchInv'
<1>0. /\ ~disturbed /\ account' = account /\ codes' = codes /\ req[r].pc # "idle"
  <2>1. CASE StoreSetup(r) \/ GetSetup(r) \/ DropSetup(r) \/ WrongCode(r)
    BY <2>1 DEF StoreSetup, GetSetup, DropSetup, WrongCode, At, store
  <2>2. CASE \E n \in Steps : Check(r, n)
    <3> PICK n \in Steps : Check(r, n)
      BY <2>2
    <3>1. QED
      BY DEF Check, At, store
  <2>3. CASE \E c \in codes : PickCode(r, c)
    <3> PICK c \in codes : PickCode(r, c)
      BY <2>3
    <3>1. QED
      BY DEF PickCode, At, store
  <2>4. CASE Mark(r) \/ LoadUser(r) \/ Wipe(r) \/ Lock(r)
    BY <2>4 DEF Mark, LoadUser, Wipe, Lock, At, store
  <2>5. QED
    BY <2>1, <2>2, <2>3, <2>4
<1>1. /\ req[r] \in Handlers /\ Known(req[r], drawn, proven) /\ Steady(req[r], account, codes)
      /\ Batch(account, codes) /\ Batch(account', codes')
  BY <1>0 DEF TypeInv, TypeOK, BatchInv
<1>2. \A s \in Requests \ {r} : req[s] = Idle
  BY <1>0, OthersIdle
<1>3. ASSUME NEW rec, Become(r, rec), Steady(rec, account, codes) PROVE BatchInv'
  BY <1>0, <1>1, <1>2, <1>3, LoneStep
<1>4. CASE Finish(r)
  BY <1>0, <1>1, <1>4, LoneEnd
<1>5. CASE GetSetup(r) /\ ~Finish(r)
  <2> DEFINE rec == [req[r] EXCEPT !.pc = "prove", !.secret = pending]
  <2>1. Become(r, rec) /\ req[r].pc = "get_setup"
    BY <1>5 DEF GetSetup, At
  <2>2. rec.pc = "prove" /\ rec.op = req[r].op /\ rec.seen = req[r].seen
    BY <1>1 DEF Handlers
  <2> HIDE DEF rec
  <2>3. Steady(rec, account, codes)
    BY <1>1, <2>1, <2>2 DEF Steady
  <2>4. QED
    BY <1>3, <2>1, <2>3
<1>6. CASE \E n \in Steps : Check(r, n)
  <2> PICK n \in Steps : Check(r, n)
    BY <1>6
  <2> DEFINE rec == [req[r] EXCEPT !.pc = "mark", !.step = n]
  <2>1. Become(r, rec) /\ req[r].pc = "prove"
    BY DEF Check, At
  <2>2. rec.pc = "mark" /\ rec.op = req[r].op /\ rec.seen = req[r].seen
    BY <1>1 DEF Handlers
  <2> HIDE DEF rec
  <2>3. Steady(rec, account, codes)
    BY <1>1, <2>1, <2>2 DEF Steady
  <2>4. QED
    BY <1>3, <2>1, <2>3
<1>7. CASE Mark(r) /\ ~Finish(r)
  <2> DEFINE rec == [req[r] EXCEPT !.pc = AfterCode(req[r].op), !.step = 0]
  <2>1. Become(r, rec) /\ req[r].pc = "mark"
    BY <1>7 DEF Mark, At
  <2>2. rec.pc = AfterCode(req[r].op) /\ rec.op = req[r].op /\ rec.seen = req[r].seen
    BY <1>1 DEF Handlers
  <2>3. req[r].seen = {} /\ req[r].op \in {"confirm", "verify", "regenerate", "delete"}
    BY <1>1, <2>1 DEF Steady, Known
  <2> HIDE DEF rec
  <2>4. rec.pc \in {"enable", "sign_in", "wipe", "erase"}
        /\ (rec.pc = "enable" => rec.op = "confirm")
    BY <2>2, <2>3 DEF AfterCode
  <2>5. Steady(rec, account, codes)
    BY <1>1, <2>1, <2>2, <2>3, <2>4 DEF Steady
  <2>6. QED
    BY <1>3, <2>1, <2>5
<1>8. CASE \E c \in codes : PickCode(r, c)
  <2> PICK c \in codes : PickCode(r, c)
    BY <1>8
  <2> DEFINE rec == [req[r] EXCEPT !.pc = AfterCode(req[r].op), !.seen = {c.id}]
  <2>1. Become(r, rec) /\ req[r].pc = "prove" /\ req[r].op \in {"verify", "delete"} /\ ~c.used
    BY DEF PickCode, At
  <2>2. rec.pc = AfterCode(req[r].op) /\ rec.op = req[r].op /\ rec.seen = {c.id}
    BY <1>1 DEF Handlers
  <2>3. codes = {c}
    BY <1>1 DEF Batch
  <2> HIDE DEF rec
  <2>4. rec.pc \in {"sign_in", "erase"}
    BY <2>1, <2>2 DEF AfterCode
  <2>5. Steady(rec, account, codes)
    BY <1>1, <2>1, <2>2, <2>3, <2>4 DEF Steady
  <2>6. QED
    BY <1>3, <2>1, <2>5
<1>9. CASE LoadUser(r) /\ ~Finish(r)
  <2> DEFINE rec == [req[r] EXCEPT !.pc = "prove", !.secret = account.secret]
  <2>1. Become(r, rec) /\ req[r].pc = "load"
    BY <1>9 DEF LoadUser, At
  <2>2. rec.pc = "prove" /\ rec.op = req[r].op /\ rec.seen = req[r].seen
    BY <1>1 DEF Handlers
  <2> HIDE DEF rec
  <2>3. Steady(rec, account, codes)
    BY <1>1, <2>1, <2>2 DEF Steady
  <2>4. QED
    BY <1>3, <2>1, <2>3
<1>10. CASE Wipe(r)
  <2> DEFINE rec == [req[r] EXCEPT !.pc = "lock", !.seen = Ids(codes)]
  <2>1. Become(r, rec) /\ req[r].pc = "wipe"
    BY <1>10 DEF Wipe, At
  <2>2. rec.pc = "lock" /\ rec.op = req[r].op /\ rec.seen = Ids(codes)
    BY <1>1 DEF Handlers
  <2> HIDE DEF rec
  <2>3. Steady(rec, account, codes)
    BY <1>1, <2>1, <2>2 DEF Steady
  <2>4. QED
    BY <1>3, <2>1, <2>3
<1>11. CASE Lock(r)
  <2> DEFINE rec == [req[r] EXCEPT !.pc = "commit"]
  <2>1. Become(r, rec) /\ req[r].pc = "lock"
    BY <1>11 DEF Lock, At, Goto
  <2>2. rec.pc = "commit" /\ rec.op = req[r].op /\ rec.seen = req[r].seen
    BY <1>1 DEF Handlers
  <2> HIDE DEF rec
  <2>3. Steady(rec, account, codes)
    BY <1>1, <2>1, <2>2 DEF Steady
  <2>4. QED
    BY <1>3, <2>1, <2>3
<1>12. QED
  BY <1>4, <1>5, <1>6, <1>7, <1>8, <1>9, <1>10, <1>11 DEF StoreSetup, DropSetup, WrongCode

\* The five commits that write the account or its codes.
LEMMA BatchCommit ==
    ASSUME TypeInv, BatchInv, ~disturbed', NEW r \in Requests,
           Enable(r) \/ SignIn(r) \/ Disable(r) \/ Replace(r) \/ Erase(r)
    PROVE  BatchInv'
<1>0. ~disturbed /\ req[r].pc # "idle"
  <2>1. CASE SignIn(r)
    BY <2>1 DEF SignIn, At
  <2>2. CASE Enable(r) \/ Disable(r) \/ Replace(r) \/ Erase(r)
    BY <2>2 DEF Enable, Disable, Replace, Erase, At
  <2>3. QED
    BY <2>1, <2>2
<1>1. /\ req[r] \in Handlers /\ account \in Accounts /\ Steady(req[r], account, codes)
      /\ Batch(account, codes)
  BY <1>0 DEF TypeInv, TypeOK, BatchInv
<1>2. \A s \in Requests \ {r} : req[s] = Idle
  BY <1>0, OthersIdle
<1>3. CASE UNCHANGED <<account, codes>> /\ Finish(r)
  BY <1>0, <1>1, <1>3, LoneEnd
<1>4. CASE Enable(r) /\ account.exists
  <2> DEFINE rec == [req[r] EXCEPT !.pc = "drop_setup"]
             row == NewRow(req[r].secret, codes)
  <2>1. /\ Become(r, rec) /\ req[r].pc = "enable"
        /\ account' = [account EXCEPT !.enabled = TRUE, !.secret = req[r].secret]
        /\ codes' = codes \cup {row}
    BY <1>4 DEF Enable, At, Goto, Inserted
  <2>2. rec.pc = "drop_setup" /\ rec.op = req[r].op
    BY <1>1 DEF Handlers
  <2>3. req[r].op = "confirm" /\ ~account.enabled
    BY <1>1, <2>1 DEF Steady
  <2>4. account'.enabled /\ codes' = {row}
    BY <1>1, <2>1, <2>3 DEF Batch, Accounts
  <2> HIDE DEF rec, row
  <2>5. Batch(account', codes')
    BY <2>4 DEF Batch
  <2>6. Steady(rec, account', codes')
    BY <2>2, <2>3 DEF Steady
  <2>7. QED
    BY <1>2, <2>1, <2>5, <2>6, LoneStep
<1>5. CASE SignIn(r) /\ ~UNCHANGED codes
  <2> DEFINE mark(c) == [c EXCEPT !.used = TRUE, !.spent = @ \/ ~Contended(r, c)]
  <2>1. /\ codes' = Without(req[r].seen) \cup {mark(c) : c \in Offered(r)}
        /\ account' = account /\ Finish(r)
    BY <1>5 DEF SignIn
  <2>2. Batch(account', codes')
    <3>1. CASE ~account.enabled
      <4>1. codes = {}
        BY <1>1, <3>1 DEF Batch
      <4>2. codes' = {}
        BY <2>1, <4>1 DEF Without, Offered
      <4>3. QED
        BY <2>1, <3>1, <4>2 DEF Batch
    <3>2. CASE account.enabled
      <4>1. PICK k \in codes : codes = {k}
        BY <1>1, <3>2 DEF Batch
      <4>2. codes' = {k} \/ codes' = {mark(k)}
        <5>1. CASE k.id \in req[r].seen
          <6>1. Without(req[r].seen) = {} /\ Offered(r) = {k}
            BY <4>1, <5>1 DEF Without, Offered
          <6>2. QED
            BY <2>1, <6>1
        <5>2. CASE k.id \notin req[r].seen
          <6>1. Without(req[r].seen) = {k} /\ Offered(r) = {}
            BY <4>1, <5>2 DEF Without, Offered
          <6>2. QED
            BY <2>1, <6>1
        <5>3. QED
          BY <5>1, <5>2
      <4>3. \E c \in codes' : codes' = {c}
        BY <4>2
      <4>4. QED
        BY <2>1, <3>2, <4>3 DEF Batch
    <3>3. QED
      BY <3>1, <3>2
  <2>3. QED
    BY <1>0, <2>1, <2>2, LoneEnd
<1>6. CASE Disable(r) /\ account.exists
  <2>1. /\ req[r].pc = "commit" /\ codes' = Without(req[r].seen) /\ Finish(r)
        /\ account' = [account EXCEPT !.enabled = FALSE, !.secret = None]
    BY <1>6 DEF Disable, At
  <2>2. codes' = {} /\ ~account'.enabled
    BY <1>1, <2>1 DEF Steady, Without, Ids, Accounts
  <2>3. Batch(account', codes')
    BY <2>2 DEF Batch
  <2>4. QED
    BY <1>0, <2>1, <2>3, LoneEnd
<1>7. CASE Replace(r) /\ account.exists
  <2> DEFINE row == NewRow(req[r].draw, Without(req[r].seen))
  <2>1. /\ req[r].pc = "commit" /\ req[r].op = "regenerate" /\ Finish(r) /\ account' = account
        /\ codes' = Without(req[r].seen) \cup {row}
    BY <1>7 DEF Replace, At, Inserted
  <2> HIDE DEF row
  <2>2. Without(req[r].seen) = {} /\ account.enabled
    BY <1>1, <2>1 DEF Steady, Without, Ids
  <2>3. Batch(account', codes')
    BY <2>1, <2>2 DEF Batch
  <2>4. QED
    BY <1>0, <2>1, <2>3, LoneEnd
<1>8. CASE Erase(r)
  <2>1. account'.enabled = FALSE /\ codes' = {} /\ Finish(r)
    BY <1>8 DEF Erase, Off
  <2>2. Batch(account', codes')
    BY <2>1 DEF Batch
  <2>3. QED
    BY <1>0, <2>1, <2>2, LoneEnd
<1>9. QED
  BY <1>3, <1>4, <1>5, <1>6, <1>7, <1>8 DEF Enable, SignIn, Disable, Replace, store

\* Every step, overlap or not, keeps the invariant.
LEMMA BatchStep == TypeInv /\ BatchInv /\ [Next]_vars => BatchInv'
<1> SUFFICES ASSUME TypeInv, BatchInv, [Next]_vars, ~disturbed' PROVE BatchInv'
  BY DEF BatchInv
<1>1. ASSUME NEW r \in Requests, HandlerStep(r) PROVE BatchInv'
  BY <1>1, BatchQuiet, BatchCommit DEF HandlerStep
<1>2. CASE (\E l \in Challenges : Login(l) \/ ChallengeExpires(l)) \/ Tick \/ SetupExpires
             \/ UNCHANGED vars
  <2>1. UNCHANGED <<account, codes, req, disturbed>>
    BY <1>2 DEF Login, ChallengeExpires, Tick, SetupExpires, vars, store
  <2>2. QED
    BY <2>1 DEF BatchInv, Alone, At, Batch, Steady, Ids
<1>3. ASSUME NEW r \in Requests, Crash(r) PROVE FALSE
  BY <1>3 DEF Crash
<1>4. QED
  BY <1>1, <1>2, <1>3, BatchArrive DEF Next

\* While requests do not overlap and none dies, there is one batch of backup codes
\* exactly while two-factor is on: each commit writes flag and batch together, and what
\* a DELETE saw when it started is what there still is when it commits.
THEOREM OneBatchWhileOn == Spec => []OneBatchAlone
<1>1. ASSUME BatchInv PROVE OneBatchAlone
  <2> SUFFICES ASSUME ~disturbed PROVE Cardinality(codes) = IF account.enabled THEN 1 ELSE 0
    BY DEF OneBatchAlone
  <2>1. CASE account.enabled
    <3>1. PICK c \in codes : codes = {c}
      BY <1>1, <2>1 DEF BatchInv, Batch
    <3>2. QED
      BY <2>1, <3>1, FS_Singleton
  <2>2. CASE ~account.enabled
    <3>1. codes = {}
      BY <1>1, <2>2 DEF BatchInv, Batch
    <3>2. QED
      BY <2>2, <3>1, FS_EmptySet
  <2>3. QED
    BY <2>1, <2>2
<1>2. QED
  BY <1>1, TypeInit, TypeStep, BatchInit, BatchStep, PTL DEF Spec

-----------------------------------------------------------------------------
(* Backup codes *)

\* Only a sign-in and a deletion by code get hold of a single row.
Role(q) ==
    /\ q.pc = "sign_in" => q.op = "verify"
    /\ q.pc = "erase" => q.op = "delete"
    /\ q.pc = "wipe" => q.op \in {"disable", "regenerate"}
    /\ q.pc = "enable" => q.op = "confirm"

\* No row in C that q has read to sign in or to delete the account has signed in.
Unspent(q, C) == q.op \in {"verify", "delete"} => \A c \in C : c.id \in q.seen => ~c.spent

\* Rows are told apart by their ids, and a spent one is marked.
Marked(C) == /\ \A a, b \in C : a.id = b.id => a = b
             /\ \A c \in C : c.spent => c.used

SpentInv ==
    /\ Marked(codes)
    /\ \A r \in Requests : Role(req[r]) /\ Unspent(req[r], codes)

\* What is left to show of a step of r that leaves it with the record rec.
LEMMA SpentClose ==
    ASSUME TypeInv, SpentInv, NEW r \in Requests, NEW rec, Become(r, rec),
           Role(rec), Unspent(rec, codes'), Marked(codes'),
           \A s \in Requests \ {r} : Unspent(req[s], codes')
    PROVE  SpentInv'
<1>1. \A s \in Requests : req'[s] = IF s = r THEN rec ELSE req[s]
  BY DEF Become, TypeInv, TypeOK
<1>2. ASSUME NEW s \in Requests PROVE Role(req'[s]) /\ Unspent(req'[s], codes')
  BY <1>1 DEF SpentInv
<1>3. QED
  BY <1>2 DEF SpentInv, Marked, Role, Unspent

\* A step that only takes rows away.
LEMMA SpentFewer ==
    ASSUME TypeInv, SpentInv, NEW r \in Requests, NEW rec, Become(r, rec), Role(rec),
           codes' \subseteq codes, Unspent(rec, codes)
    PROVE  SpentInv'
<1>1. Unspent(rec, codes') /\ \A s \in Requests \ {r} : Unspent(req[s], codes')
  BY DEF SpentInv, Unspent
<1>2. Marked(codes')
  BY DEF SpentInv, Marked
<1>3. QED
  BY <1>1, <1>2, SpentClose

\* A handler that ends has no row.
LEMMA SpentEnd ==
    ASSUME TypeInv, SpentInv, NEW r \in Requests, Finish(r), codes' \subseteq codes
    PROVE  SpentInv'
<1>1. Role(Idle) /\ Unspent(Idle, codes)
  BY DEF Role, Unspent, Idle
<1>2. QED
  BY <1>1, SpentFewer DEF Finish

\* A handler that goes on with the rows it had, or with none.
LEMMA SpentOn ==
    ASSUME TypeInv, SpentInv, NEW r \in Requests, NEW rec, Become(r, rec), Role(rec), codes' = codes,
           rec.seen = {} \/ (rec.op = req[r].op /\ rec.seen = req[r].seen)
    PROVE  SpentInv'
<1>1. Unspent(rec, codes)
  BY DEF SpentInv, Unspent
<1>2. QED
  BY <1>1, SpentFewer

\* The insertion of a batch by a handler other than a sign-in.
LEMMA SpentInsert ==
    ASSUME TypeInv, SpentInv, NEW r \in Requests, NEW rec, Become(r, rec), Role(rec),
           rec.op \notin {"verify", "delete"},
           NEW S \in SUBSET codes, NEW d \in Draws, codes' = Inserted(d, S)
    PROVE  SpentInv'
<1> DEFINE row == NewRow(d, S)
<1>1. codes \subseteq Rows /\ IsFiniteSet(S) /\ \A s \in Requests : IsFiniteSet(req[s].seen)
  BY FS_Subset DEF TypeInv, TypeOK, StoreKnown, Known
<1>2. row.id \notin Ids(S) \cup InMind /\ ~row.spent
  BY <1>1, InsertedType
<1>3. codes' = S \cup {row}
  BY DEF Inserted
<1> HIDE DEF row
<1>4. \A c \in S : c.id # row.id
  BY <1>2 DEF Ids
<1>5. \A s \in Requests : row.id \notin req[s].seen
  BY <1>2 DEF InMind
<1>6. Marked(codes')
  BY <1>2, <1>3, <1>4 DEF SpentInv, Marked
<1>7. \A s \in Requests \ {r} : Unspent(req[s], codes')
  BY <1>3, <1>5 DEF SpentInv, Unspent
<1>8. Unspent(rec, codes')
  BY DEF Unspent
<1>9. QED
  BY <1>6, <1>7, <1>8, SpentClose

\* A handler that arrives has read no row.
LEMMA SpentArrive == ASSUME TypeInv, SpentInv, NEW r \in Requests, Arrive(r) PROVE SpentInv'
<1>1. codes' = codes
  BY DEF Arrive, StartSetup, StartRegenerate, StartConfirm, StartDisable, StartDelete,
         StartVerify, store
<1>2. ASSUME NEW rec, Begin(r, rec), rec.seen = {}, Role(rec) PROVE SpentInv'
  BY <1>1, <1>2, SpentOn DEF Begin
<1>3. ASSUME NEW d, StartSetup(r, d) PROVE SpentInv'
  BY <1>2, <1>3 DEF StartSetup, Idle, Role
<1>4. ASSUME NEW d, StartRegenerate(r, d) PROVE SpentInv'
  BY <1>2, <1>4 DEF StartRegenerate, Idle, Role
<1>5. CASE StartConfirm(r)
  BY <1>2, <1>5 DEF StartConfirm, Idle, Role
<1>6. CASE StartDisable(r)
  BY <1>2, <1>6 DEF StartDisable, Idle, Role
<1>7. CASE StartDelete(r)
  BY <1>2, <1>7 DEF StartDelete, Idle, Role
<1>8. ASSUME NEW l, StartVerify(r, l) PROVE SpentInv'
  BY <1>2, <1>8 DEF StartVerify, Idle, Role
<1>9. QED
  BY <1>3, <1>4, <1>5, <1>6, <1>7, <1>8 DEF Arrive

\* A code is offered: of the rows only an unused one is read, which has not signed in.
LEMMA SpentCode ==
    ASSUME TypeInv, SpentInv, NEW r \in Requests,
           \/ \E n \in Steps : Check(r, n)
           \/ Mark(r)
           \/ WrongCode(r)
           \/ \E c \in codes : PickCode(r, c)
    PROVE  SpentInv'
<1>1. req[r] \in Handlers /\ Known(req[r], drawn, proven)
  BY DEF TypeInv, TypeOK
<1>2. ASSUME NEW n, Check(r, n) PROVE SpentInv'
  <2> DEFINE rec == [req[r] EXCEPT !.pc = "mark", !.step = n]
  <2>1. Become(r, rec) /\ codes' = codes
    BY <1>2 DEF Check, store
  <2>2. rec.pc = "mark" /\ rec.op = req[r].op /\ rec.seen = req[r].seen
    BY <1>1 DEF Handlers
  <2> HIDE DEF rec
  <2>3. QED
    BY <2>1, <2>2, SpentOn DEF Role
<1>3. CASE Mark(r) /\ ~Finish(r)
  <2> DEFINE rec == [req[r] EXCEPT !.pc = AfterCode(req[r].op), !.step = 0]
  <2>1. Become(r, rec) /\ codes' = codes /\ req[r].pc = "mark"
    BY <1>3 DEF Mark, At, store
  <2>2. rec.pc = AfterCode(req[r].op) /\ rec.op = req[r].op /\ rec.seen = req[r].seen
    BY <1>1 DEF Handlers
  <2> HIDE DEF rec
  <2>3. Role(rec)
    BY <1>1, <2>1, <2>2 DEF Known, AfterCode, Role
  <2>4. QED
    BY <2>1, <2>2, <2>3, SpentOn
<1>4. CASE Finish(r)
  <2>1. codes' = codes
    BY DEF Check, Mark, WrongCode, PickCode, store
  <2>2. QED
    BY <1>4, <2>1, SpentEnd
<1>5. ASSUME NEW c \in codes, PickCode(r, c) PROVE SpentInv'
  <2> DEFINE rec == [req[r] EXCEPT !.pc = AfterCode(req[r].op), !.seen = {c.id}]
  <2>1. Become(r, rec) /\ codes' = codes /\ ~c.used /\ req[r].op \in {"verify", "delete"}
    BY <1>5 DEF PickCode, store
  <2>2. rec.pc = AfterCode(req[r].op) /\ rec.op = req[r].op /\ rec.seen = {c.id}
    BY <1>1 DEF Handlers
  <2> HIDE DEF rec
  <2>3. Role(rec)
    BY <2>1, <2>2 DEF AfterCode, Role
  <2>4. Unspent(rec, codes)
    BY <2>1, <2>2 DEF SpentInv, Marked, Unspent
  <2>5. QED
    BY <2>1, <2>3, <2>4, SpentFewer
<1>6. QED
  BY <1>2, <1>3, <1>4, <1>5 DEF WrongCode

\* A sign-in marks the row it read; it counts as spent when no other request has read it.
LEMMA SpentSignIn == ASSUME TypeInv, SpentInv, NEW r \in Requests, SignIn(r) PROVE SpentInv'
<1> DEFINE mark(c) == [c EXCEPT !.used = TRUE, !.spent = @ \/ ~Contended(r, c)]
<1>1. Finish(r)
  BY DEF SignIn
<1>2. CASE codes' = codes
  BY <1>1, <1>2, SpentEnd
<1>3. CASE codes' = Without(req[r].seen) \cup {mark(c) : c \in Offered(r)}
  <2>1. \A c \in Offered(r) : c \in codes /\ c.id \in req[r].seen
    BY DEF Offered
  <2>2. \A c \in Without(req[r].seen) : c \in codes /\ c.id \notin req[r].seen
    BY DEF Without
  <2>3. ASSUME NEW c \in codes
        PROVE  mark(c).id = c.id /\ mark(c).used = TRUE /\ mark(c).spent = (c.spent \/ ~Contended(r, c))
    BY DEF TypeInv, TypeOK, Rows
  <2> HIDE DEF mark
  <2>4. Marked(codes')
    <3>1. ASSUME NEW a \in codes'
          PROVE  \E o \in codes : /\ o.id = a.id
                                 /\ \/ a = o /\ o.id \notin req[r].seen
                                    \/ a = mark(o) /\ o.id \in req[r].seen
      <4>1. CASE a \in Without(req[r].seen)
        BY <2>2, <4>1
      <4>2. ASSUME NEW o \in Offered(r), a = mark(o)
            PROVE  o \in codes /\ o.id = a.id /\ o.id \in req[r].seen
        BY <2>1, <2>3, <4>2
      <4>3. QED
        BY <1>3, <4>1, <4>2
    <3>2. ASSUME NEW a \in codes', NEW b \in codes', a.id = b.id PROVE a = b
      BY <3>1, <3>2 DEF SpentInv, Marked
    <3>3. ASSUME NEW a \in codes', a.spent PROVE a.used
      <4>1. PICK o \in codes : a = o \/ a = mark(o)
        BY <3>1
      <4>2. mark(o).used
        BY <2>3
      <4>3. QED
        BY <3>3, <4>1, <4>2 DEF SpentInv, Marked
    <3>4. QED
      BY <3>2, <3>3 DEF Marked
  <2>5. ASSUME NEW s \in Requests \ {r} PROVE Unspent(req[s], codes')
    <3> SUFFICES ASSUME req[s].op \in {"verify", "delete"}, NEW c \in codes', c.id \in req[s].seen
                 PROVE  ~c.spent
      BY DEF Unspent
    <3>1. CASE c \in Without(req[r].seen)
      BY <2>2, <3>1 DEF SpentInv, Unspent
    <3>2. ASSUME NEW o \in Offered(r), c = mark(o) PROVE ~c.spent
      <4>1. o \in codes /\ o.id \in req[s].seen
        BY <2>1, <2>3, <3>2
      <4>2. ~o.spent /\ Contended(r, o)
        BY <4>1 DEF SpentInv, Unspent, Contended
      <4>3. QED
        BY <2>3, <3>2, <4>1, <4>2
    <3>3. QED
      BY <1>3, <3>1, <3>2
  <2>6. Role(Idle) /\ Unspent(Idle, codes')
    BY DEF Role, Unspent, Idle
  <2>7. QED
    BY <1>1, <2>4, <2>5, <2>6, SpentClose DEF Finish
<1>4. QED
  BY <1>2, <1>3 DEF SignIn

\* The steps of the other handlers.
LEMMA SpentOther ==
    ASSUME TypeInv, SpentInv, NEW r \in Requests,
           \/ StoreSetup(r) \/ GetSetup(r) \/ Enable(r) \/ DropSetup(r) \/ LoadUser(r)
           \/ Wipe(r) \/ Lock(r) \/ Disable(r) \/ Replace(r) \/ Erase(r)
    PROVE  SpentInv'
<1>1. req[r] \in Handlers /\ Known(req[r], drawn, proven) /\ drawn \subseteq Draws
      /\ proven \subseteq drawn /\ Role(req[r])
  BY DEF TypeInv, TypeOK, SpentInv
<1>2. CASE Finish(r) /\ codes' \subseteq codes
  BY <1>2, SpentEnd
<1>3. CASE GetSetup(r) /\ ~Finish(r)
  <2> DEFINE rec == [req[r] EXCEPT !.pc = "prove", !.secret = pending]
  <2>1. Become(r, rec) /\ codes' = codes
    BY <1>3 DEF GetSetup, store
  <2>2. rec.pc = "prove" /\ rec.op = req[r].op /\ rec.seen = req[r].seen
    BY <1>1 DEF Handlers
  <2> HIDE DEF rec
  <2>3. QED
    BY <2>1, <2>2, SpentOn DEF Role
<1>4. CASE LoadUser(r) /\ ~Finish(r)
  <2> DEFINE rec == [req[r] EXCEPT !.pc = "prove", !.secret = account.secret]
  <2>1. Become(r, rec) /\ codes' = codes
    BY <1>4 DEF LoadUser, store
  <2>2. rec.pc = "prove" /\ rec.op = req[r].op /\ rec.seen = req[r].seen
    BY <1>1 DEF Handlers
  <2> HIDE DEF rec
  <2>3. QED
    BY <2>1, <2>2, SpentOn DEF Role
<1>5. CASE Enable(r) /\ ~Finish(r)
  <2> DEFINE rec == [req[r] EXCEPT !.pc = "drop_setup"]
  <2>1. /\ Become(r, rec) /\ codes' = Inserted(req[r].secret, codes) /\ req[r].secret \in Draws
        /\ req[r].pc = "enable"
    BY <1>1, <1>5 DEF Enable, Goto, At, Known
  <2>2. rec.pc = "drop_setup" /\ rec.op = req[r].op
    BY <1>1 DEF Handlers
  <2> HIDE DEF rec
  <2>3. Role(rec)
    BY <2>2 DEF Role
  <2>4. rec.op \notin {"verify", "delete"}
    BY <2>1, <2>2 DEF SpentInv, Role
  <2>5. QED
    BY <2>1, <2>3, <2>4, SpentInsert
<1>6. CASE Wipe(r)
  <2> DEFINE rec == [req[r] EXCEPT !.pc = "lock", !.seen = Ids(codes)]
  <2>1. Become(r, rec) /\ codes' = codes /\ req[r].pc = "wipe"
    BY <1>6 DEF Wipe, At, store
  <2>2. rec.pc = "lock" /\ rec.op = req[r].op
    BY <1>1 DEF Handlers
  <2> HIDE DEF rec
  <2>3. rec.op \notin {"verify", "delete"}
    BY <1>1, <2>1, <2>2 DEF Role
  <2>4. Role(rec) /\ Unspent(rec, codes)
    BY <2>2, <2>3 DEF Role, Unspent
  <2>5. QED
    BY <2>1, <2>4, SpentFewer
<1>7. CASE Lock(r)
  <2> DEFINE rec == [req[r] EXCEPT !.pc = "commit"]
  <2>1. Become(r, rec) /\ codes' = codes
    BY <1>7 DEF Lock, Goto, store
  <2>2. rec.pc = "commit" /\ rec.op = req[r].op /\ rec.seen = req[r].seen
    BY <1>1 DEF Handlers
  <2> HIDE DEF rec
  <2>3. QED
    BY <2>1, <2>2, SpentOn DEF Role
<1>8. CASE Replace(r) /\ account.exists
  <2>1. /\ Become(r, Idle) /\ codes' = Inserted(req[r].draw, Without(req[r].seen))
        /\ req[r].draw \in Draws
    BY <1>1, <1>8 DEF Replace, Finish, Known
  <2>2. Without(req[r].seen) \subseteq codes /\ Role(Idle) /\ Idle.op \notin {"verify", "delete"}
    BY DEF Without, Role, Idle
  <2>3. QED
    BY <2>1, <2>2, SpentInsert
<1>9. CASE StoreSetup(r) \/ DropSetup(r) \/ Disable(r) \/ Erase(r)
  <2>1. Finish(r) /\ codes' \subseteq codes
    BY <1>9 DEF StoreSetup, DropSetup, Disable, Erase, Without, store
  <2>2. QED
    BY <1>2, <2>1
<1>10. CASE Replace(r) /\ ~account.exists
  BY <1>2, <1>10 DEF Replace
<1>11. CASE Enable(r) /\ Finish(r)
  <2>1. CASE ~account.exists
    BY <1>2, <1>11, <2>1 DEF Enable, store
  <2>2. CASE account.exists
    <3>1. req' = [req EXCEPT ![r] = Idle] /\ req' = [req EXCEPT ![r] = [req[r] EXCEPT !.pc = "drop_setup"]]
      BY <1>11, <2>2 DEF Enable, Finish, Goto, Become
    <3>2. req'[r].pc = "idle" /\ req'[r].pc = "drop_setup"
      BY <1>1, <3>1 DEF TypeInv, TypeOK, Idle, Handlers
    <3>3. QED
      BY <3>2
  <2>3. QED
    BY <2>1, <2>2
<1>12. CASE GetSetup(r) /\ Finish(r)
  BY <1>2, <1>12 DEF GetSetup, store
<1>13. CASE LoadUser(r) /\ Finish(r)
  BY <1>2, <1>13 DEF LoadUser, store
<1>14. QED
  BY <1>3, <1>4, <1>5, <1>6, <1>7, <1>8, <1>9, <1>10, <1>11, <1>12, <1>13

\* Every step, overlap and crash or not, keeps it.
LEMMA SpentStep == TypeInv /\ SpentInv /\ [Next]_vars => SpentInv'
<1> SUFFICES ASSUME TypeInv, SpentInv, [Next]_vars PROVE SpentInv'
  OBVIOUS
<1>1. ASSUME NEW r \in Requests, HandlerStep(r) PROVE SpentInv'
  BY <1>1, SpentCode, SpentSignIn, SpentOther DEF HandlerStep
<1>2. ASSUME NEW r \in Requests, Crash(r) PROVE SpentInv'
  BY <1>2, SpentEnd DEF Crash, store
<1>3. CASE (\E l \in Challenges : Login(l) \/ ChallengeExpires(l)) \/ Tick \/ SetupExpires
             \/ UNCHANGED vars
  <2>1. UNCHANGED <<codes, req>>
    BY <1>3 DEF Login, ChallengeExpires, Tick, SetupExpires, vars, store
  <2>2. QED
    BY <2>1 DEF SpentInv, Marked, Role, Unspent
<1>4. QED
  BY <1>1, <1>2, <1>3, SpentArrive DEF Next

\* At first there are no codes and no requests.
LEMMA SpentInit == Init => SpentInv
BY DEF Init, SpentInv, Marked, Role, Unspent, Idle

\* A stored backup code signs in once, whatever requests overlap and die: no sign-in and
\* no deletion gets hold of one that has signed in, unless both had read it before.
THEOREM BackupCodesAreOneTime == Spec => []BackupCodeOnce
<1>1. SpentInv => BackupCodeOnce
  BY DEF SpentInv, Role, Unspent, BackupCodeOnce, At, Offered
<1>2. QED
  BY <1>1, TypeInit, TypeStep, SpentInit, SpentStep, PTL DEF Spec
=============================================================================
