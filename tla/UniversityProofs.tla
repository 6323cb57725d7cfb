-------------------------- MODULE UniversityProofs ---------------------------
(***************************************************************************)
(* What holds of University for any users, cards, normalisers, programs and *)
(* requests: one program for a URL, likes that stand, and cards that keep   *)
(* their program.                                                           *)
(***************************************************************************)
EXTENDS University, FiniteSetTheorems, TLAPS

-----------------------------------------------------------------------------
(* The requests *)

\* What request q holds in the steps that use it; S is Stored.
Known(q, S) ==
    \/ q.op = "none" /\ q.pc = "idle" /\ q.stores = "nothing" /\ q.unit = None
    \/ /\ q.op = "check" /\ q.card \in Cards /\ q.user \in Users
       /\ \/ q.pc \in {"url", "name", "insert"} /\ q.stores = "nothing" /\ q.unit = None
          \/ q.pc \in {"liked", "commit"} /\ q.stores = "row" /\ q.unit \in Units \ S
          \/ q.pc \in {"liked", "commit"} /\ q.stores # "row" /\ q.unit \in S
    \/ /\ q.op \in {"like", "unlike"} /\ q.user \in Users /\ q.pc \in {"row", "commit"}
       /\ q.stores = "nothing" /\ q.unit \in S

\* A row about to be inserted is nobody else's, and its URL is new.
RowsApart ==
    \A r, s \in Requests :
      req[r].stores = "row" /\ s # r =>
        req[s].unit # req[r].unit /\ (req[s].stores = "row" => CardUrl(s) # CardUrl(r))

RowsClear ==
    \A r \in Requests : req[r].stores = "row" =>
      \A q \in Stored : programs[q].url # CardUrl(r)

RequestsOK ==
    /\ req \in [Requests -> Handlers]
    /\ \A r \in Requests : Known(req[r], Stored)
    /\ RowsApart /\ RowsClear

TypeInv == TypeOK /\ IsFiniteSet(Stored) /\ RequestsOK

\* p is q, but that others have been at work.
Marks(p, q) ==
    /\ p \in Handlers
    /\ p.op = q.op /\ p.pc = q.pc /\ p.user = q.user /\ p.card = q.card
    /\ p.unit = q.unit /\ p.stores = q.stores
    /\ (p.alone => q.alone) /\ (p.kept => q.kept) /\ (p.isLiked => q.isLiked)

\* Handler r became rec, the others are as they were but for the marks.
Became(r, rec) ==
    /\ rec \in Handlers
    /\ req' \in [Requests -> Handlers] /\ req'[r] = rec
    /\ \A s \in Requests \ {r} : Marks(req'[s], req[s])

\* The idle record has its type.
LEMMA IdleType == Idle \in Handlers /\ \A S : Known(Idle, S)
BY DEF Idle, Handlers, Known

\* A plain step changes one handler.
LEMMA BecomeOne ==
    ASSUME req \in [Requests -> Handlers], NEW r \in Requests, NEW rec \in Handlers,
           Become(r, rec)
    PROVE  Became(r, rec)
<1>1. req' = [req EXCEPT ![r] = rec]
  BY DEF Become
<1>2. \A s \in Requests \ {r} : req'[s] = req[s]
  BY <1>1
<1>3. QED
  BY <1>1, <1>2 DEF Became, Marks

\* A function over the requests that marks all of them but one.
LEMMA MarkOthers ==
    ASSUME req \in [Requests -> Handlers], NEW r \in Requests, NEW rec \in Handlers,
           DOMAIN req' = Requests, req' = [s \in Requests |-> req'[s]], req'[r] = rec,
           \A s \in Requests \ {r} : Marks(req'[s], req[s])
    PROVE  Became(r, rec)
<1>1. \A s \in Requests : req'[s] \in Handlers
  BY DEF Marks
<1>2. QED
  BY <1>1 DEF Became

\* The requests stay as they should be when the one that moves takes no new row.
LEMMA RequestsKept ==
    ASSUME RequestsOK, programs' = programs, NEW r \in Requests, NEW rec, Became(r, rec),
           Known(rec, Stored),
           rec.stores = "row" =>
             req[r].stores = "row" /\ rec.unit = req[r].unit /\ rec.card = req[r].card
    PROVE  RequestsOK'
<1>1. Stored' = Stored
  BY DEF Stored
<1>2. ASSUME NEW s \in Requests \ {r}
      PROVE  /\ Known(req'[s], Stored) /\ req'[s].stores = req[s].stores
             /\ req'[s].unit = req[s].unit /\ CardUrl(s)' = CardUrl(s)
  <2>1. Marks(req'[s], req[s]) /\ Known(req[s], Stored)
    BY DEF Became, RequestsOK
  <2>2. QED
    BY <2>1 DEF Marks, Known, CardUrl
<1>3. req'[r] = rec
  BY DEF Became
<1>4. \A s \in Requests : Known(req'[s], Stored)
  BY <1>2, <1>3
<1>5. rec.stores = "row" => CardUrl(r)' = CardUrl(r)
  BY <1>3 DEF CardUrl
<1>6. RowsClear'
  <2>1. ASSUME NEW s \in Requests, req'[s].stores = "row"
        PROVE  req[s].stores = "row" /\ CardUrl(s)' = CardUrl(s)
    BY <1>2, <1>3, <1>5, <2>1
  <2>2. QED
    BY <1>1, <2>1 DEF RowsClear, RequestsOK
<1>7. RowsApart'
  <2>1. ASSUME NEW s \in Requests, NEW q \in Requests, req'[s].stores = "row", q # s
        PROVE  /\ req'[q].unit # req'[s].unit
               /\ req'[q].stores = "row" => CardUrl(q)' # CardUrl(s)'
    <3>1. /\ req[s].stores = "row" /\ CardUrl(s)' = CardUrl(s) /\ req'[s].unit = req[s].unit
          /\ req[s].unit \in Units \ Stored
      BY <1>2, <1>3, <1>5, <2>1 DEF RequestsOK, Known
    <3>2. req[q].unit # req[s].unit /\ (req[q].stores = "row" => CardUrl(q) # CardUrl(s))
      BY <2>1, <3>1 DEF RequestsOK, RowsApart
    <3>3. CASE q # r
      BY <1>2, <3>1, <3>2, <3>3
    <3>4. CASE q = r /\ rec.stores = "row"
      BY <1>3, <1>5, <3>1, <3>2, <3>4
    <3>5. CASE q = r /\ rec.stores # "row"
      <4>1. rec.unit \in Stored \cup {None}
        BY <3>5 DEF Known
      <4>2. QED
        BY <1>3, <3>1, <3>5, <4>1, UniversityAssumption
    <3>6. QED
      BY <3>3, <3>4, <3>5
  <2>2. QED
    BY <2>1 DEF RowsApart
<1>8. QED
  BY <1>1, <1>4, <1>6, <1>7 DEF RequestsOK, Became

-----------------------------------------------------------------------------
(* Types, and one program for a URL *)

\* A step that changes requests only.
LEMMA FrameType ==
    ASSUME TypeInv, RequestsOK', UNCHANGED <<tables, said>>
    PROVE  TypeInv'
<1>1. Stored' = Stored
  BY DEF Stored, tables
<1>2. \A r \in Requests : (req[r].stores = "row")' => (UrlIsFree(r) /\ req[r].unit \notin Stored)'
  BY DEF RequestsOK, RowsApart, UrlIsFree, Known
<1>3. QED
  BY <1>1, <1>2 DEF TypeInv, TypeOK, RequestsOK, tables, said

\* At the start everything has its type.
LEMMA TypeInit == Init => TypeInv
<1> SUFFICES ASSUME Init PROVE TypeInv
  OBVIOUS
<1>1. Stored = {} /\ IsFiniteSet({})
  BY FS_EmptySet DEF Init, Stored
<1>2. RequestsOK
  BY <1>1, IdleType DEF Init, RequestsOK, RowsApart, RowsClear, Idle
<1>3. QED
  BY <1>1, <1>2 DEF Init, TypeInv, TypeOK, RequestsOK, RowsApart, UrlIsFree, Idle

\* What handler r becomes, where nothing but requests changes and no row is taken.
LEMMA BecomingType ==
    ASSUME TypeInv, NEW r \in Requests, NEW rec, Became(r, rec), UNCHANGED <<tables, said>>,
           Known(rec, Stored),
           rec.stores = "row" =>
             req[r].stores = "row" /\ rec.unit = req[r].unit /\ rec.card = req[r].card
    PROVE  TypeInv'
BY RequestsKept, FrameType DEF TypeInv, tables

\* A finished handler is idle.
LEMMA Finished ==
    ASSUME TypeInv, NEW r \in Requests, Finish(r)
    PROVE  Became(r, Idle)
BY BecomeOne, IdleType DEF Finish, TypeInv, RequestsOK

\* A handler that ends keeps the types.
LEMMA FinishingType ==
    ASSUME TypeInv, NEW r \in Requests, Finish(r), UNCHANGED <<tables, said>>
    PROVE  TypeInv'
BY Finished, IdleType, BecomingType DEF Idle

\* A check begins: no other check is alone any more.
LEMMA StartCheckBecame ==
    ASSUME TypeInv, NEW r \in Requests, NEW u \in Users, NEW c \in Cards, StartCheck(r, u, c)
    PROVE  /\ \A s \in Requests \ {r} : ~req'[s].alone
           /\ \E rec :
                /\ Became(r, rec)
                /\ rec.op = "check" /\ rec.pc = "url" /\ rec.user = u /\ rec.card = c
                /\ rec.stores = "nothing" /\ rec.unit = None
                /\ rec.alone => \A s \in Requests : req[s].op # "check"
<1> DEFINE others == {s \in Requests : req[s].op = "check"}
           b      == others = {}
           rec    == [Idle EXCEPT !.op = "check", !.pc = "url", !.user = u, !.card = c, !.alone = b]
<1>1. req' = [s \in Requests |-> IF s = r THEN rec ELSE [req[s] EXCEPT !.alone = FALSE]]
  BY DEF StartCheck
<1>2. b \in BOOLEAN /\ (b => \A s \in Requests : req[s].op # "check")
  OBVIOUS
<1> HIDE DEF b
<1>3. /\ rec \in Handlers /\ rec.op = "check" /\ rec.pc = "url" /\ rec.user = u /\ rec.card = c
      /\ rec.stores = "nothing" /\ rec.unit = None /\ rec.alone = b
  BY <1>2, IdleType DEF Handlers, Idle
<1> HIDE DEF rec
<1>4. ASSUME NEW s \in Requests \ {r} PROVE Marks(req'[s], req[s]) /\ ~req'[s].alone
  <2>1. req[s] \in Handlers /\ req'[s] = [req[s] EXCEPT !.alone = FALSE]
    BY <1>1 DEF TypeInv, RequestsOK
  <2>2. QED
    BY <2>1 DEF Marks, Handlers
<1>5. req'[r] = rec /\ DOMAIN req' = Requests /\ req' = [s \in Requests |-> req'[s]]
  BY <1>1
<1>6. Became(r, rec)
  BY <1>3, <1>4, <1>5, MarkOthers DEF TypeInv, RequestsOK
<1>7. QED
  BY <1>2, <1>3, <1>4, <1>6

\* A check that starts keeps the types.
LEMMA StartCheckType ==
    ASSUME TypeInv, NEW r \in Requests, NEW u \in Users, NEW c \in Cards, StartCheck(r, u, c)
    PROVE  TypeInv'
<1>1. PICK rec :
        /\ Became(r, rec)
        /\ rec.op = "check" /\ rec.pc = "url" /\ rec.user = u /\ rec.card = c
        /\ rec.stores = "nothing" /\ rec.unit = None
  BY StartCheckBecame
<1>2. Known(rec, Stored)
  BY <1>1 DEF Known
<1>3. QED
  BY <1>1, <1>2, BecomingType DEF StartCheck

\* The program that is found.
LEMMA FoundBecame ==
    ASSUME TypeInv, NEW r \in Requests, NEW p \in Units, NEW stores \in {"nothing", "url", "row"},
           Found(r, p, stores)
    PROVE  \E rec :
             /\ Became(r, rec) /\ rec.op = req[r].op /\ rec.pc = "liked" /\ rec.user = req[r].user
             /\ rec.card = req[r].card /\ rec.unit = p /\ rec.stores = stores
             /\ rec.alone = req[r].alone
<1> DEFINE rec == [req[r] EXCEPT !.pc = "liked", !.unit = p, !.stores = stores]
<1>1. req[r] \in Handlers /\ Become(r, rec)
  BY DEF Found, TypeInv, RequestsOK
<1>2. /\ rec \in Handlers /\ rec.op = req[r].op /\ rec.pc = "liked" /\ rec.user = req[r].user
      /\ rec.card = req[r].card /\ rec.unit = p /\ rec.stores = stores /\ rec.alone = req[r].alone
  BY <1>1 DEF Handlers
<1> HIDE DEF rec
<1>3. QED
  BY <1>1, <1>2, BecomeOne DEF TypeInv, RequestsOK

\* The next step of a handler.
LEMMA GotoBecame ==
    ASSUME TypeInv, NEW r \in Requests,
           NEW pc \in {"idle", "url", "name", "insert", "liked", "row", "commit"}, Goto(r, pc)
    PROVE  \E rec :
             /\ Became(r, rec) /\ rec.op = req[r].op /\ rec.pc = pc /\ rec.user = req[r].user
             /\ rec.card = req[r].card /\ rec.unit = req[r].unit /\ rec.stores = req[r].stores
             /\ rec.alone = req[r].alone
<1> DEFINE rec == [req[r] EXCEPT !.pc = pc]
<1>1. req[r] \in Handlers /\ Become(r, rec)
  BY DEF Goto, TypeInv, RequestsOK
<1>2. /\ rec \in Handlers /\ rec.op = req[r].op /\ rec.pc = pc /\ rec.user = req[r].user
      /\ rec.card = req[r].card /\ rec.unit = req[r].unit /\ rec.stores = req[r].stores
      /\ rec.alone = req[r].alone
  BY <1>1 DEF Handlers
<1> HIDE DEF rec
<1>3. QED
  BY <1>1, <1>2, BecomeOne DEF TypeInv, RequestsOK

\* A stored program that is found.
LEMMA FoundType ==
    ASSUME TypeInv, NEW r \in Requests, NEW p \in Stored, NEW stores \in {"nothing", "url"},
           Found(r, p, stores), UNCHANGED <<tables, said>>, req[r].op = "check"
    PROVE  TypeInv'
<1>1. PICK rec :
        /\ Became(r, rec) /\ rec.op = req[r].op /\ rec.pc = "liked" /\ rec.user = req[r].user
        /\ rec.card = req[r].card /\ rec.unit = p /\ rec.stores = stores
  BY FoundBecame DEF Stored
<1>2. Known(req[r], Stored)
  BY DEF TypeInv, RequestsOK
<1>3. Known(rec, Stored)
  BY <1>1, <1>2 DEF Known
<1>4. QED
  BY <1>1, <1>3, BecomingType

\* The look by URL keeps the types.
LEMMA FindByUrlType ==
    ASSUME TypeInv, NEW r \in Requests, FindByUrl(r)
    PROVE  TypeInv'
<1>1. Known(req[r], Stored) /\ req[r].pc = "url" /\ UNCHANGED <<tables, said>>
  BY DEF FindByUrl, At, TypeInv, RequestsOK
<1>2. CASE Goto(r, "name")
  <2>1. PICK rec : /\ Became(r, rec) /\ rec.op = req[r].op /\ rec.pc = "name" /\ rec.user = req[r].user
                   /\ rec.card = req[r].card /\ rec.unit = req[r].unit /\ rec.stores = req[r].stores
    BY <1>2, GotoBecame
  <2>2. Known(rec, Stored) /\ rec.stores = "nothing"
    BY <1>1, <2>1 DEF Known
  <2>3. QED
    BY <1>1, <2>1, <2>2, BecomingType
<1>3. CASE \E p \in ByUrl(r) : Found(r, p, "nothing")
  BY <1>1, <1>3, FoundType DEF ByUrl, Known
<1>4. QED
  BY <1>2, <1>3 DEF FindByUrl

\* The look by name keeps the types, and finds only what is stored.
LEMMA FindByNameType ==
    ASSUME TypeInv, NEW r \in Requests, FindByName(r)
    PROVE  TypeInv'
<1>1. Known(req[r], Stored) /\ req[r].pc = "name" /\ UNCHANGED <<tables, said>>
  BY DEF FindByName, At, TypeInv, RequestsOK
<1>2. CASE Goto(r, "insert")
  <2>1. PICK rec : /\ Became(r, rec) /\ rec.op = req[r].op /\ rec.pc = "insert" /\ rec.user = req[r].user
                   /\ rec.card = req[r].card /\ rec.unit = req[r].unit /\ rec.stores = req[r].stores
    BY <1>2, GotoBecame
  <2>2. Known(rec, Stored) /\ rec.stores = "nothing"
    BY <1>1, <2>1 DEF Known
  <2>3. QED
    BY <1>1, <2>1, <2>2, BecomingType
<1>3. CASE \E p \in ByName(r) : Found(r, p, Backfill(r, p))
  BY <1>1, <1>3, FoundType DEF ByName, Known, Backfill
<1>4. CASE Finish(r)
  BY <1>1, <1>4, FinishingType
<1>5. QED
  BY <1>2, <1>3, <1>4 DEF FindByName

\* A new row, whose URL nobody has or is about to have.
LEMMA InsertType ==
    ASSUME TypeInv, NEW r \in Requests, Insert(r)
    PROVE  TypeInv'
<1>1. Known(req[r], Stored) /\ req[r].pc = "insert" /\ UNCHANGED <<tables, said>>
  BY DEF Insert, At, TypeInv, RequestsOK
<1>2. CASE Finish(r)
  BY <1>1, <1>2, FinishingType
<1>3. CASE ~Finish(r)
  <2>1. PICK p \in Fresh : Found(r, p, "row")
    BY <1>3 DEF Insert
  <2>2. UrlIsFree(r) /\ \A q \in Stored : programs[q].url # CardUrl(r)
    BY <1>1, <1>3, UniversityAssumption DEF Insert, UrlIsTaken, Known, Stored
  <2>3. p \in Units \ Stored /\ \A s \in Requests : req[s].unit # p
    BY <2>1 DEF Fresh
  <2>4. PICK rec : /\ Became(r, rec) /\ rec.op = req[r].op /\ rec.pc = "liked" /\ rec.user = req[r].user
                   /\ rec.card = req[r].card /\ rec.unit = p /\ rec.stores = "row"
    BY <2>1, <2>3, FoundBecame
  <2>5. Known(rec, Stored) /\ req'[r] = rec
    BY <1>1, <2>3, <2>4 DEF Known, Became
  <2>6. Stored' = Stored /\ programs' = programs
    BY <1>1 DEF Stored, tables
  <2>7. ASSUME NEW s \in Requests \ {r}
        PROVE  /\ Known(req'[s], Stored) /\ req'[s].stores = req[s].stores
               /\ req'[s].unit = req[s].unit /\ CardUrl(s)' = CardUrl(s)
    <3>1. Marks(req'[s], req[s]) /\ Known(req[s], Stored)
      BY <2>4 DEF Became, TypeInv, RequestsOK
    <3>2. QED
      BY <3>1 DEF Marks, Known, CardUrl
  <2>8. CardUrl(r)' = CardUrl(r)
    BY <2>4, <2>5 DEF CardUrl
  <2>9. RowsClear'
    <3>1. ASSUME NEW s \in Requests, req'[s].stores = "row", NEW q \in Stored
          PROVE  programs[q].url # CardUrl(s)'
      BY <2>2, <2>7, <2>8, <3>1 DEF TypeInv, RequestsOK, RowsClear
    <3>2. QED
      BY <2>6, <3>1 DEF RowsClear
  <2>10. RowsApart'
    <3>1. ASSUME NEW s \in Requests, NEW q \in Requests, req'[s].stores = "row", q # s
          PROVE  /\ req'[q].unit # req'[s].unit
                 /\ req'[q].stores = "row" => CardUrl(q)' # CardUrl(s)'
      <4>1. CASE s = r
        BY <2>2, <2>3, <2>4, <2>5, <2>7, <2>8, <3>1, <4>1 DEF UrlIsFree
      <4>2. CASE q = r
        BY <2>2, <2>3, <2>4, <2>5, <2>7, <2>8, <3>1, <4>2 DEF UrlIsFree
      <4>3. CASE q # r /\ s # r
        BY <2>7, <3>1, <4>3 DEF TypeInv, RequestsOK, RowsApart
      <4>4. QED
        BY <4>1, <4>2, <4>3
    <3>2. QED
      BY <3>1 DEF RowsApart
  <2>11. RequestsOK'
    BY <2>4, <2>5, <2>6, <2>7, <2>9, <2>10 DEF RequestsOK, Became
  <2>12. QED
    BY <1>1, <2>11, FrameType
<1>4. QED
  BY <1>2, <1>3

\* A look at the likes.
LEMMA LookUpBecame ==
    ASSUME TypeInv, NEW r \in Requests,
           Become(r, [req[r] EXCEPT !.pc = "commit", !.isLiked = <<req[r].user, req[r].unit>> \in likes])
    PROVE  \E rec :
             /\ Became(r, rec) /\ rec.op = req[r].op /\ rec.pc = "commit" /\ rec.user = req[r].user
             /\ rec.card = req[r].card /\ rec.unit = req[r].unit /\ rec.stores = req[r].stores
             /\ rec.alone = req[r].alone /\ rec.kept = req[r].kept
             /\ rec.isLiked => <<req[r].user, req[r].unit>> \in likes
<1> DEFINE b   == <<req[r].user, req[r].unit>> \in likes
           rec == [req[r] EXCEPT !.pc = "commit", !.isLiked = b]
<1>1. req[r] \in Handlers /\ Become(r, rec)
  BY DEF TypeInv, RequestsOK
<1>2. b \in BOOLEAN /\ (b => <<req[r].user, req[r].unit>> \in likes)
  OBVIOUS
<1> HIDE DEF b
<1>3. /\ rec \in Handlers /\ rec.op = req[r].op /\ rec.pc = "commit" /\ rec.user = req[r].user
      /\ rec.card = req[r].card /\ rec.unit = req[r].unit /\ rec.stores = req[r].stores
      /\ rec.alone = req[r].alone /\ rec.kept = req[r].kept /\ rec.isLiked = b
  BY <1>1, <1>2 DEF Handlers
<1> HIDE DEF rec
<1>4. Became(r, rec)
  BY <1>1, <1>3, BecomeOne DEF TypeInv, RequestsOK
<1>5. QED
  BY <1>2, <1>3, <1>4

\* Both looks at the likes keep the types.
LEMMA LookUpType ==
    ASSUME TypeInv, NEW r \in Requests, LookUpLiked(r) \/ LookUpRow(r)
    PROVE  TypeInv'
<1>1. PICK rec :
        /\ Became(r, rec) /\ rec.op = req[r].op /\ rec.pc = "commit" /\ rec.user = req[r].user
        /\ rec.card = req[r].card /\ rec.unit = req[r].unit /\ rec.stores = req[r].stores
  BY LookUpBecame DEF LookUpLiked, LookUpRow
<1>2. Known(req[r], Stored) /\ req[r].pc \in {"liked", "row"} /\ UNCHANGED <<tables, said>>
  BY DEF LookUpLiked, LookUpRow, At, TypeInv, RequestsOK
<1>3. Known(rec, Stored)
  BY <1>1, <1>2 DEF Known
<1>4. QED
  BY <1>1, <1>2, <1>3, BecomingType

\* What the commit of a check leaves in the table: the row or the URL, and that is
\* nobody else's.
LEMMA CommitCheckRows ==
    ASSUME TypeInv, NEW r \in Requests, CommitCheck(r),
           ~(req[r].stores = "url" /\ UrlIsTaken(r))
    PROVE  /\ programs' \in [Units -> Rows \cup {None}]
           /\ Stored' = Stored \cup {req[r].unit} /\ req[r].unit \in Units
           /\ \A p, q \in Stored' : programs'[p].url = programs'[q].url => p = q
           /\ \A s \in Requests \ {r} : req[s].stores = "row" =>
                \A q \in Stored' : programs'[q].url # CardUrl(s)
           /\ \A q \in Stored \ {req[r].unit} : programs'[q] = programs[q]
           /\ req[r].unit \in Stored =>
                programs'[req[r].unit].name = programs[req[r].unit].name
           /\ req[r].unit \notin Stored => programs'[req[r].unit].name = CardName(r)
           /\ req[r].stores # "nothing" => programs'[req[r].unit].url = CardUrl(r)
           /\ req[r].stores = "nothing" => programs' = programs
<1> DEFINE p == req[r].unit
<1>1. Known(req[r], Stored) /\ req[r] \in Handlers /\ req[r].op = "check" /\ req[r].pc = "commit"
  BY DEF CommitCheck, At, TypeInv, RequestsOK
<1>2. req[r].card \in Cards /\ p \in Units /\ p # None
  BY <1>1, UniversityAssumption DEF Known, Stored
<1>3. CardUrl(r) \in UrlKeys /\ CardName(r) \in NameKeys
  BY <1>2, UniversityAssumption DEF CardUrl, CardName, UrlKeys, NameKeys
<1>4. programs \in [Units -> Rows \cup {None}] /\ None \notin Rows
  BY UniversityAssumption DEF TypeInv, TypeOK
<1>5. CASE req[r].stores = "row"
  <2> DEFINE row == [url |-> CardUrl(r), name |-> CardName(r)]
  <2>1. programs' = [programs EXCEPT ![p] = row]
    BY <1>5 DEF CommitCheck
  <2>2. row \in Rows /\ row.url = CardUrl(r) /\ row.name = CardName(r)
    BY <1>3 DEF Rows
  <2> HIDE DEF row
  <2>3. p \notin Stored /\ (\A q \in Stored : programs[q].url # CardUrl(r))
    BY <1>1, <1>5 DEF Known, TypeInv, RequestsOK, RowsClear
  <2>4. programs'[p] = row /\ \A q \in Units \ {p} : programs'[q] = programs[q]
    BY <1>2, <1>4, <2>1
  <2>5. programs' \in [Units -> Rows \cup {None}]
    BY <1>2, <1>4, <2>1, <2>2
  <2>6. Stored' = Stored \cup {p}
    BY <1>2, <1>4, <2>2, <2>4 DEF Stored
  <2>7. \A s \in Requests \ {r} : req[s].stores = "row" => CardUrl(r) # CardUrl(s)
    BY <1>5 DEF TypeInv, RequestsOK, RowsApart
  <2>8. \A q \in Stored : programs'[q] = programs[q]
    BY <2>3, <2>4 DEF Stored
  <2>9. \A q, q2 \in Stored' : programs'[q].url = programs'[q2].url => q = q2
    BY <2>2, <2>3, <2>4, <2>6, <2>8 DEF TypeInv, TypeOK
  <2>10. \A s \in Requests \ {r} : req[s].stores = "row" =>
           \A q \in Stored' : programs'[q].url # CardUrl(s)
    BY <2>2, <2>4, <2>6, <2>7, <2>8 DEF TypeInv, RequestsOK, RowsClear
  <2>11. /\ \A q \in Stored \ {p} : programs'[q] = programs[q]
         /\ p \notin Stored /\ programs'[p].name = CardName(r) /\ programs'[p].url = CardUrl(r)
    BY <2>2, <2>3, <2>4, <2>8
  <2>12. QED
    BY <1>2, <1>5, <2>5, <2>6, <2>9, <2>10, <2>11
<1>6. CASE req[r].stores = "url"
  <2> DEFINE row == [programs[p] EXCEPT !.url = CardUrl(r)]
  <2>1. programs' = [programs EXCEPT ![p] = row]
    BY <1>6 DEF CommitCheck
  <2>2. p \in Stored /\ programs[p] \in Rows
    BY <1>1, <1>4, <1>6 DEF Known, Stored
  <2>3. row \in Rows /\ row.url = CardUrl(r) /\ row.name = programs[p].name
    BY <1>3, <2>2 DEF Rows
  <2> HIDE DEF row
  <2>4. programs'[p] = row /\ \A q \in Units \ {p} : programs'[q] = programs[q]
    BY <1>2, <1>4, <2>1
  <2>5. programs' \in [Units -> Rows \cup {None}]
    BY <1>2, <1>4, <2>1, <2>3
  <2>6. Stored' = Stored \cup {p}
    BY <1>2, <1>4, <2>2, <2>3, <2>4 DEF Stored
  <2>7. \A s \in Requests \ {r} : req[s].stores = "row" => CardUrl(r) # CardUrl(s)
    BY <1>6 DEF CommitCheck, UrlIsFree
  <2>8. \A q \in Stored \ {p} : programs'[q] = programs[q] /\ programs[q].url # CardUrl(r)
    BY <1>6, <2>4 DEF Stored, UrlIsTaken
  <2>9. \A q, q2 \in Stored' : programs'[q].url = programs'[q2].url => q = q2
    BY <2>3, <2>4, <2>6, <2>8 DEF TypeInv, TypeOK
  <2>10. \A s \in Requests \ {r} : req[s].stores = "row" =>
           \A q \in Stored' : programs'[q].url # CardUrl(s)
    BY <2>3, <2>4, <2>6, <2>7, <2>8 DEF TypeInv, RequestsOK, RowsClear
  <2>11. /\ \A q \in Stored \ {p} : programs'[q] = programs[q]
         /\ p \in Stored /\ programs'[p].name = programs[p].name /\ programs'[p].url = CardUrl(r)
    BY <2>2, <2>3, <2>4, <2>8
  <2>12. QED
    BY <1>2, <1>6, <2>5, <2>6, <2>9, <2>10, <2>11
<1>7. CASE req[r].stores = "nothing"
  <2>1. programs' = programs /\ p \in Stored
    BY <1>1, <1>7 DEF CommitCheck, Known
  <2>2. Stored' = Stored \cup {p}
    BY <2>1 DEF Stored
  <2>3. \A q, q2 \in Stored' : programs'[q].url = programs'[q2].url => q = q2
    BY <2>1, <2>2 DEF TypeInv, TypeOK
  <2>4. \A s \in Requests \ {r} : req[s].stores = "row" =>
           \A q \in Stored' : programs'[q].url # CardUrl(s)
    BY <2>1, <2>2 DEF TypeInv, RequestsOK, RowsClear
  <2>5. programs' \in [Units -> Rows \cup {None}]
    BY <1>4, <2>1
  <2>6. QED
    BY <1>2, <1>7, <2>1, <2>2, <2>3, <2>4, <2>5
<1>8. QED
  BY <1>1, <1>5, <1>6, <1>7 DEF Handlers

\* The commit of a check keeps the types.
LEMMA CommitCheckType ==
    ASSUME TypeInv, NEW r \in Requests, CommitCheck(r)
    PROVE  TypeInv'
<1>1. Became(r, Idle) /\ UNCHANGED <<accounts, likes, promised>>
  BY Finished DEF CommitCheck
<1>2. CASE req[r].stores = "url" /\ UrlIsTaken(r)
  BY <1>2, FinishingType DEF CommitCheck, tables, said
<1>3. CASE ~(req[r].stores = "url" /\ UrlIsTaken(r))
  <2>1. /\ programs' \in [Units -> Rows \cup {None}]
        /\ Stored' = Stored \cup {req[r].unit} /\ req[r].unit \in Units
        /\ \A p, q \in Stored' : programs'[p].url = programs'[q].url => p = q
        /\ \A s \in Requests \ {r} : req[s].stores = "row" =>
             \A q \in Stored' : programs'[q].url # CardUrl(s)
    BY <1>3, CommitCheckRows
  <2>2. unit' = [unit EXCEPT ![req[r].card] = req[r].unit]
    BY <1>3 DEF CommitCheck
  <2>3. unit' \in [Cards -> Stored' \cup {None}]
    BY <2>1, <2>2 DEF TypeInv, TypeOK
  <2>4. req'[r].stores = "nothing" /\ req'[r].unit = None /\ Known(req'[r], Stored')
    <3>1. req'[r] = Idle /\ Known(Idle, Stored')
      BY <1>1, IdleType DEF Became
    <3>2. QED
      BY <3>1 DEF Idle
  <2>5. ASSUME NEW s \in Requests \ {r}
        PROVE  /\ Known(req'[s], Stored') /\ req'[s].stores = req[s].stores
               /\ req'[s].unit = req[s].unit /\ CardUrl(s)' = CardUrl(s)
    <3>1. Marks(req'[s], req[s]) /\ Known(req[s], Stored)
      BY <1>1 DEF Became, TypeInv, RequestsOK
    <3>2. req[s].stores = "row" => req[s].unit # req[r].unit
      BY DEF TypeInv, RequestsOK, RowsApart
    <3>3. QED
      BY <2>1, <3>1, <3>2 DEF Marks, Known, CardUrl
  <2>6. RowsClear'
    <3>1. ASSUME NEW s \in Requests, (req[s].stores)' = "row", NEW q \in Stored'
          PROVE  programs'[q].url # CardUrl(s)'
      BY <2>1, <2>4, <2>5, <3>1
    <3>2. QED
      BY <3>1 DEF RowsClear
  <2>7. RowsApart'
    <3>1. ASSUME NEW s \in Requests, NEW q \in Requests, req'[s].stores = "row", q # s
          PROVE  /\ req'[q].unit # req'[s].unit
                 /\ req'[q].stores = "row" => CardUrl(q)' # CardUrl(s)'
      <4>1. s # r
        BY <2>4, <3>1
      <4>2. CASE q = r
        <5>1. Known(req'[s], Stored')
          BY <2>5, <4>1
        <5>2. req'[s].unit # None
          BY <3>1, <5>1, UniversityAssumption DEF Known
        <5>3. QED
          BY <2>4, <4>2, <5>2
      <4>3. CASE q # r
        BY <2>5, <3>1, <4>1, <4>3 DEF TypeInv, RequestsOK, RowsApart
      <4>4. QED
        BY <4>2, <4>3
    <3>2. QED
      BY <3>1 DEF RowsApart
  <2>8. RequestsOK'
    BY <1>1, <2>4, <2>5, <2>6, <2>7 DEF RequestsOK, Became
  <2>9. IsFiniteSet(Stored')
    BY <2>1, FS_AddElement DEF TypeInv
  <2>10. \A s \in Requests : (req[s].stores = "row")' => (UrlIsFree(s) /\ req[s].unit \notin Stored)'
    BY <2>8 DEF RequestsOK, RowsApart, UrlIsFree, Known
  <2>11. likes' \subseteq accounts' \X Stored' /\ accounts' \subseteq Users
    BY <1>1, <2>1 DEF TypeInv, TypeOK
  <2>12. req' \in [Requests -> Handlers]
    BY <2>8 DEF RequestsOK
  <2>13. TypeOK'
    BY <2>1, <2>3, <2>10, <2>11, <2>12 DEF TypeOK
  <2>14. QED
    BY <2>8, <2>9, <2>13 DEF TypeInv
<1>4. QED
  BY <1>2, <1>3

\* A like begins.
LEMMA StartLikeBecame ==
    ASSUME TypeInv, NEW r \in Requests, NEW u \in Users, NEW p \in Units, StartLike(r, u, p)
    PROVE  \E rec :
             /\ Became(r, rec) /\ rec.op = "like" /\ rec.pc = "row" /\ rec.user = u
             /\ rec.unit = p /\ rec.stores = "nothing" /\ rec.isLiked = FALSE
             /\ rec.kept => \A s \in Requests : ~Same(s, "unlike", u, p)
<1> DEFINE b   == \A s \in Requests : ~Same(s, "unlike", u, p)
           rec == [Idle EXCEPT !.op = "like", !.pc = "row", !.user = u, !.unit = p, !.kept = b]
<1>1. b \in BOOLEAN /\ (b => \A s \in Requests : ~Same(s, "unlike", u, p)) /\ Become(r, rec)
  BY DEF StartLike
<1> HIDE DEF b
<1>2. /\ rec \in Handlers /\ rec.op = "like" /\ rec.pc = "row" /\ rec.user = u
      /\ rec.unit = p /\ rec.stores = "nothing" /\ rec.isLiked = FALSE /\ rec.kept = b
  BY <1>1, IdleType DEF Handlers, Idle
<1> HIDE DEF rec
<1>3. Became(r, rec)
  BY <1>1, <1>2, BecomeOne DEF TypeInv, RequestsOK
<1>4. QED
  BY <1>1, <1>2, <1>3

\* An unlike begins: no like of the same pair is kept any more.
LEMMA StartUnlikeBecame ==
    ASSUME TypeInv, NEW r \in Requests, NEW u \in Users, NEW p \in Units, StartUnlike(r, u, p)
    PROVE  /\ \A s \in Requests \ {r} : Same(s, "like", u, p) => ~req'[s].kept
           /\ \E rec :
                /\ Became(r, rec) /\ rec.op = "unlike" /\ rec.pc = "row" /\ rec.user = u
                /\ rec.unit = p /\ rec.stores = "nothing"
<1> DEFINE rec == [Idle EXCEPT !.op = "unlike", !.pc = "row", !.user = u, !.unit = p]
<1>1. req' = [s \in Requests |->
                IF s = r THEN rec
                ELSE IF Same(s, "like", u, p) THEN [req[s] EXCEPT !.kept = FALSE] ELSE req[s]]
  BY DEF StartUnlike
<1>2. /\ rec \in Handlers /\ rec.op = "unlike" /\ rec.pc = "row" /\ rec.user = u
      /\ rec.unit = p /\ rec.stores = "nothing"
  BY IdleType DEF Handlers, Idle
<1> HIDE DEF rec
<1>3. ASSUME NEW s \in Requests \ {r}
      PROVE  Marks(req'[s], req[s]) /\ (Same(s, "like", u, p) => ~req'[s].kept)
  <2>1. req[s] \in Handlers
    BY DEF TypeInv, RequestsOK
  <2>2. CASE Same(s, "like", u, p)
    <3>1. req'[s] = [req[s] EXCEPT !.kept = FALSE]
      BY <1>1, <2>2
    <3>2. QED
      BY <2>1, <3>1 DEF Marks, Handlers
  <2>3. CASE ~Same(s, "like", u, p)
    <3>1. req'[s] = req[s]
      BY <1>1, <2>3
    <3>2. QED
      BY <2>1, <2>3, <3>1 DEF Marks
  <2>4. QED
    BY <2>2, <2>3
<1>4. req'[r] = rec /\ DOMAIN req' = Requests /\ req' = [s \in Requests |-> req'[s]]
  BY <1>1
<1>5. Became(r, rec)
  BY <1>2, <1>3, <1>4, MarkOthers DEF TypeInv, RequestsOK
<1>6. QED
  BY <1>2, <1>3, <1>5

\* An unlike that is answered ends the other unlikes' hold of the row.
LEMMA CommitUnlikeBecame ==
    ASSUME TypeInv, NEW r \in Requests, CommitUnlike(r)
    PROVE  /\ Became(r, Idle)
           /\ likes' \subseteq likes /\ UNCHANGED <<accounts, programs, said>>
           /\ \A l \in likes \ likes' : l = <<req[r].user, req[r].unit>> /\ req[r].isLiked
<1> DEFINE rivals == {s \in Requests : Same(s, "unlike", req[r].user, req[r].unit)}
<1>1. UNCHANGED <<accounts, programs, said>>
  BY DEF CommitUnlike
<1>2. CASE ~req[r].isLiked
  BY <1>1, <1>2, Finished DEF CommitUnlike
<1>3. CASE req[r].isLiked
  <2>1. /\ likes' = likes \ {<<req[r].user, req[r].unit>>}
        /\ req' = [s \in Requests |-> CASE s = r      -> Idle
                                        [] s \in rivals \ {r} -> [req[s] EXCEPT !.isLiked = FALSE]
                                        [] OTHER      -> req[s]]
    BY <1>3 DEF CommitUnlike
  <2> HIDE DEF rivals
  <2>2. ASSUME NEW s \in Requests \ {r} PROVE Marks(req'[s], req[s])
    <3>1. req[s] \in Handlers
      BY DEF TypeInv, RequestsOK
    <3>2. req'[s] = [req[s] EXCEPT !.isLiked = FALSE] \/ req'[s] = req[s]
      BY <2>1
    <3>3. QED
      BY <3>1, <3>2 DEF Marks, Handlers
  <2>3. req'[r] = Idle /\ DOMAIN req' = Requests /\ req' = [s \in Requests |-> req'[s]]
    BY <2>1
  <2>4. Became(r, Idle)
    BY <2>2, <2>3, IdleType, MarkOthers DEF TypeInv, RequestsOK
  <2>5. QED
    BY <1>1, <1>3, <2>1, <2>4
<1>4. QED
  BY <1>2, <1>3

\* A step that changes likes and requests, and perhaps loses an account.
LEMMA LikesType ==
    ASSUME TypeInv, RequestsOK', UNCHANGED <<programs, unit>>, accounts' \subseteq Users,
           likes' \subseteq accounts' \X Stored
    PROVE  TypeInv'
<1>1. Stored' = Stored
  BY DEF Stored
<1>2. \A r \in Requests : (req[r].stores = "row")' => (UrlIsFree(r) /\ req[r].unit \notin Stored)'
  BY DEF RequestsOK, RowsApart, UrlIsFree, Known
<1>3. QED
  BY <1>1, <1>2 DEF TypeInv, TypeOK, RequestsOK

\* Every step of liking keeps the types.
LEMMA LikingType ==
    ASSUME TypeInv, NEW r \in Requests, NEW u \in Users, NEW p \in Units,
           StartLike(r, u, p) \/ StartUnlike(r, u, p) \/ CommitLike(r) \/ CommitUnlike(r)
    PROVE  TypeInv'
<1>1. CASE StartLike(r, u, p)
  <2>1. PICK rec : /\ Became(r, rec) /\ rec.op = "like" /\ rec.pc = "row" /\ rec.user = u
                   /\ rec.unit = p /\ rec.stores = "nothing" /\ rec.isLiked = FALSE
                   /\ rec.kept => \A s \in Requests : ~Same(s, "unlike", u, p)
    BY <1>1, StartLikeBecame
  <2>2. p \in Stored /\ UNCHANGED <<tables, said>>
    BY <1>1 DEF StartLike
  <2>3. Known(rec, Stored)
    BY <2>1, <2>2 DEF Known
  <2>4. QED
    BY <2>1, <2>2, <2>3, BecomingType
<1>2. CASE StartUnlike(r, u, p)
  <2>1. PICK rec : /\ Became(r, rec) /\ rec.op = "unlike" /\ rec.pc = "row" /\ rec.user = u
                   /\ rec.unit = p /\ rec.stores = "nothing"
    BY <1>2, StartUnlikeBecame
  <2>2. p \in Stored /\ UNCHANGED <<tables, unit>>
    BY <1>2 DEF StartUnlike
  <2>3. Known(rec, Stored)
    BY <2>1, <2>2 DEF Known
  <2>4. RequestsOK'
    BY <2>1, <2>2, <2>3, RequestsKept DEF TypeInv, tables
  <2>5. QED
    BY <2>2, <2>4, LikesType DEF tables, TypeInv, TypeOK
<1>3. CASE CommitLike(r)
  <2> DEFINE pair == <<req[r].user, req[r].unit>>
  <2>1. Became(r, Idle) /\ UNCHANGED <<accounts, programs, unit>>
    BY <1>3, Finished DEF CommitLike
  <2>2. likes' = likes \/ (likes' = likes \cup {pair} /\ req[r].user \in accounts)
    BY <1>3 DEF CommitLike
  <2>3. req[r].unit \in Stored
    BY <1>3 DEF CommitLike, Known, TypeInv, RequestsOK
  <2>4. likes' \subseteq accounts \X Stored /\ accounts \subseteq Users
    BY <2>2, <2>3 DEF TypeInv, TypeOK
  <2>5. RequestsOK'
    BY <2>1, IdleType, RequestsKept DEF TypeInv, Idle
  <2>6. QED
    BY <2>1, <2>4, <2>5, LikesType
<1>4. CASE CommitUnlike(r)
  <2>1. Became(r, Idle) /\ likes' \subseteq likes /\ UNCHANGED <<accounts, programs, said>>
    BY <1>4, CommitUnlikeBecame
  <2>2. RequestsOK'
    BY <2>1, IdleType, RequestsKept DEF TypeInv, Idle
  <2>3. unit' = unit /\ likes' \subseteq accounts' \X Stored /\ accounts' \subseteq Users
    BY <2>1 DEF TypeInv, TypeOK, said
  <2>4. QED
    BY <2>1, <2>2, <2>3, LikesType
<1>5. QED
  BY <1>1, <1>2, <1>3, <1>4

\* An account that goes takes its likes along.
LEMMA DeleteAccountType ==
    ASSUME TypeInv, NEW u \in Users, DeleteAccount(u)
    PROVE  TypeInv'
<1>1. UNCHANGED <<programs, req, unit>> /\ accounts' = accounts \ {u}
  BY DEF DeleteAccount
<1>2. likes' \subseteq accounts' \X Stored
  <2>1. ASSUME NEW l \in likes' PROVE l \in accounts' \X Stored
    BY <1>1 DEF DeleteAccount, TypeInv, TypeOK
  <2>2. QED
    BY <2>1
<1>3. Stored' = Stored
  BY <1>1 DEF Stored
<1>4. RequestsOK'
  BY <1>1, <1>3 DEF TypeInv, RequestsOK, RowsApart, RowsClear, CardUrl
<1>5. QED
  BY <1>1, <1>2, <1>4, LikesType DEF TypeInv, TypeOK

\* Every step keeps everything in its type.
LEMMA TypeStep == TypeInv /\ [Next]_vars => TypeInv'
<1> SUFFICES ASSUME TypeInv, [Next]_vars PROVE TypeInv'
  OBVIOUS
<1>1. CASE UNCHANGED vars
  <2>1. UNCHANGED <<tables, said, programs, req>>
    BY <1>1 DEF vars, tables, said
  <2>2. Stored' = Stored
    BY <2>1 DEF Stored
  <2>3. RequestsOK'
    BY <2>1, <2>2 DEF TypeInv, RequestsOK, RowsApart, RowsClear, CardUrl
  <2>4. QED
    BY <2>1, <2>3, FrameType
<1>2. ASSUME NEW r \in Requests, Arrive(r) PROVE TypeInv'
  BY <1>2, StartCheckType, LikingType DEF Arrive
<1>3. ASSUME NEW r \in Requests, HandlerStep(r) PROVE TypeInv'
  <2>1. CASE CommitLike(r) \/ CommitUnlike(r)
    <3>1. req[r].user \in Users /\ req[r].unit \in Units
      BY <2>1 DEF CommitLike, CommitUnlike, Known, Stored, TypeInv, RequestsOK
    <3>2. QED
      BY <2>1, <3>1, LikingType
  <2>2. QED
    BY <1>3, <2>1, FindByUrlType, FindByNameType, InsertType, LookUpType, CommitCheckType
      DEF HandlerStep
<1>4. ASSUME NEW r \in Requests, RollBack(r) PROVE TypeInv'
  BY <1>4, FinishingType DEF RollBack
<1>5. ASSUME NEW u \in Users, DeleteAccount(u) PROVE TypeInv'
  BY <1>5, DeleteAccountType
<1>6. QED
  BY <1>1, <1>2, <1>3, <1>4, <1>5 DEF Next

\* Every variable of University always has its type, and a URL always has at most one
\* program (the unique index on normalized_url).
THEOREM TypeCorrect == Spec => []TypeOK
<1>1. Spec => []TypeInv
  BY TypeInit, TypeStep, PTL DEF Spec
<1>2. TypeInv => TypeOK
  BY DEF TypeInv
<1>3. QED
  BY <1>1, <1>2, PTL

-----------------------------------------------------------------------------
(* Likes that stand *)

\* No unlike of this user and program is in flight.
Quiet(u, p) == \A s \in Requests : ~Same(s, "unlike", u, p)

\* A like whose answer is a promise sees no unlike, and the row it saw is still there.
Promising(q) ==
    q.op = "like" /\ q.kept =>
      /\ Quiet(q.user, q.unit)
      /\ q.pc = "commit" /\ q.isLiked /\ q.user \in accounts => <<q.user, q.unit>> \in likes

LikeInv ==
    /\ TypeInv /\ LikesStand
    /\ \A u \in Users, p \in Units : <<u, p>> \in promised => Quiet(u, p)
    /\ \A r \in Requests : Promising(req[r])

\* A pair that was promised is a user and a program.
LEMMA PromisedPairs ==
    ASSUME TypeInv, LikesStand, NEW l \in promised
    PROVE  \E u \in accounts, p \in Stored : l = <<u, p>>
BY DEF TypeInv, TypeOK, LikesStand

\* Where handler r is no new unlike, every pair that was quiet is quiet.
LEMMA QuietKept ==
    ASSUME NEW r \in Requests, NEW rec, Became(r, rec), NEW u, NEW p, Quiet(u, p),
           \/ rec.op # "unlike" \/ rec.user # u \/ rec.unit # p
           \/ rec.op = req[r].op /\ rec.user = req[r].user /\ rec.unit = req[r].unit
    PROVE  Quiet(u, p)'
<1>1. ASSUME NEW s \in Requests, Same(s, "unlike", u, p)' PROVE FALSE
  <2>1. CASE s = r
    BY <1>1, <2>1 DEF Became, Same, Quiet
  <2>2. CASE s # r
    BY <1>1, <2>2 DEF Became, Marks, Same, Quiet
  <2>3. QED
    BY <2>1, <2>2
<1>2. QED
  BY <1>1 DEF Quiet

\* A step after which everything that was quiet is quiet and no like is lost.
LEMMA LikesKept ==
    ASSUME LikeInv, TypeInv', NEW r \in Requests, NEW rec, Became(r, rec),
           UNCHANGED <<accounts, likes, promised>>,
           \/ rec.op # "unlike"
           \/ rec.op = req[r].op /\ rec.user = req[r].user /\ rec.unit = req[r].unit,
           Promising(rec)
    PROVE  LikeInv'
<1>1. \A u, p : Quiet(u, p) => Quiet(u, p)'
  BY QuietKept
<1>2. Promising(rec)'
  BY <1>1 DEF Promising
<1>3. ASSUME NEW s \in Requests PROVE Promising(req[s])'
  <2>1. CASE s = r
    BY <1>2, <2>1 DEF Became
  <2>2. CASE s # r
    <3>1. Marks(req'[s], req[s]) /\ Promising(req[s])
      BY <2>2 DEF Became, LikeInv
    <3>2. QED
      BY <1>1, <3>1 DEF Marks, Promising
  <2>3. QED
    BY <2>1, <2>2
<1>4. QED
  BY <1>1, <1>3 DEF LikeInv, LikesStand

\* The steps of a check, and a rollback, concern no like.
LEMMA Elsewhere ==
    ASSUME TypeInv, NEW r \in Requests,
           \/ \E u \in Users, c \in Cards : StartCheck(r, u, c)
           \/ FindByUrl(r) \/ FindByName(r) \/ Insert(r) \/ LookUpLiked(r) \/ CommitCheck(r)
           \/ RollBack(r)
    PROVE  /\ UNCHANGED <<accounts, likes, promised>>
           /\ \E rec : Became(r, rec) /\ rec.op \in {"check", "none"}
<1>1. Known(req[r], Stored)
  BY DEF TypeInv, RequestsOK
<1>2. UNCHANGED <<accounts, likes, promised>>
  BY DEF StartCheck, FindByUrl, FindByName, Insert, LookUpLiked, CommitCheck, RollBack, tables, said
<1>3. CASE Finish(r)
  BY <1>2, <1>3, Finished DEF Idle
<1>4. CASE \E u \in Users, c \in Cards : StartCheck(r, u, c)
  BY <1>2, <1>4, StartCheckBecame
<1>5. CASE \E pc \in {"name", "insert"} : Goto(r, pc) /\ req[r].op = "check"
  BY <1>2, <1>5, GotoBecame
<1>6. CASE \E p \in Units, stores \in {"nothing", "url", "row"} :
             Found(r, p, stores) /\ req[r].op = "check"
  BY <1>2, <1>6, FoundBecame
<1>7. CASE LookUpLiked(r)
  <2>1. req[r].op = "check"
    BY <1>1, <1>7 DEF LookUpLiked, At, Known
  <2>2. QED
    BY <1>2, <1>7, <2>1, LookUpBecame DEF LookUpLiked
<1>8. CASE FindByUrl(r)
  <2>1. req[r].op = "check"
    BY <1>1, <1>8 DEF FindByUrl, At, Known
  <2>2. QED
    BY <1>5, <1>6, <1>8, <2>1 DEF FindByUrl, ByUrl, Stored
<1>9. CASE FindByName(r)
  <2>1. req[r].op = "check"
    BY <1>1, <1>9 DEF FindByName, At, Known
  <2>2. QED
    BY <1>3, <1>5, <1>6, <1>9, <2>1 DEF FindByName, ByName, Stored, Backfill
<1>10. CASE Insert(r)
  <2>1. req[r].op = "check"
    BY <1>1, <1>10 DEF Insert, At, Known
  <2>2. QED
    BY <1>3, <1>6, <1>10, <2>1 DEF Insert, Fresh
<1>11. CASE CommitCheck(r) \/ RollBack(r)
  BY <1>3, <1>11 DEF CommitCheck, RollBack
<1>12. QED
  BY <1>4, <1>7, <1>8, <1>9, <1>10, <1>11

\* A like that begins promises something only where no unlike is.
LEMMA StartLikeStands ==
    ASSUME LikeInv, TypeInv', NEW r \in Requests, NEW u \in Users, NEW p \in Units,
           StartLike(r, u, p)
    PROVE  LikeInv'
<1>1. PICK rec : /\ Became(r, rec) /\ rec.op = "like" /\ rec.pc = "row" /\ rec.user = u
                 /\ rec.unit = p /\ rec.stores = "nothing" /\ rec.isLiked = FALSE
                 /\ rec.kept => \A s \in Requests : ~Same(s, "unlike", u, p)
  BY StartLikeBecame DEF LikeInv
<1>2. Promising(rec)
  BY <1>1 DEF Promising, Quiet
<1>3. UNCHANGED <<accounts, likes, promised>>
  BY DEF StartLike, tables, said
<1>4. QED
  BY <1>1, <1>2, <1>3, LikesKept

\* What the look at the likes tells a like is true.
LEMMA LookUpRowStands ==
    ASSUME LikeInv, TypeInv', NEW r \in Requests, LookUpRow(r)
    PROVE  LikeInv'
<1>1. PICK rec :
        /\ Became(r, rec) /\ rec.op = req[r].op /\ rec.pc = "commit" /\ rec.user = req[r].user
        /\ rec.card = req[r].card /\ rec.unit = req[r].unit /\ rec.stores = req[r].stores
        /\ rec.alone = req[r].alone /\ rec.kept = req[r].kept
        /\ rec.isLiked => <<req[r].user, req[r].unit>> \in likes
  BY LookUpBecame DEF LookUpRow, LikeInv
<1>2. Promising(rec)
  BY <1>1 DEF LikeInv, Promising
<1>3. UNCHANGED <<accounts, likes, promised>>
  BY DEF LookUpRow, tables, said
<1>4. QED
  BY <1>1, <1>2, <1>3, LikesKept

\* An unlike takes back what was promised, and its pair is promised nothing until it ends.
LEMMA StartUnlikeStands ==
    ASSUME LikeInv, TypeInv', NEW r \in Requests, NEW u \in Users, NEW p \in Units,
           StartUnlike(r, u, p)
    PROVE  LikeInv'
<1>1. /\ \A s \in Requests \ {r} : Same(s, "like", u, p) => ~req'[s].kept
      /\ UNCHANGED <<accounts, likes>> /\ promised' = promised \ {<<u, p>>}
  BY StartUnlikeBecame DEF LikeInv, StartUnlike, tables
<1>2. PICK rec : /\ Became(r, rec) /\ rec.op = "unlike" /\ rec.pc = "row" /\ rec.user = u
                 /\ rec.unit = p /\ rec.stores = "nothing"
  BY StartUnlikeBecame DEF LikeInv
<1>3. \A v, q : Quiet(v, q) /\ (v # u \/ q # p) => Quiet(v, q)'
  BY <1>2, QuietKept
<1>4. ASSUME NEW s \in Requests PROVE Promising(req[s])'
  <2>1. CASE s = r
    BY <1>2, <2>1 DEF Became, Promising
  <2>2. CASE s # r
    <3>1. Marks(req'[s], req[s]) /\ Promising(req[s])
      BY <1>2, <2>2 DEF Became, LikeInv
    <3>2. QED
      BY <1>1, <1>3, <2>2, <3>1 DEF Marks, Promising, Same
  <2>3. QED
    BY <2>1, <2>2
<1>5. ASSUME NEW v \in Users, NEW q \in Units, <<v, q>> \in promised' PROVE Quiet(v, q)'
  <2>1. <<v, q>> \in promised /\ <<v, q>> # <<u, p>>
    BY <1>1, <1>5
  <2>2. QED
    BY <1>3, <2>1 DEF LikeInv
<1>6. LikesStand'
  BY <1>1 DEF LikeInv, LikesStand
<1>7. QED
  BY <1>4, <1>5, <1>6 DEF LikeInv

\* The answer to a like promises a row that is there.
LEMMA CommitLikeStands ==
    ASSUME LikeInv, TypeInv', NEW r \in Requests, CommitLike(r)
    PROVE  LikeInv'
<1> DEFINE pair == <<req[r].user, req[r].unit>>
<1>1. Became(r, Idle) /\ accounts' = accounts /\ req[r].op = "like" /\ req[r].pc = "commit"
  BY Finished DEF CommitLike, LikeInv, At
<1>2. likes \subseteq likes'
  BY DEF CommitLike
<1>3. CASE promised' = promised
  <2>1. LikesStand'
    BY <1>2, <1>3 DEF LikeInv, LikesStand
  <2>2. \A u, p : Quiet(u, p) => Quiet(u, p)'
    BY <1>1, QuietKept DEF Idle
  <2>3. ASSUME NEW s \in Requests PROVE Promising(req[s])'
    <3>1. CASE s = r
      BY <1>1, <3>1 DEF Became, Promising, Idle
    <3>2. CASE s # r
      <4>1. Marks(req'[s], req[s]) /\ Promising(req[s])
        BY <1>1, <3>2 DEF Became, LikeInv
      <4>2. QED
        BY <1>1, <1>2, <2>2, <4>1 DEF Marks, Promising
    <3>3. QED
      BY <3>1, <3>2
  <2>4. QED
    BY <1>3, <2>1, <2>2, <2>3 DEF LikeInv
<1>4. CASE promised' # promised
  <2>1. /\ promised' = promised \cup {pair} /\ req[r].kept /\ req[r].user \in accounts
        /\ req[r].isLiked \/ likes' = likes \cup {pair}
    BY <1>4 DEF CommitLike
  <2>2. Promising(req[r])
    BY DEF LikeInv
  <2>3. pair \in likes' /\ Quiet(req[r].user, req[r].unit)
    BY <1>1, <1>2, <2>1, <2>2 DEF Promising
  <2>4. LikesStand'
    BY <1>2, <2>1, <2>3 DEF LikeInv, LikesStand
  <2>5. \A u, p : Quiet(u, p) => Quiet(u, p)'
    BY <1>1, QuietKept DEF Idle
  <2>6. ASSUME NEW s \in Requests PROVE Promising(req[s])'
    <3>1. CASE s = r
      BY <1>1, <3>1 DEF Became, Promising, Idle
    <3>2. CASE s # r
      <4>1. Marks(req'[s], req[s]) /\ Promising(req[s])
        BY <1>1, <3>2 DEF Became, LikeInv
      <4>2. QED
        BY <1>1, <1>2, <2>5, <4>1 DEF Marks, Promising
    <3>3. QED
      BY <3>1, <3>2
  <2>7. ASSUME NEW v \in Users, NEW q \in Units, <<v, q>> \in promised' PROVE Quiet(v, q)'
    <3>1. CASE <<v, q>> = pair
      BY <2>3, <2>5, <3>1
    <3>2. CASE <<v, q>> \in promised
      BY <2>5, <3>2 DEF LikeInv
    <3>3. QED
      BY <2>1, <2>7, <3>1, <3>2
  <2>8. QED
    BY <2>4, <2>6, <2>7 DEF LikeInv
<1>5. QED
  BY <1>3, <1>4

\* An unlike deletes a row that nobody is promised any more.
LEMMA CommitUnlikeStands ==
    ASSUME LikeInv, TypeInv', NEW r \in Requests, CommitUnlike(r)
    PROVE  LikeInv'
<1>1. /\ Became(r, Idle) /\ UNCHANGED <<accounts, promised>>
      /\ \A l \in likes \ likes' : l = <<req[r].user, req[r].unit>>
  BY CommitUnlikeBecame DEF LikeInv, said
<1>2. Same(r, "unlike", req[r].user, req[r].unit)
  BY DEF CommitUnlike, Same
<1>3. \A u, p : Quiet(u, p) => Quiet(u, p)'
  BY <1>1, QuietKept DEF Idle
<1>4. \A u, p : Quiet(u, p) /\ <<u, p>> \in likes => <<u, p>> \in likes'
  <2>1. ASSUME NEW u, NEW p, Quiet(u, p), <<u, p>> \in likes \ likes' PROVE FALSE
    <3>1. u = req[r].user /\ p = req[r].unit
      BY <1>1, <2>1
    <3>2. QED
      BY <1>2, <2>1, <3>1 DEF Quiet
  <2>2. QED
    BY <2>1
<1>5. ASSUME NEW s \in Requests PROVE Promising(req[s])'
  <2>1. CASE s = r
    BY <1>1, <2>1 DEF Became, Promising, Idle
  <2>2. CASE s # r
    <3>1. Marks(req'[s], req[s]) /\ Promising(req[s])
      BY <1>1, <2>2 DEF Became, LikeInv
    <3>2. QED
      BY <1>1, <1>3, <1>4, <3>1 DEF Marks, Promising
  <2>3. QED
    BY <2>1, <2>2
<1>6. LikesStand'
  <2>1. ASSUME NEW l \in promised PROVE l \in likes'
    <3>1. PICK u \in accounts, p \in Stored : l = <<u, p>>
      BY PromisedPairs DEF LikeInv
    <3>2. u \in Users /\ p \in Units /\ l \in likes
      BY DEF LikeInv, TypeInv, TypeOK, Stored, LikesStand
    <3>3. QED
      BY <1>4, <3>1, <3>2 DEF LikeInv
  <2>2. QED
    BY <1>1, <2>1 DEF LikesStand
<1>7. QED
  BY <1>1, <1>3, <1>5, <1>6 DEF LikeInv

\* An account that goes takes back what was promised to it, and comes back never.
LEMMA DeleteAccountStands ==
    ASSUME LikeInv, TypeInv', NEW u \in Users, DeleteAccount(u)
    PROVE  LikeInv'
<1>1. /\ req' = req /\ accounts' = accounts \ {u}
      /\ likes' = {l \in likes : l[1] # u} /\ promised' = {l \in promised : l[1] # u}
  BY DEF DeleteAccount
<1>2. \A v, p : Quiet(v, p) => Quiet(v, p)'
  BY <1>1 DEF Quiet, Same
<1>3. ASSUME NEW s \in Requests PROVE Promising(req[s])'
  <2>1. Promising(req[s])
    BY DEF LikeInv
  <2>2. ASSUME req[s].user \in accounts', <<req[s].user, req[s].unit>> \in likes
        PROVE  <<req[s].user, req[s].unit>> \in likes'
    BY <1>1, <2>2
  <2>3. QED
    BY <1>1, <1>2, <2>1, <2>2 DEF Promising
<1>4. LikesStand'
  BY <1>1 DEF LikeInv, LikesStand
<1>5. QED
  BY <1>1, <1>2, <1>3, <1>4 DEF LikeInv

\* Every step keeps the promises.
LEMMA LikeStep == LikeInv /\ [Next]_vars => LikeInv'
<1> SUFFICES ASSUME LikeInv, [Next]_vars PROVE LikeInv'
  OBVIOUS
<1>1. TypeInv'
  BY TypeStep DEF LikeInv
<1>2. CASE UNCHANGED vars
  <2>1. UNCHANGED <<accounts, likes, promised, req>>
    BY <1>2 DEF vars
  <2>2. QED
    BY <1>1, <2>1 DEF LikeInv, LikesStand, Promising, Quiet, Same
<1>3. ASSUME NEW r \in Requests,
             \/ \E u \in Users, c \in Cards : StartCheck(r, u, c)
             \/ FindByUrl(r) \/ FindByName(r) \/ Insert(r) \/ LookUpLiked(r) \/ CommitCheck(r)
             \/ RollBack(r)
      PROVE  LikeInv'
  <2>1. PICK rec : Became(r, rec) /\ rec.op \in {"check", "none"}
    BY <1>3, Elsewhere DEF LikeInv
  <2>2. UNCHANGED <<accounts, likes, promised>>
    BY <1>3, Elsewhere DEF LikeInv
  <2>3. QED
    BY <1>1, <2>1, <2>2, LikesKept DEF Promising
<1>4. ASSUME NEW r \in Requests, Arrive(r) PROVE LikeInv'
  BY <1>1, <1>3, <1>4, StartLikeStands, StartUnlikeStands DEF Arrive
<1>5. ASSUME NEW r \in Requests, HandlerStep(r) PROVE LikeInv'
  BY <1>1, <1>3, <1>5, LookUpRowStands, CommitLikeStands, CommitUnlikeStands DEF HandlerStep
<1>6. ASSUME NEW u \in Users, DeleteAccount(u) PROVE LikeInv'
  BY <1>1, <1>6, DeleteAccountStands
<1>7. QED
  BY <1>2, <1>3, <1>4, <1>5, <1>6 DEF Next

\* A like that was answered has its row until it is taken back or the account goes,
\* whatever else is in flight (like_university_program).
THEOREM LikesAreKept == Spec => []LikesStand
<1>1. Init => LikeInv
  <2> SUFFICES ASSUME Init PROVE LikeInv
    OBVIOUS
  <2>1. TypeInv
    BY TypeInit
  <2>2. QED
    BY <2>1 DEF Init, LikeInv, LikesStand, Promising, Idle
<1>2. LikeInv => LikesStand
  BY DEF LikeInv
<1>3. QED
  BY <1>1, <1>2, LikeStep, PTL DEF Spec

-----------------------------------------------------------------------------
(* Cards that keep their program *)

\* A card without a URL is answered a program of its name.
Named(q) ==
    /\ q.op = "check" /\ q.pc \in {"liked", "commit"} /\ q.stores # "row"
    /\ UrlKey[q.card.url] = Blank
    => programs[q.unit].name = NameKey[q.card.name]

\* A check that nobody overlaps is on the way to the program its card had.
Sure(q) ==
    q.op = "check" /\ q.alone /\ Settled(q.card) =>
      \/ q.pc = "url"
      \/ q.pc = "name" /\ UrlKey[q.card.url] = Blank
      \/ q.pc \in {"liked", "commit"} /\ q.unit = unit[q.card]

StableInv ==
    /\ TypeInv
    /\ \A r, s \in Requests :
         r # s /\ req[r].op = "check" /\ req[r].alone => req[s].op # "check"
    /\ \A c \in Cards : UrlKey[c.url] = Blank /\ unit[c] # None =>
         programs[unit[c]].name = NameKey[c.name]
    /\ \A r \in Requests : Named(req[r]) /\ Sure(req[r])

\* A step that leaves programs and answers alone.
LEMMA SureKept ==
    ASSUME StableInv, TypeInv', UNCHANGED <<programs, unit>>,
           NEW r \in Requests, NEW rec, Became(r, rec),
           rec.op = "check" =>
             \/ req[r].op = "check" /\ (rec.alone => req[r].alone)
             \/ /\ \A s \in Requests \ {r} : ~req'[s].alone
                /\ rec.alone => \A s \in Requests : req[s].op # "check",
           Named(rec), Sure(rec)
    PROVE  StableInv'
<1>1. \A c : Settled(c)' = Settled(c)
  BY DEF Settled
<1>2. req'[r] = rec /\ \A s \in Requests \ {r} : Marks(req'[s], req[s])
  BY DEF Became
<1>3. ASSUME NEW s \in Requests PROVE Named(req[s])' /\ Sure(req[s])'
  <2>1. CASE s = r
    BY <1>1, <1>2, <2>1 DEF Named, Sure
  <2>2. CASE s # r
    <3>1. Marks(req'[s], req[s]) /\ Named(req[s]) /\ Sure(req[s])
      BY <1>2, <2>2 DEF StableInv
    <3>2. QED
      BY <1>1, <3>1 DEF Marks, Named, Sure
  <2>3. QED
    BY <2>1, <2>2
<1>4. ASSUME NEW q \in Requests, NEW s \in Requests, q # s, (req[q].op)' = "check", (req[q].alone)'
      PROVE  (req[s].op)' # "check"
  <2>1. CASE q = r
    BY <1>2, <1>4, <2>1 DEF StableInv, Marks
  <2>2. CASE s = r
    BY <1>2, <1>4, <2>2 DEF StableInv, Marks
  <2>3. CASE q # r /\ s # r
    BY <1>2, <1>4, <2>3 DEF StableInv, Marks
  <2>4. QED
    BY <2>1, <2>2, <2>3
<1>5. QED
  BY <1>3, <1>4 DEF StableInv

\* A check that starts has all before it.
LEMMA StartCheckSure ==
    ASSUME StableInv, TypeInv', NEW r \in Requests, NEW u \in Users, NEW c \in Cards,
           StartCheck(r, u, c)
    PROVE  StableInv'
<1>1. PICK rec :
        /\ Became(r, rec)
        /\ rec.op = "check" /\ rec.pc = "url" /\ rec.user = u /\ rec.card = c
        /\ rec.stores = "nothing" /\ rec.unit = None
        /\ rec.alone => \A s \in Requests : req[s].op # "check"
  BY StartCheckBecame DEF StableInv
<1>2. \A s \in Requests \ {r} : ~req'[s].alone
  BY StartCheckBecame DEF StableInv
<1>3. Named(rec) /\ Sure(rec) /\ UNCHANGED <<programs, unit>>
  BY <1>1 DEF Named, Sure, StartCheck, tables, said
<1>4. QED
  BY <1>1, <1>2, <1>3, SureKept

\* A handler that ends, or is of no check, is of no concern.
LEMMA AsideSure ==
    ASSUME StableInv, TypeInv', UNCHANGED <<programs, unit>>,
           NEW r \in Requests, NEW rec, Became(r, rec), rec.op # "check"
    PROVE  StableInv'
BY SureKept DEF Named, Sure

\* The next step of a check.
LEMMA GotoSure ==
    ASSUME StableInv, TypeInv', UNCHANGED <<programs, unit>>, NEW r \in Requests,
           NEW pc \in {"name", "insert"}, Goto(r, pc), req[r].op = "check",
           req[r].alone /\ Settled(req[r].card) => pc = "name" /\ CardUrl(r) = Blank
    PROVE  StableInv'
<1>1. PICK rec :
        /\ Became(r, rec) /\ rec.op = req[r].op /\ rec.pc = pc /\ rec.user = req[r].user
        /\ rec.card = req[r].card /\ rec.unit = req[r].unit /\ rec.stores = req[r].stores
        /\ rec.alone = req[r].alone
  BY GotoBecame DEF StableInv
<1>2. Named(rec) /\ Sure(rec)
  BY <1>1 DEF Named, Sure, CardUrl
<1>3. QED
  BY <1>1, <1>2, SureKept

\* The program that is found or made.
LEMMA FoundSure ==
    ASSUME StableInv, TypeInv', UNCHANGED <<programs, unit>>, NEW r \in Requests,
           NEW p \in Units, NEW stores \in {"nothing", "url", "row"}, Found(r, p, stores),
           req[r].op = "check",
           req[r].alone /\ Settled(req[r].card) => p = unit[req[r].card],
           stores # "row" /\ CardUrl(r) = Blank => programs[p].name = CardName(r)
    PROVE  StableInv'
<1>1. PICK rec :
        /\ Became(r, rec) /\ rec.op = req[r].op /\ rec.pc = "liked" /\ rec.user = req[r].user
        /\ rec.card = req[r].card /\ rec.unit = p /\ rec.stores = stores
        /\ rec.alone = req[r].alone
  BY FoundBecame DEF StableInv
<1>2. Named(rec) /\ Sure(rec)
  BY <1>1 DEF Named, Sure, CardUrl, CardName
<1>3. QED
  BY <1>1, <1>2, SureKept

\* The URL finds the card's own program, if it has one with this URL.
LEMMA FindByUrlSure ==
    ASSUME StableInv, TypeInv', NEW r \in Requests, FindByUrl(r)
    PROVE  StableInv'
<1> DEFINE c == req[r].card
<1>1. UNCHANGED <<programs, unit>> /\ req[r].pc = "url" /\ Known(req[r], Stored)
  BY DEF FindByUrl, At, tables, said, StableInv, TypeInv, RequestsOK
<1>2. req[r].op = "check" /\ c \in Cards
  BY <1>1 DEF Known
<1>3. unit[c] \in Stored \cup {None}
  BY <1>2 DEF StableInv, TypeInv, TypeOK
<1>4. Settled(c) /\ CardUrl(r) # Blank => unit[c] \in ByUrl(r)
  BY <1>3 DEF Settled, CardUrl, ByUrl
<1>5. CASE Goto(r, "name") /\ ByUrl(r) = {}
  BY <1>1, <1>2, <1>4, <1>5, GotoSure
<1>6. CASE \E p \in ByUrl(r) : Found(r, p, "nothing")
  <2>1. PICK p \in ByUrl(r) : Found(r, p, "nothing")
    BY <1>6
  <2>2. p \in Stored /\ p \in Units /\ programs[p].url = CardUrl(r) /\ CardUrl(r) # Blank
    BY <2>1 DEF ByUrl, Stored
  <2>3. Settled(c) => p = unit[c]
    BY <1>4, <2>2 DEF ByUrl, StableInv, TypeInv, TypeOK
  <2>4. QED
    BY <1>1, <1>2, <2>1, <2>2, <2>3, FoundSure
<1>7. QED
  BY <1>5, <1>6 DEF FindByUrl

\* The name finds the card's own program, if there is no URL and no namesake.
LEMMA FindByNameSure ==
    ASSUME StableInv, TypeInv', NEW r \in Requests, FindByName(r)
    PROVE  StableInv'
<1> DEFINE c == req[r].card
<1>1. UNCHANGED <<programs, unit>> /\ req[r].pc = "name" /\ Known(req[r], Stored) /\ Sure(req[r])
  BY DEF FindByName, At, tables, said, StableInv, TypeInv, RequestsOK
<1>2. req[r].op = "check" /\ c \in Cards
  BY <1>1 DEF Known
<1>3. unit[c] \in Stored \cup {None}
  BY <1>2 DEF StableInv, TypeInv, TypeOK
<1>4. req[r].alone /\ Settled(c) => CardUrl(r) = Blank /\ unit[c] \in ByName(r)
  BY <1>1, <1>2, <1>3 DEF Sure, Settled, CardUrl, CardName, ByName, StableInv
<1>5. IsFiniteSet(ByName(r))
  <2>1. ByName(r) \in SUBSET Stored
    BY DEF ByName
  <2>2. QED
    BY <2>1, FS_Subset DEF StableInv, TypeInv
<1>6. CASE Goto(r, "insert") /\ Cardinality(ByName(r)) = 0
  <2>1. ByName(r) = {}
    BY <1>5, <1>6, FS_EmptySet
  <2>2. QED
    BY <1>1, <1>2, <1>4, <1>6, <2>1, GotoSure
<1>7. CASE Cardinality(ByName(r)) = 1 /\ \E p \in ByName(r) : Found(r, p, Backfill(r, p))
  <2>1. PICK p \in ByName(r) : Found(r, p, Backfill(r, p))
    BY <1>7
  <2>2. ByName(r) = {p}
    BY <1>5, <1>7, <2>1, FS_Singleton
  <2>3. p \in Units /\ programs[p].name = CardName(r) /\ Backfill(r, p) \in {"nothing", "url", "row"}
    BY <2>1 DEF ByName, Stored, Backfill
  <2>4. req[r].alone /\ Settled(c) => p = unit[c]
    BY <1>4, <2>2
  <2>5. QED
    BY <1>1, <1>2, <2>1, <2>3, <2>4, FoundSure
<1>8. CASE Finish(r)
  <2>1. Became(r, Idle) /\ Idle.op # "check"
    BY <1>8, Finished DEF StableInv, Idle
  <2>2. QED
    BY <1>1, <2>1, AsideSure
<1>9. QED
  BY <1>6, <1>7, <1>8 DEF FindByName

\* Nobody makes a program for a card that has one, unless others are checking.
LEMMA InsertSure ==
    ASSUME StableInv, TypeInv', NEW r \in Requests, Insert(r)
    PROVE  StableInv'
<1>1. UNCHANGED <<programs, unit>> /\ req[r].pc = "insert" /\ Known(req[r], Stored) /\ Sure(req[r])
  BY DEF Insert, At, tables, said, StableInv, TypeInv, RequestsOK
<1>2. req[r].op = "check" /\ ~(req[r].alone /\ Settled(req[r].card))
  BY <1>1 DEF Known, Sure
<1>3. CASE \E p \in Fresh : Found(r, p, "row")
  <2>1. PICK p \in Fresh : Found(r, p, "row")
    BY <1>3
  <2>2. p \in Units
    BY <2>1 DEF Fresh
  <2>3. QED
    BY <1>1, <1>2, <2>1, <2>2, FoundSure
<1>4. CASE Finish(r)
  <2>1. Became(r, Idle) /\ Idle.op # "check"
    BY <1>4, Finished DEF StableInv, Idle
  <2>2. QED
    BY <1>1, <2>1, AsideSure
<1>5. QED
  BY <1>3, <1>4 DEF Insert

\* A look at the likes changes nothing of it.
LEMMA LookUpSure ==
    ASSUME StableInv, TypeInv', NEW r \in Requests, LookUpLiked(r) \/ LookUpRow(r)
    PROVE  StableInv'
<1>1. /\ UNCHANGED <<programs, unit>> /\ Known(req[r], Stored)
      /\ Sure(req[r]) /\ Named(req[r]) /\ req[r].pc \in {"liked", "row"}
  BY DEF LookUpLiked, LookUpRow, At, tables, said, StableInv, TypeInv, RequestsOK
<1>2. PICK rec :
        /\ Became(r, rec) /\ rec.op = req[r].op /\ rec.pc = "commit" /\ rec.user = req[r].user
        /\ rec.card = req[r].card /\ rec.unit = req[r].unit /\ rec.stores = req[r].stores
        /\ rec.alone = req[r].alone /\ rec.kept = req[r].kept
        /\ rec.isLiked => <<req[r].user, req[r].unit>> \in likes
  BY LookUpBecame DEF LookUpLiked, LookUpRow, StableInv
<1>3. Sure(rec) /\ Named(rec)
  BY <1>1, <1>2 DEF Sure, Named, Known
<1>4. QED
  BY <1>1, <1>2, <1>3, SureKept

\* The name of a program that is stored stays.
LEMMA NamesStay ==
    ASSUME TypeInv, NEW r \in Requests, CommitCheck(r), NEW p \in Stored
    PROVE  programs'[p].name = programs[p].name
<1>1. CASE req[r].stores = "url" /\ UrlIsTaken(r)
  BY <1>1 DEF CommitCheck
<1>2. CASE ~(req[r].stores = "url" /\ UrlIsTaken(r))
  <2>1. /\ \A q \in Stored \ {req[r].unit} : programs'[q] = programs[q]
        /\ req[r].unit \in Stored =>
             programs'[req[r].unit].name = programs[req[r].unit].name
    BY <1>2, CommitCheckRows
  <2>2. QED
    BY <2>1
<1>3. QED
  BY <1>1, <1>2

\* What a check answers is a program of the card's name, where the card has no URL.
LEMMA CommitCheckSure ==
    ASSUME StableInv, TypeInv', NEW r \in Requests, CommitCheck(r)
    PROVE  StableInv'
<1> DEFINE c == req[r].card
           p == req[r].unit
<1>1. /\ Became(r, Idle) /\ Idle.op = "none" /\ req[r].op = "check" /\ req[r].pc = "commit"
      /\ Known(req[r], Stored) /\ Named(req[r])
  BY Finished DEF CommitCheck, At, StableInv, TypeInv, RequestsOK, Idle
<1>2. ASSUME NEW s \in Requests \ {r}
      PROVE  Named(req[s])' /\ Sure(req[s])'
  <2>1. Marks(req'[s], req[s]) /\ Named(req[s]) /\ Known(req[s], Stored)
    BY <1>1 DEF Became, StableInv, TypeInv, RequestsOK
  <2>2. ~(req[s].op = "check" /\ req[s].alone)
    BY <1>1 DEF StableInv
  <2>3. req[s].op = "check" /\ req[s].pc \in {"liked", "commit"} /\ req[s].stores # "row" =>
          programs'[req[s].unit].name = programs[req[s].unit].name
    BY <2>1, NamesStay DEF Known, StableInv
  <2>4. QED
    BY <2>1, <2>2, <2>3 DEF Marks, Named, Sure
<1>3. Named(req[r])' /\ Sure(req[r])' /\ (req[r].op)' # "check"
  BY <1>1 DEF Became, Named, Sure
<1>4. ASSUME NEW q \in Requests, NEW s \in Requests, q # s, (req[q].op)' = "check", (req[q].alone)'
      PROVE  (req[s].op)' # "check"
  BY <1>1, <1>3, <1>4 DEF Became, Marks, StableInv
<1>5. ASSUME NEW d \in Cards, UrlKey[d.url] = Blank, unit'[d] # None
      PROVE  programs'[unit'[d]].name = NameKey[d.name]
  <2>1. CASE unit'[d] = unit[d]
    <3>1. unit[d] \in Stored
      BY <1>5, <2>1 DEF StableInv, TypeInv, TypeOK
    <3>2. QED
      BY <1>5, <2>1, <3>1, NamesStay DEF StableInv
  <2>2. CASE unit'[d] # unit[d]
    <3>1. ~(req[r].stores = "url" /\ UrlIsTaken(r)) /\ unit' = [unit EXCEPT ![c] = p]
      BY <2>2 DEF CommitCheck
    <3>2. d = c /\ unit'[d] = p
      BY <2>2, <3>1 DEF StableInv, TypeInv, TypeOK
    <3>3. CASE req[r].stores = "row"
      <4>1. p \notin Stored
        BY <1>1, <3>3 DEF Known
      <4>2. programs'[p].name = CardName(r)
        BY <3>1, <4>1, CommitCheckRows DEF StableInv
      <4>3. QED
        BY <3>2, <4>2 DEF CardName
    <3>4. CASE req[r].stores # "row"
      <4>1. p \in Stored /\ programs[p].name = NameKey[c.name]
        BY <1>1, <1>5, <3>2, <3>4 DEF Known, Named
      <4>2. QED
        BY <3>2, <4>1, NamesStay DEF StableInv
    <3>5. QED
      BY <3>3, <3>4
  <2>3. QED
    BY <2>1, <2>2
<1>6. QED
  BY <1>2, <1>3, <1>4, <1>5 DEF StableInv

\* Every step keeps checks sure.
LEMMA StableStep == StableInv /\ [Next]_vars => StableInv'
<1> SUFFICES ASSUME StableInv, [Next]_vars PROVE StableInv'
  OBVIOUS
<1>1. TypeInv'
  BY TypeStep DEF StableInv
<1>2. CASE UNCHANGED <<programs, unit, req>>
  BY <1>1, <1>2 DEF StableInv, Named, Sure, Settled
<1>3. ASSUME NEW r \in Requests, Finish(r), UNCHANGED <<programs, unit>> PROVE StableInv'
  <2>1. Became(r, Idle) /\ Idle.op # "check"
    BY <1>3, Finished DEF StableInv, Idle
  <2>2. QED
    BY <1>1, <1>3, <2>1, AsideSure
<1>4. ASSUME NEW r \in Requests, NEW u \in Users, NEW p \in Units, StartLike(r, u, p)
      PROVE  StableInv'
  <2>1. PICK rec : /\ Became(r, rec) /\ rec.op = "like" /\ rec.pc = "row" /\ rec.user = u
                   /\ rec.unit = p /\ rec.stores = "nothing" /\ rec.isLiked = FALSE
                   /\ rec.kept => \A s \in Requests : ~Same(s, "unlike", u, p)
    BY <1>4, StartLikeBecame DEF StableInv
  <2>2. UNCHANGED <<programs, unit>>
    BY <1>4 DEF StartLike, tables, said
  <2>3. QED
    BY <1>1, <2>1, <2>2, AsideSure
<1>5. ASSUME NEW r \in Requests, NEW u \in Users, NEW p \in Units, StartUnlike(r, u, p)
      PROVE  StableInv'
  <2>1. PICK rec : /\ Became(r, rec) /\ rec.op = "unlike" /\ rec.pc = "row" /\ rec.user = u
                   /\ rec.unit = p /\ rec.stores = "nothing"
    BY <1>5, StartUnlikeBecame DEF StableInv
  <2>2. UNCHANGED <<programs, unit>>
    BY <1>5 DEF StartUnlike, tables
  <2>3. QED
    BY <1>1, <2>1, <2>2, AsideSure
<1>6. ASSUME NEW r \in Requests, CommitUnlike(r) PROVE StableInv'
  <2>1. Became(r, Idle) /\ UNCHANGED <<programs, unit>> /\ Idle.op # "check"
    BY <1>6, CommitUnlikeBecame DEF StableInv, said, Idle
  <2>2. QED
    BY <1>1, <2>1, AsideSure
<1>7. ASSUME NEW r \in Requests, Arrive(r) PROVE StableInv'
  BY <1>1, <1>4, <1>5, <1>7, StartCheckSure DEF Arrive
<1>8. ASSUME NEW r \in Requests, CommitLike(r) \/ RollBack(r) PROVE StableInv'
  BY <1>3, <1>8 DEF CommitLike, RollBack, tables, said
<1>9. ASSUME NEW r \in Requests, HandlerStep(r) PROVE StableInv'
  BY <1>1, <1>6, <1>8, <1>9, FindByUrlSure, FindByNameSure, InsertSure, LookUpSure, CommitCheckSure
    DEF HandlerStep
<1>10. ASSUME NEW u \in Users, DeleteAccount(u) PROVE StableInv'
  BY <1>2, <1>10 DEF DeleteAccount
<1>11. QED
  BY <1>2, <1>7, <1>8, <1>9, <1>10 DEF Next, vars

\* Only the commit of a check changes what a card was answered.
LEMMA OnlyChecksAnswer ==
    ASSUME TypeInv, [Next]_vars, NEW c \in Cards, unit'[c] # unit[c]
    PROVE  \E r \in Requests : CommitCheck(r) /\ req[r].card = c /\ unit'[c] = req[r].unit
<1>1. PICK r \in Requests : CommitCheck(r)
  BY DEF Next, vars, Arrive, HandlerStep, StartCheck, StartLike, StartUnlike, FindByUrl, FindByName,
         Insert, LookUpLiked, LookUpRow, CommitLike, CommitUnlike, DeleteAccount, RollBack, said
<1>2. unit' = [unit EXCEPT ![req[r].card] = req[r].unit]
  BY <1>1 DEF CommitCheck
<1>3. QED
  BY <1>1, <1>2 DEF TypeInv, TypeOK

\* A check that nobody overlaps answers a card the program it had
\* (resolve_university_program), whatever programs others have added before.
THEOREM CardsKeepTheirProgram == Spec => StableAlone
<1>1. Init => StableInv
  <2> SUFFICES ASSUME Init PROVE StableInv
    OBVIOUS
  <2>1. TypeInv
    BY TypeInit
  <2>2. QED
    BY <2>1 DEF Init, StableInv, Named, Sure, Idle
<1>2. StableInv /\ [Next]_vars =>
        [\A c \in Cards :
           Settled(c) /\ unit'[c] # unit[c] =>
             \E r \in Requests : At(r, "commit") /\ req[r].card = c /\ ~req[r].alone]_vars
  <2> SUFFICES ASSUME StableInv, [Next]_vars, NEW c \in Cards, Settled(c), unit'[c] # unit[c]
               PROVE  \E r \in Requests : At(r, "commit") /\ req[r].card = c /\ ~req[r].alone
    OBVIOUS
  <2>1. PICK r \in Requests : CommitCheck(r) /\ req[r].card = c /\ unit'[c] = req[r].unit
    BY OnlyChecksAnswer DEF StableInv
  <2>2. Sure(req[r]) /\ req[r].pc = "commit" /\ req[r].op = "check"
    BY <2>1 DEF StableInv, CommitCheck, At
  <2>3. ~req[r].alone
    BY <2>1, <2>2 DEF Sure
  <2>4. QED
    BY <2>1, <2>2, <2>3 DEF At
<1>3. QED
  BY <1>1, <1>2, StableStep, PTL DEF Spec, StableAlone
=============================================================================
