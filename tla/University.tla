------------------------------ MODULE University ------------------------------
(***************************************************************************)
(* The programs that the chat recommends, as the users' checks deduplicate  *)
(* them, and the programs each user likes.  A request is one transaction    *)
(* under READ COMMITTED that ends a step where it awaits; a row inserted and *)
(* not committed is seen by nobody, but the unique index makes others wait.  *)
(***************************************************************************)
EXTENDS FiniteSets

CONSTANTS Users,
          Cards,    \* the program cards a user may check, as [url, name]
          UrlKey,   \* UrlKey[url]: normalize_url; different pages may share a key
          NameKey,  \* NameKey[name]: normalize_name; names without any of a-z and 0-9 share one
          Blank,    \* the key of a URL without host and path, the empty string
          Units,    \* ids for programs, a bound
          Requests, \* handlers in flight at the same time
          None

UrlKeys  == {UrlKey[u] : u \in DOMAIN UrlKey}
NameKeys == {NameKey[n] : n \in DOMAIN NameKey}
Rows     == [url : UrlKeys, name : NameKeys]

ASSUME UniversityAssumption ==
    /\ None \notin Units \cup Cards \cup Rows
    /\ \A c \in Cards : c.url \in DOMAIN UrlKey /\ c.name \in DOMAIN NameKey

VARIABLES
  accounts, \* the users whose account exists
  programs, \* university_program: programs[p], a row [url, name] or None (its program_data, the
            \* latest card, is left out)
  likes,    \* user_liked_university: pairs of a user and a program
  req,      \* req[r]: the handler in slot r
  unit,     \* unit[c]: the program a check of card c was last answered, or None
  promised  \* likes answered and not taken back since

vars == <<accounts, programs, likes, req, unit, promised>>

Stored == {p \in Units : programs[p] # None}

\* A request record: who asks for what, the program it found or inserted, what it will
\* store of it (a whole row, the URL, nothing), whether it saw a like.  alone: no other
\* check overlapped this one; kept: no unlike overlapped this like.
Idle == [op |-> "none", pc |-> "idle", user |-> None, card |-> None, unit |-> None,
         stores |-> "nothing", isLiked |-> FALSE, alone |-> FALSE, kept |-> FALSE]

Init ==
    /\ accounts = Users /\ programs = [p \in Units |-> None] /\ likes = {}
    /\ req = [r \in Requests |-> Idle]
    /\ unit = [c \in Cards |-> None] /\ promised = {}

-----------------------------------------------------------------------------
At(r, pc)      == req[r].pc = pc
Become(r, rec) == req' = [req EXCEPT ![r] = rec]
Goto(r, pc)    == Become(r, [req[r] EXCEPT !.pc = pc])
Finish(r)      == Become(r, Idle)

tables == <<accounts, programs, likes>>
said   == <<unit, promised>>

\* The requests for the same user and program as this one, of one kind.
Same(s, op, u, p) == req[s].op = op /\ req[s].user = u /\ req[s].unit = p

(* --------------------------------- checking ------------------------------- *)

StartCheck(r, u, c) ==
    /\ At(r, "idle")
    /\ LET others == {s \in Requests : req[s].op = "check"} IN
         req' = [s \in Requests |->
                   IF s = r THEN [Idle EXCEPT !.op = "check", !.pc = "url", !.user = u,
                                              !.card = c, !.alone = others = {}]
                            ELSE [req[s] EXCEPT !.alone = FALSE]]
    /\ UNCHANGED <<tables, said>>

CardUrl(r)  == UrlKey[req[r].card.url]
CardName(r) == NameKey[req[r].card.name]

Found(r, p, stores) ==
    Become(r, [req[r] EXCEPT !.pc = "liked", !.unit = p, !.stores = stores])

ByUrl(r)  == {p \in Stored : CardUrl(r) # Blank /\ programs[p].url = CardUrl(r)}
ByName(r) == {p \in Stored : programs[p].name = CardName(r)}

\* A URL is filled in where there was none.
Backfill(r, p) == IF CardUrl(r) # Blank /\ programs[p].url = Blank THEN "url" ELSE "nothing"

\* Mutant: the name is looked up before the URL.
FindByNameFirst(r) ==
    /\ At(r, "url")
    /\ IF Cardinality(ByName(r)) = 1 THEN \E p \in ByName(r) : Found(r, p, Backfill(r, p))
       ELSE IF ByUrl(r) # {} THEN \E p \in ByUrl(r) : Found(r, p, "nothing")
       ELSE Goto(r, "name")
    /\ UNCHANGED <<tables, said>>

\* L1.
FindByUrl(r) ==
    /\ At(r, "url")
    /\ IF ByUrl(r) = {} THEN Goto(r, "name")
       ELSE \E p \in ByUrl(r) : Found(r, p, "nothing")
    /\ UNCHANGED <<tables, said>>

\* L2; scalar_one_or_none raises on two rows: 500.
FindByName(r) ==
    /\ At(r, "name")
    /\ CASE Cardinality(ByName(r)) = 0 -> Goto(r, "insert")
         [] Cardinality(ByName(r)) = 1 -> \E p \in ByName(r) : Found(r, p, Backfill(r, p))
         [] OTHER                      -> Finish(r)
    /\ UNCHANGED <<tables, said>>

\* The unique index: another's uncommitted row with this URL is waited for, a committed
\* one is refused.  The empty URL is a value like any other here.
UrlIsFree(r)  == \A s \in Requests \ {r} : req[s].stores = "row" => CardUrl(s) # CardUrl(r)
UrlIsTaken(r) == \E q \in Stored \ {req[r].unit} : programs[q].url = CardUrl(r)

Fresh == {p \in Units \ Stored : \A s \in Requests : req[s].unit # p}

\* Mutant: the column normalized_url is not unique, as normalized_name is not.
InsertUnindexed(r) ==
    /\ At(r, "insert")
    /\ \E p \in Fresh : Found(r, p, "row")
    /\ UNCHANGED <<tables, said>>

Insert(r) ==
    /\ At(r, "insert") /\ UrlIsFree(r)
    /\ IF UrlIsTaken(r) THEN Finish(r) ELSE \E p \in Fresh : Found(r, p, "row")
    /\ UNCHANGED <<tables, said>>

LookUpLiked(r) ==
    /\ At(r, "liked")
    /\ Become(r, [req[r] EXCEPT !.pc = "commit", !.isLiked = <<req[r].user, req[r].unit>> \in likes])
    /\ UNCHANGED <<tables, said>>

\* The commit and the 200; a URL to be filled in meets the unique index only now: it
\* waits, or is a 500.  It overwrites one that another request filled in meanwhile.
CommitCheck(r) ==
    /\ At(r, "commit") /\ req[r].op = "check"
    /\ req[r].stores = "url" => UrlIsFree(r)
    /\ IF req[r].stores = "url" /\ UrlIsTaken(r) THEN UNCHANGED <<programs, unit>>
       ELSE /\ programs' = CASE req[r].stores = "row" ->
                                  [programs EXCEPT ![req[r].unit] = [url |-> CardUrl(r), name |-> CardName(r)]]
                             [] req[r].stores = "url" ->
                                  [programs EXCEPT ![req[r].unit].url = CardUrl(r)]
                             [] OTHER -> programs
            /\ unit' = [unit EXCEPT ![req[r].card] = req[r].unit]
    /\ Finish(r)
    /\ UNCHANGED <<accounts, likes, promised>>

(* --------------------------------- liking --------------------------------- *)

\* An id that a client holds: one that was stored once (programs are never deleted).
StartLike(r, u, p) ==
    /\ At(r, "idle") /\ p \in Stored
    /\ Become(r, [Idle EXCEPT !.op = "like", !.pc = "row", !.user = u, !.unit = p,
                    !.kept = \A s \in Requests : ~Same(s, "unlike", u, p)])
    /\ UNCHANGED <<tables, said>>

StartUnlike(r, u, p) ==
    /\ At(r, "idle") /\ p \in Stored
    /\ req' = [s \in Requests |->
                 IF s = r THEN [Idle EXCEPT !.op = "unlike", !.pc = "row", !.user = u, !.unit = p]
                          ELSE IF Same(s, "like", u, p) THEN [req[s] EXCEPT !.kept = FALSE] ELSE req[s]]
    /\ promised' = promised \ {<<u, p>>}
    /\ UNCHANGED <<tables, unit>>

\* Is there a row?
LookUpRow(r) ==
    /\ At(r, "row")
    /\ Become(r, [req[r] EXCEPT !.pc = "commit", !.isLiked = <<req[r].user, req[r].unit>> \in likes])
    /\ UNCHANGED <<tables, said>>

\* 200 without a row to insert; inserting, a user who is gone (foreign key) or a row
\* that came meanwhile (unique key) is a 500.
CommitLike(r) ==
    /\ At(r, "commit") /\ req[r].op = "like"
    /\ LET pair == <<req[r].user, req[r].unit>>
           ok   == req[r].isLiked \/ (req[r].user \in accounts /\ pair \notin likes)
       IN  /\ likes' = IF ok /\ ~req[r].isLiked THEN likes \cup {pair} ELSE likes
           /\ promised' = IF ok /\ req[r].kept /\ req[r].user \in accounts
                            THEN promised \cup {pair} ELSE promised
    /\ Finish(r)
    /\ UNCHANGED <<accounts, programs, unit>>

\* Mutant: the row to delete is looked for by program alone.
CommitUnlikeOfAll(r) ==
    /\ At(r, "commit") /\ req[r].op = "unlike"
    /\ likes' = {l \in likes : l[2] # req[r].unit}
    /\ Finish(r)
    /\ UNCHANGED <<accounts, programs, said>>

\* The row that was loaded is deleted by its id: whoever loaded it as well deletes
\* nothing later, not even a new row of the same pair.
CommitUnlike(r) ==
    /\ At(r, "commit") /\ req[r].op = "unlike"
    /\ LET rivals == {s \in Requests : Same(s, "unlike", req[r].user, req[r].unit)} IN
         IF req[r].isLiked
           THEN /\ likes' = likes \ {<<req[r].user, req[r].unit>>}
                /\ req' = [s \in Requests |-> CASE s = r      -> Idle
                                                [] s \in rivals \ {r} -> [req[s] EXCEPT !.isLiked = FALSE]
                                                [] OTHER      -> req[s]]
           ELSE Finish(r) /\ UNCHANGED likes
    /\ UNCHANGED <<accounts, programs, said>>

(* --------------------------------- elsewhere ------------------------------ *)

\* The account goes and its likes by cascade; its cached sessions may still be used.
DeleteAccount(u) ==
    /\ u \in accounts
    /\ accounts' = accounts \ {u}
    /\ likes' = {l \in likes : l[1] # u}
    /\ promised' = {l \in promised : l[1] # u}
    /\ UNCHANGED <<programs, req, unit>>

\* A worker dies, or the database fails: the transaction is rolled back.
RollBack(r) ==
    /\ ~At(r, "idle")
    /\ Finish(r)
    /\ UNCHANGED <<tables, said>>

-----------------------------------------------------------------------------
Arrive(r) ==
    \E u \in Users :
      \/ \E c \in Cards : StartCheck(r, u, c)
      \/ \E p \in Units : StartLike(r, u, p) \/ StartUnlike(r, u, p)

HandlerStep(r) ==
    \/ FindByUrl(r) \/ FindByName(r) \/ Insert(r) \/ LookUpLiked(r) \/ CommitCheck(r)
    \/ LookUpRow(r) \/ CommitLike(r) \/ CommitUnlike(r)

Next ==
    \/ \E r \in Requests : Arrive(r) \/ HandlerStep(r) \/ RollBack(r)
    \/ \E u \in Users : DeleteAccount(u)

Spec == Init /\ [][Next]_vars

-----------------------------------------------------------------------------
(* Properties *)

Handlers == [op : {"none", "check", "like", "unlike"},
             pc : {"idle", "url", "name", "insert", "liked", "row", "commit"},
             user : Users \cup {None}, card : Cards \cup {None}, unit : Units \cup {None},
             stores : {"nothing", "url", "row"}, isLiked : BOOLEAN, alone : BOOLEAN, kept : BOOLEAN]

\* Every variable has its type; likes are of accounts and programs that exist, and no
\* two programs have the same URL, committed or about to be.
TypeOK ==
    /\ accounts \subseteq Users /\ programs \in [Units -> Rows \cup {None}]
    /\ likes \subseteq accounts \X Stored
    /\ req \in [Requests -> Handlers]
    /\ unit \in [Cards -> Stored \cup {None}]
    /\ \A p, q \in Stored : programs[p].url = programs[q].url => p = q
    /\ \A r \in Requests : req[r].stores = "row" => UrlIsFree(r) /\ req[r].unit \notin Stored

\* A program that carries the card's URL, or has its name where the card has no URL, is
\* the one every later check of that card answers, if no other check overlaps it: URL
\* first, then name (resolve_university_program).
Settled(c) ==
    /\ unit[c] # None
    /\ UrlKey[c.url] = Blank \/ programs[unit[c]].url = UrlKey[c.url]

StableAlone ==
    [][\A c \in Cards :
         Settled(c) /\ unit'[c] # unit[c] =>
           \E r \in Requests : At(r, "commit") /\ req[r].card = c /\ ~req[r].alone]_vars

\* A like that was answered has its row until its user takes it back or the account goes,
\* whatever other users and other requests do (like_university_program).
LikesStand == promised \subseteq likes

\* The documentation's claim: the unit that a check is about to answer is the one that
\* this card was last answered (check_favorite_university).
UnitIsStable ==
    \A r \in Requests :
      At(r, "commit") /\ req[r].op = "check" /\ unit[req[r].card] # None =>
        req[r].unit = unit[req[r].card]
=============================================================================
