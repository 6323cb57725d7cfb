------------------------------- MODULE Profile -------------------------------
(***************************************************************************)
(* The profile of one user: the user_profile row, written by section and as *)
(* a whole, and the avatar directory.  A handler of the row ends a step      *)
(* where it awaits; those of the avatar never await between two files, but  *)
(* the workers share one disk, so every file is a step of its own.          *)
(***************************************************************************)
EXTENDS Naturals, FiniteSets

CONSTANTS Sections, \* the array columns (VALID_ARRAY_FIELDS)
          Values,   \* what a request stores in the columns it writes
          Images,   \* uploaded files, as [name, ext, dim, readable]
          Requests, \* handlers in flight at the same time
          None      \* no row, no value, no image

ASSUME ProfileAssumption ==
    /\ None \notin Values
    /\ \A i \in Images : i.ext \in {"jpg", "png", "webp"} /\ i.dim \in Nat /\ i.readable \in BOOLEAN

VARIABLES
  account, \* does the account row exist
  row,     \* user_profile: a value (or null, as None) for each column; or no row
  dir,     \* does the avatar directory exist
  file,    \* file[n]: the image that file n of the directory was made of
  req      \* req[r]: the handler in slot r

vars == <<account, row, dir, file, req>>

store == <<account, row>>
disk  == <<dir, file>>

Columns == {"basic_info"} \cup Sections
Files   == {"original.jpg", "original.png", "original.webp", "256.webp", "64.webp"}
NoRow   == [present |-> FALSE, data |-> [c \in Columns |-> None]]
Empty   == [n \in Files |-> None]

\* A request record: the columns a writer of the row sets and to what, the row as it
\* loaded it, the columns others have written since it began; the image of an upload
\* and whether it has had the disk to itself.
Idle == [op |-> "none", pc |-> "idle", cols |-> {}, value |-> None, loaded |-> NoRow,
         touched |-> {}, image |-> None, alone |-> FALSE]

Init ==
    /\ account = TRUE /\ row = NoRow
    /\ dir = FALSE /\ file = Empty
    /\ req = [r \in Requests |-> Idle]

-----------------------------------------------------------------------------
At(r, pc)      == req[r].pc = pc
Become(r, rec) == req' = [req EXCEPT ![r] = rec]
Goto(r, pc)    == Become(r, [req[r] EXCEPT !.pc = pc])
Finish(r)      == Become(r, Idle)
Begin(r, rec)  == At(r, "idle") /\ Become(r, rec)

(* --------------------------------- the row -------------------------------- *)

\* update_all_profile and update_personal_info look the account up first.  A cached
\* session outlives its account, here and below.
StartWrite(r, op, cols, v) ==
    /\ Begin(r, [Idle EXCEPT !.op = op, !.pc = IF op = "array" THEN "load" ELSE "account",
                             !.cols = cols, !.value = v])
    /\ UNCHANGED <<store, disk>>

LoadAccount(r) ==
    /\ At(r, "account")
    /\ IF account THEN Goto(r, "load") ELSE Finish(r)
    /\ UNCHANGED <<store, disk>>

\* The row, or a new object where there is none.
LoadProfile(r) ==
    /\ At(r, "load")
    /\ Become(r, [req[r] EXCEPT !.pc = "commit", !.loaded = row])
    /\ UNCHANGED <<store, disk>>

Written(r, old) == [c \in Columns |-> IF c \in req[r].cols THEN req[r].value ELSE old[c]]

\* The columns that an UPDATE names: those whose value differs from the one loaded.
Changed(r) == {c \in req[r].cols : req[r].loaded.data[c] # req[r].value}

\* The handlers that write one of these columns as well learn that they were written.
Touch(r, cols, rec) ==
    req' = [s \in Requests |-> IF s = r THEN rec
                               ELSE [req[s] EXCEPT !.touched = @ \cup (cols \cap req[s].cols)]]

Done(r) == [req[r] EXCEPT !.pc = "answer", !.loaded = NoRow]

\* The INSERT of a new row: the account may be gone (foreign key), another request may
\* have inserted first (primary key); both are a 500.
Insert(r) ==
    /\ At(r, "commit") /\ ~req[r].loaded.present
    /\ IF account /\ ~row.present
         THEN /\ row' = [present |-> TRUE, data |-> Written(r, NoRow.data)]
              /\ Touch(r, req[r].cols, Done(r))
         ELSE Finish(r) /\ UNCHANGED row
    /\ UNCHANGED <<account, disk>>

\* Mutant: the row is written back as it was loaded, with the changes.
UpdateWholeRow(r) ==
    /\ At(r, "commit") /\ req[r].loaded.present
    /\ IF row.present
         THEN /\ row' = [row EXCEPT !.data = Written(r, req[r].loaded.data)]
              /\ Touch(r, Changed(r), Done(r))
         ELSE Finish(r) /\ UNCHANGED row
    /\ UNCHANGED <<account, disk>>

\* The UPDATE names the changed columns only; without any there is none, and one that
\* finds no row is a 500.
Update(r) ==
    /\ At(r, "commit") /\ req[r].loaded.present
    /\ IF Changed(r) = {} THEN Become(r, Done(r)) /\ UNCHANGED row
       ELSE IF row.present
         THEN /\ row' = [row EXCEPT !.data = [c \in Columns |->
                              IF c \in Changed(r) THEN req[r].value ELSE @[c]]]
              /\ Touch(r, Changed(r), Done(r))
       ELSE Finish(r) /\ UNCHANGED row
    /\ UNCHANGED <<account, disk>>

\* 200.
Answer(r) ==
    /\ At(r, "answer")
    /\ Finish(r)
    /\ UNCHANGED <<store, disk>>

\* Mutant: no cascade.
DeleteAccountOnly(byAdmin) ==
    /\ account
    /\ account' = FALSE
    /\ IF byAdmin THEN dir' = FALSE /\ file' = Empty ELSE UNCHANGED disk
    /\ req' = [s \in Requests |-> [req[s] EXCEPT !.alone = FALSE, !.touched = req[s].cols]]
    /\ UNCHANGED row

\* The account goes, by its owner or an administrator, and the row by cascade; only
\* delete_user removes the avatar (_cleanup_avatar_files), after its commit.
DeleteAccount(byAdmin) ==
    /\ account
    /\ account' = FALSE /\ row' = NoRow
    /\ IF byAdmin THEN dir' = FALSE /\ file' = Empty ELSE UNCHANGED disk
    /\ req' = [s \in Requests |-> [req[s] EXCEPT !.alone = FALSE, !.touched = req[s].cols]]

(* -------------------------------- the avatar ------------------------------ *)

AvatarOps == {"upload", "remove"}
OnDisk(s) == req[s].op \in AvatarOps

BeginOnDisk(r, rec) ==
    /\ At(r, "idle")
    /\ req' = [s \in Requests |->
                 IF s = r THEN [rec EXCEPT !.alone = \A q \in Requests : ~OnDisk(q)]
                          ELSE [req[s] EXCEPT !.alone = FALSE]]

\* upload_avatar and admin_upload_avatar, once the file is read and its type and size
\* accepted.
StartUpload(r, i) ==
    /\ BeginOnDisk(r, [Idle EXCEPT !.op = "upload", !.pc = "clear", !.image = i])
    /\ UNCHANGED <<store, disk>>

\* delete_avatar, admin_delete_avatar: 404 without a file.
StartRemove(r) ==
    /\ dir /\ file # Empty
    /\ BeginOnDisk(r, [Idle EXCEPT !.op = "remove", !.pc = "clear"])
    /\ UNCHANGED <<store, disk>>

AfterClear(r) == IF req[r].op = "upload" THEN "original" ELSE "answer"

\* Mutant: the old directory is kept.
KeepDir(r) ==
    /\ At(r, "clear")
    /\ Goto(r, AfterClear(r))
    /\ UNCHANGED <<store, disk>>

\* shutil.rmtree, which an upload calls only on a directory that is there.
RemoveDir(r) ==
    /\ At(r, "clear")
    /\ dir \/ req[r].op = "upload"
    /\ dir' = FALSE /\ file' = Empty
    /\ Goto(r, AfterClear(r))
    /\ UNCHANGED store

\* What another worker does to the directory meanwhile, its removal included, makes
\* rmtree raise: 500, with some files gone.
RemoveDirFails(r) ==
    /\ At(r, "clear") /\ ~req[r].alone
    /\ \E gone \in SUBSET {n \in Files : file[n] # None} :
         file' = [n \in Files |-> IF n \in gone THEN None ELSE file[n]]
    /\ Finish(r)
    /\ UNCHANGED <<store, dir>>

Original(i) == CASE i.ext = "jpg" -> "original.jpg" [] i.ext = "png" -> "original.png"
                 [] i.ext = "webp" -> "original.webp"

\* The directory is made when it is missing, the upload written as it is.
WriteOriginal(r) ==
    /\ At(r, "original")
    /\ dir' = TRUE /\ file' = [file EXCEPT ![Original(req[r].image)] = req[r].image]
    /\ Goto(r, "decode")
    /\ UNCHANGED store

\* Pillow cannot read it: 500, the old avatar gone and the new file left.
Decode(r) ==
    /\ At(r, "decode")
    /\ IF req[r].image.readable THEN Goto(r, "webp") ELSE Finish(r)
    /\ UNCHANGED <<store, disk>>

\* The variants of 256 and 64 are made of an image that is larger than that.
AfterWrite(i, pc) == CASE pc = "webp" /\ i.dim > 256                -> "256"
                       [] pc = "webp" /\ i.dim > 64 /\ i.dim <= 256 -> "64"
                       [] pc = "256"                                -> "64"
                       [] OTHER                                     -> "answer"

Variant(pc) == CASE pc = "webp" -> "original.webp" [] pc = "256" -> "256.webp" [] pc = "64" -> "64.webp"

\* A directory that is gone makes the write raise: 500.
WriteVariant(r) ==
    /\ req[r].pc \in {"webp", "256", "64"}
    /\ IF dir THEN /\ file' = [file EXCEPT ![Variant(req[r].pc)] = req[r].image]
                   /\ Goto(r, AfterWrite(req[r].image, req[r].pc))
              ELSE Finish(r) /\ UNCHANGED file
    /\ UNCHANGED <<store, dir>>

\* A worker dies.
Crash(r) ==
    /\ ~At(r, "idle")
    /\ Finish(r)
    /\ UNCHANGED <<store, disk>>

-----------------------------------------------------------------------------
Writes == {<<"all", Columns>>, <<"personal", {"basic_info"}>>} \cup {<<"array", {c}>> : c \in Sections}

Arrive(r) ==
    \/ \E w \in Writes, v \in Values : StartWrite(r, w[1], w[2], v)
    \/ \E i \in Images : StartUpload(r, i)
    \/ StartRemove(r)

HandlerStep(r) ==
    \/ LoadAccount(r) \/ LoadProfile(r) \/ Insert(r) \/ Update(r) \/ Answer(r)
    \/ RemoveDir(r) \/ RemoveDirFails(r) \/ WriteOriginal(r) \/ Decode(r) \/ WriteVariant(r)

Next ==
    \/ \E r \in Requests : Arrive(r) \/ HandlerStep(r) \/ Crash(r)
    \/ \E byAdmin \in BOOLEAN : DeleteAccount(byAdmin)

Spec == Init /\ [][Next]_vars

-----------------------------------------------------------------------------
(* Properties *)

PCs      == {"idle", "account", "load", "commit", "answer", "clear", "original", "decode",
             "webp", "256", "64"}
OpNames  == {"none", "all", "personal", "array"} \cup AvatarOps
Rows     == [present : BOOLEAN, data : [Columns -> Values \cup {None}]]
Handlers == [op : OpNames, pc : PCs, cols : SUBSET Columns, value : Values \cup {None},
             loaded : Rows, touched : SUBSET Columns, image : Images \cup {None}, alone : BOOLEAN]

\* Every variable has its type; a row that is not there holds nothing, and has an
\* account when it is there; a directory that is not there has no files.
TypeOK ==
    /\ account \in BOOLEAN /\ row \in Rows /\ dir \in BOOLEAN
    /\ file \in [Files -> Images \cup {None}]
    /\ req \in [Requests -> Handlers]
    /\ ~row.present => row = NoRow
    /\ row.present => account
    /\ ~dir => file = Empty

\* No section is lost: when a 200 is sent, every column the request wrote holds its
\* value, unless a request that was asked to write the same column did so since this
\* one began.  A writer of another section, which loaded the row earlier and stores
\* it later, is no such request (update_all_profile, update_personal_info,
\* update_array_profile).
NoSectionLost ==
    \A r \in Requests : At(r, "answer") =>
        \A c \in req[r].cols \ req[r].touched : row.present /\ row.data[c] = req[r].value

\* When the 200 of an upload that had the disk to itself is sent, the directory holds
\* the files made of that image and nothing else: no larger size of an earlier image
\* is left to be served.  After a removal there is nothing (upload_avatar,
\* delete_avatar and the administrator's endpoints).
OneImage(i) ==
    [n \in Files |-> IF \/ n \in {Original(i), "original.webp"}
                        \/ n = "256.webp" /\ i.dim > 256
                        \/ n = "64.webp" /\ i.dim > 64 THEN i ELSE None]

AvatarAsAnswered ==
    \A r \in Requests : At(r, "answer") /\ req[r].alone =>
        file = IF req[r].op = "upload" THEN OneImage(req[r].image) ELSE Empty
=============================================================================
