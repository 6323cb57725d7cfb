---------------------------- MODULE ProfileProofs -----------------------------
(***************************************************************************)
(* What holds of Profile for any columns, values, images and requests: a   *)
(* 200 means that the columns written are stored, and an avatar uploaded   *)
(* with the disk to itself is the only one there.                          *)
(***************************************************************************)
EXTENDS Profile, TLAPS

-----------------------------------------------------------------------------
(* The requests *)

RowOps == {"all", "personal", "array"}

\* What handler q does at its step.
Known(q) ==
    \/ q.op = "none" /\ q.pc = "idle" /\ q.cols = {}
    \/ q.op \in RowOps /\ q.pc \in {"account", "load", "commit", "answer"} /\ q.value \in Values
    \/ q.op = "remove" /\ q.pc \in {"clear", "answer"} /\ q.cols = {}
    \/ /\ q.op = "upload" /\ q.image \in Images /\ q.cols = {}
       /\ q.pc \in {"clear", "original", "decode", "webp", "256", "64", "answer"}

\* Only a handler of the avatar has the disk to itself.
Quiet(q) == q.alone => q.op \in AvatarOps

TypeInv == TypeOK /\ \A r \in Requests : Known(req[r]) /\ Quiet(req[r])

\* Handler s goes on with what it does; the columns it learns of grow, the disk it shares.
Kept(s) ==
    /\ req'[s].op = req[s].op /\ req'[s].pc = req[s].pc /\ req'[s].cols = req[s].cols
    /\ req'[s].value = req[s].value /\ req'[s].loaded = req[s].loaded
    /\ req'[s].image = req[s].image
    /\ req[s].cols \ req'[s].touched \subseteq req[s].cols \ req[s].touched
    /\ req'[s].alone => req[s].alone

\* Handler r makes the step, the others stay.
Alone(r) == req' \in [Requests -> Handlers] /\ \A s \in Requests \ {r} : req'[s] = req[s]

\* Handler r goes on at pc, with all it has.
Moved(r, pc) ==
    /\ Alone(r) /\ req'[r].pc = pc
    /\ req'[r].op = req[r].op /\ req'[r].cols = req[r].cols /\ req'[r].value = req[r].value
    /\ req'[r].image = req[r].image /\ req'[r].touched = req[r].touched
    /\ req'[r].alone = req[r].alone

\* Handler r ends.
Ended(r) == Alone(r) /\ req'[r] = Idle

\* The records that stand for nothing have their types.
LEMMA Nothing ==
    /\ NoRow \in Rows /\ ~NoRow.present /\ Empty \in [Files -> Images \cup {None}]
    /\ Idle \in Handlers /\ Known(Idle) /\ Quiet(Idle)
<1>1. NoRow \in Rows /\ ~NoRow.present
  BY DEF NoRow, Rows
<1>2. Idle \in Handlers /\ Known(Idle) /\ Quiet(Idle)
  BY <1>1 DEF Idle, Handlers, PCs, OpNames, Known, Quiet
<1>3. QED
  BY <1>1, <1>2 DEF Empty

\* One handler changes.
LEMMA BecomeOne ==
    ASSUME TypeInv, NEW r \in Requests, NEW rec \in Handlers, Become(r, rec)
    PROVE  Alone(r) /\ req'[r] = rec
BY DEF TypeInv, TypeOK, Become, Alone

\* A handler that finishes leaves its slot idle.
LEMMA Ending ==
    ASSUME TypeInv, NEW r \in Requests, Finish(r)
    PROVE  Ended(r)
BY BecomeOne, Nothing DEF Finish, Ended

\* A handler goes on.
LEMMA Moving ==
    ASSUME TypeInv, NEW r \in Requests, NEW pc \in PCs, Goto(r, pc)
    PROVE  Moved(r, pc) /\ req'[r].loaded = req[r].loaded
<1> DEFINE rec == [req[r] EXCEPT !.pc = pc]
<1>1. req[r] \in Handlers /\ Become(r, rec)
  BY DEF TypeInv, TypeOK, Goto
<1>2. /\ rec \in Handlers /\ rec.pc = pc
      /\ rec.op = req[r].op /\ rec.cols = req[r].cols /\ rec.value = req[r].value
      /\ rec.loaded = req[r].loaded /\ rec.image = req[r].image
      /\ rec.touched = req[r].touched /\ rec.alone = req[r].alone
  BY <1>1 DEF Handlers
<1> HIDE DEF rec
<1>3. QED
  BY <1>1, <1>2, BecomeOne DEF Moved

\* Those that stay are kept.
LEMMA AloneKeeps ==
    ASSUME NEW r \in Requests, Alone(r), NEW s \in Requests \ {r}
    PROVE  Kept(s)
BY DEF Alone, Kept

\* A handler kept knows what it does.
LEMMA KeptKnown ==
    ASSUME TypeInv, NEW s \in Requests, Kept(s)
    PROVE  Known(req[s])' /\ Quiet(req[s])'
BY DEF TypeInv, Kept, Known, Quiet

-----------------------------------------------------------------------------
(* The steps *)

\* A write begins with its columns, its value and nothing learnt.
LEMMA StartWriteDoes ==
    ASSUME TypeInv, NEW r \in Requests, NEW w \in Writes, NEW v \in Values,
           StartWrite(r, w[1], w[2], v)
    PROVE  /\ Alone(r) /\ req'[r].op \in RowOps /\ req'[r].pc \in {"load", "account"}
           /\ req'[r].value = v /\ ~req'[r].alone /\ UNCHANGED <<store, disk>>
<1> DEFINE pc  == IF w[1] = "array" THEN "load" ELSE "account"
           rec == [Idle EXCEPT !.op = w[1], !.pc = pc, !.cols = w[2], !.value = v]
<1>1. w[1] \in RowOps /\ w[2] \in SUBSET Columns
  BY DEF Writes, RowOps, Columns
<1>2. pc \in {"load", "account"} /\ Become(r, rec) /\ UNCHANGED <<store, disk>>
  BY DEF StartWrite, Begin
<1> HIDE DEF pc
<1>3. rec \in Handlers /\ rec.op = w[1] /\ rec.pc = pc /\ rec.value = v /\ ~rec.alone
  BY <1>1, <1>2, Nothing DEF Idle, Handlers, PCs, OpNames, RowOps
<1> HIDE DEF rec
<1>4. QED
  BY <1>1, <1>2, <1>3, BecomeOne

\* The account is there, or the handler ends.
LEMMA LoadAccountDoes ==
    ASSUME TypeInv, NEW r \in Requests, LoadAccount(r)
    PROVE  /\ req[r].pc = "account" /\ UNCHANGED <<store, disk>>
           /\ Moved(r, "load") \/ Ended(r)
BY Ending, Moving DEF LoadAccount, At, PCs

\* The row is loaded.
LEMMA LoadProfileDoes ==
    ASSUME TypeInv, NEW r \in Requests, LoadProfile(r)
    PROVE  /\ req[r].pc = "load" /\ UNCHANGED <<store, disk>>
           /\ Moved(r, "commit") /\ req'[r].loaded = row
<1> DEFINE rec == [req[r] EXCEPT !.pc = "commit", !.loaded = row]
<1>1. req[r] \in Handlers /\ row \in Rows /\ Become(r, rec) /\ req[r].pc = "load"
      /\ UNCHANGED <<store, disk>>
  BY DEF TypeInv, TypeOK, LoadProfile, At
<1>2. /\ rec \in Handlers /\ rec.pc = "commit" /\ rec.loaded = row
      /\ rec.op = req[r].op /\ rec.cols = req[r].cols /\ rec.value = req[r].value
      /\ rec.image = req[r].image /\ rec.touched = req[r].touched /\ rec.alone = req[r].alone
  BY <1>1 DEF Handlers, PCs
<1> HIDE DEF rec
<1>3. QED
  BY <1>1, <1>2, BecomeOne DEF Moved

\* Handler r is done with the row, and the others learn of the columns written.
Wrote(r, cols) ==
    /\ req' \in [Requests -> Handlers]
    /\ req'[r].op = req[r].op /\ req'[r].pc = "answer" /\ req'[r].cols = req[r].cols
    /\ req'[r].value = req[r].value /\ req'[r].image = req[r].image
    /\ req'[r].touched = req[r].touched /\ req'[r].alone = req[r].alone
    /\ \A s \in Requests \ {r} : Kept(s) /\ cols \cap req[s].cols \subseteq req'[s].touched

\* The record of a handler that is done with the row.
LEMMA DoneIs ==
    ASSUME TypeInv, NEW r \in Requests
    PROVE  /\ Done(r) \in Handlers /\ Done(r).pc = "answer"
           /\ Done(r).op = req[r].op /\ Done(r).cols = req[r].cols /\ Done(r).value = req[r].value
           /\ Done(r).image = req[r].image /\ Done(r).touched = req[r].touched
           /\ Done(r).alone = req[r].alone
<1>1. req[r] \in Handlers
  BY DEF TypeInv, TypeOK
<1>2. QED
  BY <1>1, Nothing DEF Done, Handlers, PCs

\* The others learn.
LEMMA TouchDoes ==
    ASSUME TypeInv, NEW r \in Requests, NEW cols \in SUBSET Columns, Touch(r, cols, Done(r))
    PROVE  Wrote(r, cols)
<1> DEFINE rec(s) == [req[s] EXCEPT !.touched = @ \cup (cols \cap req[s].cols)]
<1>1. ASSUME NEW s \in Requests
      PROVE  /\ rec(s) \in Handlers
             /\ rec(s).op = req[s].op /\ rec(s).pc = req[s].pc /\ rec(s).cols = req[s].cols
             /\ rec(s).value = req[s].value /\ rec(s).loaded = req[s].loaded
             /\ rec(s).image = req[s].image /\ rec(s).alone = req[s].alone
             /\ rec(s).touched = req[s].touched \cup (cols \cap req[s].cols)
  <2>1. req[s] \in Handlers
    BY DEF TypeInv, TypeOK
  <2>2. QED
    BY <2>1 DEF Handlers
<1>2. req' = [s \in Requests |-> IF s = r THEN Done(r) ELSE rec(s)]
  BY DEF Touch
<1> HIDE DEF rec
<1>3. req'[r] = Done(r) /\ \A s \in Requests \ {r} : req'[s] = rec(s)
  BY <1>2
<1>4. req' \in [Requests -> Handlers]
  BY <1>1, <1>2, DoneIs
<1>5. \A s \in Requests \ {r} : Kept(s) /\ cols \cap req[s].cols \subseteq req'[s].touched
  BY <1>1, <1>3 DEF Kept
<1>6. QED
  BY <1>3, <1>4, <1>5, DoneIs DEF Wrote

\* The types of what a handler writes.
LEMMA WriterType ==
    ASSUME TypeInv, NEW r \in Requests, req[r].pc = "commit"
    PROVE  /\ req[r].op \in RowOps /\ req[r].value \in Values /\ req[r].cols \in SUBSET Columns
           /\ req[r].loaded \in Rows /\ Changed(r) \in SUBSET Columns
           /\ \A c \in Columns : c \in Changed(r) <=>
                c \in req[r].cols /\ req[r].loaded.data[c] # req[r].value
<1>1. req[r] \in Handlers /\ Known(req[r])
  BY DEF TypeInv, TypeOK
<1>2. req[r].op \in RowOps /\ req[r].value \in Values /\ req[r].cols \in SUBSET Columns
      /\ req[r].loaded \in Rows
  BY <1>1 DEF Known, Handlers
<1>3. QED
  BY <1>2 DEF Changed

\* A row is inserted where there is none and the account is there.
LEMMA InsertDoes ==
    ASSUME TypeInv, NEW r \in Requests, Insert(r)
    PROVE  /\ req[r].pc = "commit" /\ UNCHANGED <<account, disk>>
           /\ \/ Ended(r) /\ UNCHANGED row
              \/ /\ Wrote(r, req[r].cols) /\ account /\ ~row.present
                 /\ row' \in Rows /\ row'.present
                 /\ \A c \in req[r].cols : row'.data[c] = req[r].value
<1>1. req[r].pc = "commit" /\ UNCHANGED <<account, disk>>
  BY DEF Insert, At
<1>2. CASE ~(account /\ ~row.present)
  BY <1>1, <1>2, Ending DEF Insert
<1>3. CASE account /\ ~row.present
  <2> DEFINE data == Written(r, NoRow.data)
             new == [present |-> TRUE, data |-> data]
  <2>1. row' = new /\ Touch(r, req[r].cols, Done(r))
    BY <1>3 DEF Insert
  <2>2. req[r].value \in Values /\ req[r].cols \in SUBSET Columns
    BY <1>1, WriterType
  <2>3. data \in [Columns -> Values \cup {None}] /\ \A c \in req[r].cols : data[c] = req[r].value
    BY <2>2 DEF Written, NoRow
  <2> HIDE DEF data
  <2>4. new \in Rows /\ new.present /\ new.data = data
    BY <2>3 DEF Rows
  <2> HIDE DEF new
  <2>5. QED
    BY <1>1, <1>3, <2>1, <2>2, <2>3, <2>4, TouchDoes
<1>4. QED
  BY <1>2, <1>3

\* The row takes the columns that differ from what was loaded.
LEMMA UpdateDoes ==
    ASSUME TypeInv, NEW r \in Requests, Update(r)
    PROVE  /\ req[r].pc = "commit" /\ req[r].loaded.present /\ UNCHANGED <<account, disk>>
           /\ \/ Ended(r) /\ UNCHANGED row
              \/ Changed(r) = {} /\ Moved(r, "answer") /\ UNCHANGED row
              \/ /\ Wrote(r, Changed(r)) /\ row.present /\ row' \in Rows /\ row'.present
                 /\ \A c \in Columns :
                      row'.data[c] = IF c \in Changed(r) THEN req[r].value ELSE row.data[c]
<1>1. req[r].pc = "commit" /\ req[r].loaded.present /\ UNCHANGED <<account, disk>>
  BY DEF Update, At
<1>2. CASE Changed(r) = {}
  <2>1. Become(r, Done(r)) /\ UNCHANGED row
    BY <1>2 DEF Update
  <2>2. Moved(r, "answer")
    BY <2>1, DoneIs, BecomeOne DEF Moved
  <2>3. QED
    BY <1>1, <1>2, <2>1, <2>2
<1>3. CASE Changed(r) # {} /\ ~row.present
  BY <1>1, <1>3, Ending DEF Update
<1>4. CASE Changed(r) # {} /\ row.present
  <2> DEFINE data == [c \in Columns |-> IF c \in Changed(r) THEN req[r].value ELSE row.data[c]]
             new == [row EXCEPT !.data = data]
  <2>1. row' = new /\ Touch(r, Changed(r), Done(r))
    BY <1>4 DEF Update
  <2>2. req[r].value \in Values /\ Changed(r) \in SUBSET Columns /\ row \in Rows
    BY <1>1, WriterType DEF TypeInv, TypeOK
  <2>3. data \in [Columns -> Values \cup {None}]
        /\ \A c \in Columns : data[c] = IF c \in Changed(r) THEN req[r].value ELSE row.data[c]
    BY <2>2 DEF Rows
  <2> HIDE DEF data
  <2>4. new \in Rows /\ new.present = row.present /\ new.data = data
    BY <2>2, <2>3 DEF Rows
  <2> HIDE DEF new
  <2>5. QED
    BY <1>1, <1>4, <2>1, <2>2, <2>3, <2>4, TouchDoes
<1>5. QED
  BY <1>2, <1>3, <1>4

\* The answer is sent.
LEMMA AnswerDoes ==
    ASSUME TypeInv, NEW r \in Requests, Answer(r)
    PROVE  Ended(r) /\ UNCHANGED <<store, disk>>
BY Ending DEF Answer

\* The account and its row go, and perhaps the avatar; every handler learns.
LEMMA DeleteAccountDoes ==
    ASSUME TypeInv, NEW byAdmin \in BOOLEAN, DeleteAccount(byAdmin)
    PROVE  /\ account' = FALSE /\ row' = NoRow
           /\ (dir' = FALSE /\ file' = Empty) \/ UNCHANGED disk
           /\ req' \in [Requests -> Handlers]
           /\ \A s \in Requests : Kept(s) /\ ~req'[s].alone /\ req'[s].touched = req[s].cols
<1> DEFINE rec(s) == [req[s] EXCEPT !.alone = FALSE, !.touched = req[s].cols]
<1>1. ASSUME NEW s \in Requests
      PROVE  /\ rec(s) \in Handlers
             /\ rec(s).op = req[s].op /\ rec(s).pc = req[s].pc /\ rec(s).cols = req[s].cols
             /\ rec(s).value = req[s].value /\ rec(s).loaded = req[s].loaded
             /\ rec(s).image = req[s].image /\ rec(s).alone = FALSE
             /\ rec(s).touched = req[s].cols
  <2>1. req[s] \in Handlers
    BY DEF TypeInv, TypeOK
  <2>2. QED
    BY <2>1 DEF Handlers
<1>2. /\ account' = FALSE /\ row' = NoRow
      /\ (dir' = FALSE /\ file' = Empty) \/ UNCHANGED disk
      /\ req' = [s \in Requests |-> rec(s)]
  BY DEF DeleteAccount
<1> HIDE DEF rec
<1>3. req' \in [Requests -> Handlers] /\ \A s \in Requests : req'[s] = rec(s)
  BY <1>1, <1>2
<1>4. QED
  BY <1>1, <1>2, <1>3 DEF Kept

\* A handler begins on the disk, which it shares with those that are on it.
BeginsOnDisk(r) ==
    /\ req' \in [Requests -> Handlers] /\ req'[r].pc = "clear" /\ req'[r].cols = {}
    /\ req'[r].alone => \A s \in Requests : ~OnDisk(s)
    /\ \A s \in Requests \ {r} : Kept(s) /\ ~req'[s].alone
    /\ UNCHANGED <<store, disk>>

\* An upload or a removal begins.
LEMMA BeginningOnDisk ==
    ASSUME TypeInv, NEW r \in Requests, NEW rec \in Handlers, BeginOnDisk(r, rec)
    PROVE  /\ req' \in [Requests -> Handlers]
           /\ req'[r].op = rec.op /\ req'[r].pc = rec.pc /\ req'[r].cols = rec.cols
           /\ req'[r].image = rec.image
           /\ req'[r].alone => \A s \in Requests : ~OnDisk(s)
           /\ \A s \in Requests \ {r} : Kept(s) /\ ~req'[s].alone
<1> DEFINE b      == \A q \in Requests : ~OnDisk(q)
           mine   == [rec EXCEPT !.alone = b]
           his(s) == [req[s] EXCEPT !.alone = FALSE]
<1>1. b \in BOOLEAN
  OBVIOUS
<1> HIDE DEF b
<1>2. /\ mine \in Handlers /\ mine.op = rec.op /\ mine.pc = rec.pc /\ mine.cols = rec.cols
      /\ mine.image = rec.image /\ mine.alone = b
  BY <1>1 DEF Handlers
<1>3. ASSUME NEW s \in Requests
      PROVE  /\ his(s) \in Handlers
             /\ his(s).op = req[s].op /\ his(s).pc = req[s].pc /\ his(s).cols = req[s].cols
             /\ his(s).value = req[s].value /\ his(s).loaded = req[s].loaded
             /\ his(s).image = req[s].image /\ his(s).alone = FALSE
             /\ his(s).touched = req[s].touched
  <2>1. req[s] \in Handlers
    BY DEF TypeInv, TypeOK
  <2>2. QED
    BY <2>1 DEF Handlers
<1>4. req' = [s \in Requests |-> IF s = r THEN mine ELSE his(s)]
  BY DEF BeginOnDisk, b
<1> HIDE DEF mine, his
<1>5. req'[r] = mine /\ \A s \in Requests \ {r} : req'[s] = his(s)
  BY <1>4
<1>6. req' \in [Requests -> Handlers]
  BY <1>2, <1>3, <1>4
<1>7. \A s \in Requests \ {r} : Kept(s) /\ ~req'[s].alone
  BY <1>3, <1>5 DEF Kept
<1>8. QED
  BY <1>2, <1>5, <1>6, <1>7 DEF b

\* An upload begins with its image.
LEMMA StartUploadDoes ==
    ASSUME TypeInv, NEW r \in Requests, NEW i \in Images, StartUpload(r, i)
    PROVE  BeginsOnDisk(r) /\ req'[r].op = "upload" /\ req'[r].image = i
<1> DEFINE rec == [Idle EXCEPT !.op = "upload", !.pc = "clear", !.image = i]
<1>1. /\ rec \in Handlers /\ rec.op = "upload" /\ rec.pc = "clear" /\ rec.image = i
      /\ rec.cols = {}
  BY Nothing DEF Idle, Handlers, PCs, OpNames, AvatarOps
<1>2. BeginOnDisk(r, rec) /\ UNCHANGED <<store, disk>>
  BY DEF StartUpload
<1> HIDE DEF rec
<1>3. QED
  BY <1>1, <1>2, BeginningOnDisk DEF BeginsOnDisk

\* A removal begins.
LEMMA StartRemoveDoes ==
    ASSUME TypeInv, NEW r \in Requests, StartRemove(r)
    PROVE  BeginsOnDisk(r) /\ req'[r].op = "remove"
<1> DEFINE rec == [Idle EXCEPT !.op = "remove", !.pc = "clear"]
<1>1. rec \in Handlers /\ rec.op = "remove" /\ rec.pc = "clear" /\ rec.cols = {}
  BY Nothing DEF Idle, Handlers, PCs, OpNames, AvatarOps
<1>2. BeginOnDisk(r, rec) /\ UNCHANGED <<store, disk>>
  BY DEF StartRemove
<1> HIDE DEF rec
<1>3. QED
  BY <1>1, <1>2, BeginningOnDisk DEF BeginsOnDisk

\* The directory goes.
LEMMA RemoveDirDoes ==
    ASSUME TypeInv, NEW r \in Requests, RemoveDir(r)
    PROVE  /\ req[r].pc = "clear" /\ dir' = FALSE /\ file' = Empty /\ UNCHANGED store
           /\ \/ req[r].op = "upload" /\ Moved(r, "original")
              \/ req[r].op = "remove" /\ Moved(r, "answer")
<1>1. req[r].pc = "clear" /\ dir' = FALSE /\ file' = Empty /\ UNCHANGED store
      /\ Goto(r, AfterClear(r))
  BY DEF RemoveDir, At
<1>2. req[r].op \in {"upload", "remove"}
  BY <1>1 DEF TypeInv, Known, RowOps
<1>3. QED
  BY <1>1, <1>2, Moving DEF AfterClear, PCs

\* Some files go, and the handler ends.
LEMMA RemoveDirFailsDoes ==
    ASSUME TypeInv, NEW r \in Requests, RemoveDirFails(r)
    PROVE  /\ req[r].pc = "clear" /\ ~req[r].alone /\ Ended(r) /\ UNCHANGED <<store, dir>>
           /\ file' \in [Files -> Images \cup {None}]
           /\ ~dir => file' = Empty
<1>1. /\ req[r].pc = "clear" /\ ~req[r].alone /\ Ended(r) /\ UNCHANGED <<store, dir>>
      /\ \E gone : file' = [n \in Files |-> IF n \in gone THEN None ELSE file[n]]
  BY Ending DEF RemoveDirFails, At
<1>2. file \in [Files -> Images \cup {None}] /\ (~dir => file = Empty)
  BY DEF TypeInv, TypeOK
<1>3. QED
  BY <1>1, <1>2 DEF Empty

\* The upload is written as it is.
LEMMA WriteOriginalDoes ==
    ASSUME TypeInv, NEW r \in Requests, WriteOriginal(r)
    PROVE  /\ req[r].pc = "original" /\ dir' = TRUE /\ Moved(r, "decode") /\ UNCHANGED store
           /\ req[r].image \in Images /\ Original(req[r].image) \in Files
           /\ file' \in [Files -> Images \cup {None}]
           /\ \A n \in Files :
                file'[n] = IF n = Original(req[r].image) THEN req[r].image ELSE file[n]
<1>1. /\ req[r].pc = "original" /\ dir' = TRUE /\ Moved(r, "decode") /\ UNCHANGED store
      /\ file' = [file EXCEPT ![Original(req[r].image)] = req[r].image]
  BY Moving DEF WriteOriginal, At, PCs
<1>2. req[r].image \in Images
  BY <1>1 DEF TypeInv, Known, RowOps
<1>3. Original(req[r].image) \in Files
  BY <1>2, ProfileAssumption DEF Original, Files
<1>4. QED
  BY <1>1, <1>2, <1>3 DEF TypeInv, TypeOK

\* The image can be read, or the handler ends.
LEMMA DecodeDoes ==
    ASSUME TypeInv, NEW r \in Requests, Decode(r)
    PROVE  /\ req[r].pc = "decode" /\ UNCHANGED <<store, disk>>
           /\ Moved(r, "webp") \/ Ended(r)
BY Ending, Moving DEF Decode, At, PCs

\* A variant is written where there is a directory.
LEMMA WriteVariantDoes ==
    ASSUME TypeInv, NEW r \in Requests, WriteVariant(r)
    PROVE  /\ req[r].pc \in {"webp", "256", "64"} /\ UNCHANGED <<store, dir>>
           /\ req[r].image \in Images /\ req[r].op = "upload"
           /\ \/ Ended(r) /\ UNCHANGED file
              \/ /\ dir /\ Moved(r, AfterWrite(req[r].image, req[r].pc))
                 /\ AfterWrite(req[r].image, req[r].pc) \in {"256", "64", "answer"}
                 /\ file' \in [Files -> Images \cup {None}]
                 /\ \A n \in Files :
                      file'[n] = IF n = Variant(req[r].pc) THEN req[r].image ELSE file[n]
<1>1. req[r].pc \in {"webp", "256", "64"} /\ UNCHANGED <<store, dir>>
  BY DEF WriteVariant
<1>2. req[r].image \in Images /\ req[r].op = "upload"
  BY <1>1 DEF TypeInv, Known, RowOps
<1>3. CASE ~dir
  BY <1>1, <1>2, <1>3, Ending DEF WriteVariant
<1>4. CASE dir
  <2> DEFINE pc == AfterWrite(req[r].image, req[r].pc)
  <2>1. /\ file' = [file EXCEPT ![Variant(req[r].pc)] = req[r].image] /\ Goto(r, pc)
    BY <1>4 DEF WriteVariant
  <2>2. pc \in {"256", "64", "answer"}
    BY <1>1 DEF AfterWrite
  <2> HIDE DEF pc
  <2>3. Moved(r, pc)
    BY <2>1, <2>2, Moving DEF PCs
  <2>4. Variant(req[r].pc) \in Files
    BY <1>1 DEF Variant, Files
  <2>5. file' \in [Files -> Images \cup {None}]
        /\ \A n \in Files : file'[n] = IF n = Variant(req[r].pc) THEN req[r].image ELSE file[n]
    BY <1>2, <2>1, <2>4 DEF TypeInv, TypeOK
  <2>6. QED
    BY <1>1, <1>2, <1>4, <2>2, <2>3, <2>5 DEF pc
<1>5. QED
  BY <1>3, <1>4

\* A worker dies.
LEMMA CrashDoes ==
    ASSUME TypeInv, NEW r \in Requests, Crash(r)
    PROVE  Ended(r) /\ UNCHANGED <<store, disk>>
BY Ending DEF Crash

-----------------------------------------------------------------------------
(* Types *)

\* What is left to show of a step: the store, the disk, and the handlers that are not kept.
LEMMA TypeClose ==
    ASSUME TypeInv, req' \in [Requests -> Handlers],
           account' \in BOOLEAN, row' \in Rows, dir' \in BOOLEAN,
           file' \in [Files -> Images \cup {None}],
           ~row'.present => row' = NoRow, row'.present => account', ~dir' => file' = Empty,
           \A s \in Requests : Kept(s) \/ (Known(req[s])' /\ Quiet(req[s])')
    PROVE  TypeInv'
<1>1. \A s \in Requests : Known(req[s])' /\ Quiet(req[s])'
  BY KeptKnown
<1>2. QED
  BY <1>1 DEF TypeInv, TypeOK

\* At the start everything has its type.
LEMMA TypeInit == Init => TypeInv
BY Nothing DEF Init, TypeInv, TypeOK

\* Every step keeps everything in its type.
LEMMA TypeStep == TypeInv /\ [Next]_vars => TypeInv'
<1> SUFFICES ASSUME TypeInv, [Next]_vars PROVE TypeInv'
  OBVIOUS
<1> USE DEF store, disk
<1>1. /\ account \in BOOLEAN /\ row \in Rows /\ dir \in BOOLEAN
      /\ file \in [Files -> Images \cup {None}]
      /\ ~row.present => row = NoRow
      /\ row.present => account
      /\ ~dir => file = Empty
  BY DEF TypeInv, TypeOK
<1>2. CASE UNCHANGED vars
  BY <1>2 DEF vars, TypeInv, TypeOK, Known, Quiet
<1>3. ASSUME NEW r \in Requests, Alone(r), Known(req[r])', Quiet(req[r])'
      PROVE  /\ req' \in [Requests -> Handlers]
             /\ \A s \in Requests : Kept(s) \/ (Known(req[s])' /\ Quiet(req[s])')
  BY <1>3, AloneKeeps DEF Alone
<1>4. ASSUME NEW r \in Requests, Ended(r)
      PROVE  Alone(r) /\ Known(req[r])' /\ Quiet(req[r])'
  BY <1>4, Nothing DEF Ended
<1>5. ASSUME NEW r \in Requests, NEW pc, Moved(r, pc),
             \/ req[r].op \in RowOps /\ pc \in {"load", "commit", "answer"} /\ req[r].value \in Values
             \/ req[r].op = "remove" /\ pc = "answer" /\ req[r].cols = {}
             \/ /\ req[r].op = "upload" /\ req[r].image \in Images /\ req[r].cols = {}
                /\ pc \in {"original", "decode", "webp", "256", "64", "answer"}
      PROVE  Alone(r) /\ Known(req[r])' /\ Quiet(req[r])'
  <2>1. Quiet(req[r])
    BY DEF TypeInv
  <2>2. QED
    BY <1>5, <2>1 DEF Moved, Known, Quiet
<1>6. ASSUME NEW r \in Requests, Crash(r) PROVE TypeInv'
  BY <1>1, <1>3, <1>4, <1>6, CrashDoes, TypeClose
<1>7. ASSUME NEW byAdmin \in BOOLEAN, DeleteAccount(byAdmin) PROVE TypeInv'
  BY <1>1, <1>7, DeleteAccountDoes, Nothing, TypeClose
<1>8. ASSUME NEW r \in Requests, Arrive(r) PROVE TypeInv'
  <2>1. ASSUME NEW w \in Writes, NEW v \in Values, StartWrite(r, w[1], w[2], v) PROVE TypeInv'
    <3>1. Known(req[r])' /\ Quiet(req[r])' /\ Alone(r) /\ UNCHANGED <<store, disk>>
      BY <2>1, StartWriteDoes DEF Known, Quiet
    <3>2. QED
      BY <1>1, <1>3, <3>1, TypeClose
  <2>2. ASSUME BeginsOnDisk(r),
               req'[r].op = "remove" \/ (req'[r].op = "upload" /\ req'[r].image \in Images)
        PROVE  TypeInv'
    <3>1. Known(req[r])' /\ Quiet(req[r])'
      BY <2>2 DEF BeginsOnDisk, Known, Quiet, AvatarOps
    <3>2. req' \in [Requests -> Handlers] /\ UNCHANGED <<store, disk>>
          /\ \A s \in Requests \ {r} : Kept(s)
      BY <2>2 DEF BeginsOnDisk
    <3>3. QED
      BY <1>1, <3>1, <3>2, TypeClose
  <2>3. QED
    BY <1>8, <2>1, <2>2, StartUploadDoes, StartRemoveDoes DEF Arrive
<1>9. ASSUME NEW r \in Requests, HandlerStep(r) PROVE TypeInv'
  <2>1. Known(req[r]) /\ Quiet(req[r])
    BY DEF TypeInv
  <2>2. ASSUME NEW cols, Wrote(r, cols), req[r].pc = "commit"
        PROVE  /\ req' \in [Requests -> Handlers]
               /\ \A s \in Requests : Kept(s) \/ (Known(req[s])' /\ Quiet(req[s])')
    <3>1. Known(req[r])' /\ Quiet(req[r])'
      BY <2>1, <2>2 DEF Wrote, Known, Quiet
    <3>2. QED
      BY <2>2, <3>1 DEF Wrote
  <2>3. CASE LoadAccount(r)
    BY <1>1, <1>3, <1>4, <1>5, <2>1, <2>3, LoadAccountDoes, TypeClose DEF Known
  <2>4. CASE LoadProfile(r)
    BY <1>1, <1>3, <1>5, <2>1, <2>4, LoadProfileDoes, TypeClose DEF Known
  <2>5. CASE Insert(r)
    BY <1>1, <1>3, <1>4, <2>2, <2>5, InsertDoes, TypeClose
  <2>6. CASE Update(r)
    BY <1>1, <1>3, <1>4, <1>5, <2>1, <2>2, <2>6, UpdateDoes, TypeClose DEF Known
  <2>7. CASE Answer(r)
    BY <1>1, <1>3, <1>4, <2>7, AnswerDoes, TypeClose
  <2>8. CASE RemoveDir(r)
    BY <1>1, <1>3, <1>5, <2>1, <2>8, RemoveDirDoes, Nothing, TypeClose DEF Known, RowOps
  <2>9. CASE RemoveDirFails(r)
    BY <1>1, <1>3, <1>4, <2>9, RemoveDirFailsDoes, TypeClose
  <2>10. CASE WriteOriginal(r)
    BY <1>1, <1>3, <1>5, <2>1, <2>10, WriteOriginalDoes, TypeClose DEF Known, RowOps
  <2>11. CASE Decode(r)
    BY <1>1, <1>3, <1>4, <1>5, <2>1, <2>11, DecodeDoes, TypeClose DEF Known, RowOps
  <2>12. CASE WriteVariant(r)
    BY <1>1, <1>3, <1>4, <1>5, <2>1, <2>12, WriteVariantDoes, TypeClose DEF Known, RowOps
  <2>13. QED
    BY <1>9, <2>3, <2>4, <2>5, <2>6, <2>7, <2>8, <2>9, <2>10, <2>11, <2>12 DEF HandlerStep
<1>10. QED
  BY <1>2, <1>6, <1>7, <1>8, <1>9 DEF Next

\* Every variable of Profile always has its type, and a stored profile its account.
THEOREM TypeCorrect == Spec => []TypeOK
<1>1. TypeInv => TypeOK
  BY DEF TypeInv
<1>2. QED
  BY <1>1, TypeInit, TypeStep, PTL DEF Spec

-----------------------------------------------------------------------------
(* The row *)

\* A handler about to commit finds the columns nobody else wrote as it loaded them; one
\* about to answer finds them as it wrote them.
SectionOK(q) ==
    \A c \in q.cols \ q.touched :
      /\ q.pc = "commit" /\ q.loaded.present => row.present /\ row.data[c] = q.loaded.data[c]
      /\ q.pc = "answer" => row.present /\ row.data[c] = q.value

SectionInv == \A r \in Requests : SectionOK(req[r])

\* The row keeps the columns that s has not learnt to be written.
RowStays(s) ==
    \A c \in req[s].cols \ req'[s].touched :
        row.present => row'.present /\ row'.data[c] = row.data[c]

\* A handler that is kept, with a row that stays, finds what it found.
LEMMA SectionKept ==
    ASSUME SectionInv, NEW s \in Requests, Kept(s), RowStays(s)
    PROVE  SectionOK(req[s])'
<1>1. SectionOK(req[s])
  BY DEF SectionInv
<1>2. ASSUME NEW c \in req'[s].cols \ req'[s].touched
      PROVE  /\ req'[s].pc = "commit" /\ req'[s].loaded.present =>
                  row'.present /\ row'.data[c] = req'[s].loaded.data[c]
             /\ req'[s].pc = "answer" => row'.present /\ row'.data[c] = req'[s].value
  <2>1. c \in req[s].cols \ req[s].touched /\ c \in req[s].cols \ req'[s].touched
    BY <1>2 DEF Kept
  <2>2. QED
    BY <1>1, <2>1 DEF SectionOK, Kept, RowStays
<1>3. QED
  BY <1>2 DEF SectionOK

\* A step that leaves the row is fine for the handlers it keeps.
LEMMA SectionClose ==
    ASSUME SectionInv, row' = row,
           \A s \in Requests : Kept(s) \/ SectionOK(req[s])'
    PROVE  SectionInv'
<1>1. \A s \in Requests : RowStays(s)
  BY DEF RowStays
<1>2. QED
  BY <1>1, SectionKept DEF SectionInv

\* After a write the columns of the writer are as it wrote them, and the others find theirs.
LEMMA SectionWritten ==
    ASSUME TypeInv, SectionInv, NEW r \in Requests, NEW cols \in SUBSET Columns, Wrote(r, cols),
           row'.present,
           \A c \in Columns \ cols : row.present => row'.data[c] = row.data[c],
           \A c \in req[r].cols \ req[r].touched : row'.data[c] = req[r].value
    PROVE  SectionInv'
<1>1. SectionOK(req[r])'
  BY DEF SectionOK, Wrote
<1>2. ASSUME NEW s \in Requests \ {r} PROVE SectionOK(req[s])'
  <2>1. Kept(s) /\ cols \cap req[s].cols \subseteq req'[s].touched /\ req[s].cols \subseteq Columns
    BY DEF Wrote, TypeInv, TypeOK, Handlers
  <2>2. RowStays(s)
    BY <2>1 DEF RowStays
  <2>3. QED
    BY <2>1, <2>2, SectionKept
<1>3. QED
  BY <1>1, <1>2 DEF SectionInv

\* Every step keeps the sections.
LEMMA SectionStep == TypeInv /\ SectionInv /\ [Next]_vars => SectionInv'
<1> SUFFICES ASSUME TypeInv, SectionInv, [Next]_vars PROVE SectionInv'
  OBVIOUS
<1> USE DEF store, disk
<1>1. CASE UNCHANGED vars
  BY <1>1 DEF vars, SectionInv, SectionOK
<1>2. ASSUME NEW r \in Requests, Alone(r), SectionOK(req[r])', row' = row PROVE SectionInv'
  BY <1>2, AloneKeeps, SectionClose
<1>3. ASSUME NEW r \in Requests, Ended(r) PROVE Alone(r) /\ SectionOK(req[r])'
  BY <1>3 DEF Ended, SectionOK, Idle
<1>4. ASSUME NEW r \in Requests, Alone(r), req'[r].pc \notin {"commit", "answer"}
      PROVE  SectionOK(req[r])'
  BY <1>4 DEF SectionOK
<1>5. ASSUME NEW r \in Requests, Crash(r) PROVE SectionInv'
  BY <1>2, <1>3, <1>5, CrashDoes
<1>6. ASSUME NEW byAdmin \in BOOLEAN, DeleteAccount(byAdmin) PROVE SectionInv'
  <2>1. \A s \in Requests : RowStays(s) /\ Kept(s)
    BY <1>6, DeleteAccountDoes DEF RowStays, Kept
  <2>2. QED
    BY <2>1, SectionKept DEF SectionInv
<1>7. ASSUME NEW r \in Requests, Arrive(r) PROVE SectionInv'
  <2>1. ASSUME BeginsOnDisk(r) PROVE SectionInv'
    <3>1. SectionOK(req[r])' /\ row' = row /\ \A s \in Requests \ {r} : Kept(s)
      BY <2>1 DEF BeginsOnDisk, SectionOK
    <3>2. QED
      BY <3>1, SectionClose
  <2>2. QED
    BY <1>2, <1>4, <1>7, <2>1, StartUploadDoes, StartRemoveDoes, StartWriteDoes DEF Arrive
<1>8. ASSUME NEW r \in Requests, HandlerStep(r) PROVE SectionInv'
  <2>1. Known(req[r]) /\ SectionOK(req[r])
    BY DEF TypeInv, SectionInv
  <2>2. ASSUME NEW pc, Moved(r, pc), row' = row,
               pc \notin {"commit", "answer"} \/ req[r].cols = {}
        PROVE  SectionInv'
    <3>1. SectionOK(req[r])'
      BY <2>2 DEF Moved, SectionOK
    <3>2. QED
      BY <1>2, <2>2, <3>1 DEF Moved
  <2>3. CASE LoadProfile(r)
    <3>1. Moved(r, "commit") /\ req'[r].loaded = row /\ row' = row
      BY <2>3, LoadProfileDoes
    <3>2. SectionOK(req[r])'
      BY <3>1 DEF Moved, SectionOK
    <3>3. QED
      BY <1>2, <3>1, <3>2 DEF Moved
  <2>4. CASE Insert(r)
    <3>1. CASE Ended(r) /\ UNCHANGED row
      BY <1>2, <1>3, <3>1
    <3>2. CASE ~(Ended(r) /\ UNCHANGED row)
      <4>1. /\ Wrote(r, req[r].cols) /\ ~row.present /\ row'.present
            /\ \A c \in req[r].cols : row'.data[c] = req[r].value
        BY <2>4, <3>2, InsertDoes
      <4>2. req[r].cols \in SUBSET Columns
        BY <2>4, WriterType DEF Insert, At
      <4>3. QED
        BY <4>1, <4>2, SectionWritten
    <3>3. QED
      BY <3>1, <3>2
  <2>5. CASE Update(r)
    <3>1. req[r].pc = "commit" /\ req[r].loaded.present
      BY <2>5, UpdateDoes
    <3>2. /\ Changed(r) \in SUBSET Columns /\ req[r].cols \in SUBSET Columns
          /\ \A c \in Columns : c \in Changed(r) <=>
               c \in req[r].cols /\ req[r].loaded.data[c] # req[r].value
      BY <3>1, WriterType
    <3>3. \A c \in req[r].cols \ req[r].touched :
            row.present /\ row.data[c] = req[r].loaded.data[c]
      BY <2>1, <3>1 DEF SectionOK
    <3>4. CASE Ended(r) /\ UNCHANGED row
      BY <1>2, <1>3, <3>4
    <3>5. CASE Changed(r) = {} /\ Moved(r, "answer") /\ UNCHANGED row
      <4>1. \A c \in req[r].cols \ req[r].touched : row.present /\ row.data[c] = req[r].value
        BY <3>2, <3>3, <3>5
      <4>2. SectionOK(req[r])'
        BY <3>5, <4>1 DEF Moved, SectionOK
      <4>3. QED
        BY <1>2, <3>5, <4>2 DEF Moved
    <3>6. CASE /\ Wrote(r, Changed(r)) /\ row.present /\ row'.present
               /\ \A c \in Columns :
                    row'.data[c] = IF c \in Changed(r) THEN req[r].value ELSE row.data[c]
      <4>1. \A c \in req[r].cols \ req[r].touched : row'.data[c] = req[r].value
        BY <3>2, <3>3, <3>6
      <4>2. QED
        BY <3>2, <3>6, <4>1, SectionWritten
    <3>7. QED
      BY <2>5, <3>4, <3>5, <3>6, UpdateDoes
  <2>6. CASE LoadAccount(r) \/ Answer(r) \/ RemoveDirFails(r) \/ WriteOriginal(r) \/ Decode(r)
    <3>1. row' = row
          /\ (Ended(r) \/ Moved(r, "load") \/ Moved(r, "decode") \/ Moved(r, "webp"))
      BY <2>6, LoadAccountDoes, AnswerDoes, RemoveDirFailsDoes, WriteOriginalDoes, DecodeDoes
    <3>2. QED
      BY <1>2, <1>3, <2>2, <3>1
  <2>7. CASE RemoveDir(r) \/ WriteVariant(r)
    <3>1. row' = row /\ (Ended(r) \/ \E pc : Moved(r, pc)) /\ req[r].cols = {}
      BY <2>1, <2>7, RemoveDirDoes, WriteVariantDoes DEF Known, RowOps
    <3>2. QED
      BY <1>2, <1>3, <2>2, <3>1
  <2>8. QED
    BY <1>8, <2>3, <2>4, <2>5, <2>6, <2>7 DEF HandlerStep
<1>9. QED
  BY <1>1, <1>5, <1>6, <1>7, <1>8 DEF Next

\* No section is lost: when a 200 is sent, every column the request wrote holds its value,
\* unless a request that was asked to write the same column did so since this one began,
\* however many handlers loaded the row before and store it after.
THEOREM NoSectionIsLost == Spec => []NoSectionLost
<1>1. Init => SectionInv
  BY DEF Init, SectionInv, SectionOK, Idle
<1>2. SectionInv => NoSectionLost
  BY DEF SectionInv, SectionOK, NoSectionLost, At
<1>3. QED
  BY <1>1, <1>2, TypeInit, TypeStep, SectionStep, PTL DEF Spec

-----------------------------------------------------------------------------
(* The avatar *)

\* The files that an upload of image i has made when it is at pc.
Made(i, pc) ==
    CASE pc = "original"           -> {}
      [] pc \in {"decode", "webp"} -> {Original(i)}
      [] pc = "256"                -> {Original(i), "original.webp"}
      [] pc = "64"                 -> {Original(i), "original.webp"}
                                        \cup (IF i.dim > 256 THEN {"256.webp"} ELSE {})
      [] pc = "answer"             -> {Original(i), "original.webp"}
                                        \cup (IF i.dim > 256 THEN {"256.webp"} ELSE {})
                                        \cup (IF i.dim > 64 THEN {"64.webp"} ELSE {})

\* The directory holds these files, made of i, and nothing else.
Holds(i, names) == \A n \in Files : file[n] = IF n \in names THEN i ELSE None

\* A handler that has the disk to itself finds what it made.
AvatarOK(q) ==
    q.alone =>
      /\ q.op = "upload" /\ q.pc # "clear" => Holds(q.image, Made(q.image, q.pc))
      /\ q.op = "upload" /\ q.pc = "256" => q.image.dim > 256
      /\ q.op = "upload" /\ q.pc = "64" => q.image.dim > 64
      /\ q.op = "remove" /\ q.pc = "answer" => file = Empty

\* It has.
Sole == \A r, s \in Requests : req[r].alone /\ OnDisk(s) => s = r

AvatarInv == Sole /\ \A r \in Requests : AvatarOK(req[r])

\* A handler that is kept, with a disk that stays, finds what it found.
LEMMA AvatarKept ==
    ASSUME AvatarInv, NEW s \in Requests, Kept(s), UNCHANGED disk \/ ~req'[s].alone
    PROVE  AvatarOK(req[s])'
BY DEF AvatarInv, AvatarOK, Kept, disk, Holds

\* What is left to show of a step of a handler that goes on: the others are not on the disk
\* when it has it to itself, and do not have it to themselves when it is.
LEMMA AvatarClose ==
    ASSUME TypeInv, AvatarInv, NEW r \in Requests, Alone(r), AvatarOK(req[r])',
           req'[r].alone => req[r].alone,
           req'[r].op \in AvatarOps => req[r].op \in AvatarOps,
           UNCHANGED disk \/ req[r].op \in AvatarOps
    PROVE  AvatarInv'
<1>1. \A s \in Requests \ {r} : req'[s] = req[s] /\ Kept(s)
  BY AloneKeeps DEF Alone
<1>2. Sole'
  BY <1>1 DEF AvatarInv, Sole, OnDisk
<1>3. ASSUME NEW s \in Requests \ {r} PROVE AvatarOK(req[s])'
  <2>1. UNCHANGED disk \/ ~req[s].alone
    BY DEF AvatarInv, Sole, OnDisk
  <2>2. QED
    BY <1>1, <2>1, AvatarKept
<1>4. QED
  BY <1>2, <1>3 DEF AvatarInv

\* The next file of an upload is the one it has not made.
LEMMA NextFile ==
    ASSUME NEW i \in Images, NEW pc \in {"webp", "256", "64"}, pc = "256" => i.dim > 256,
           pc = "64" => i.dim > 64
    PROVE  /\ Made(i, AfterWrite(i, pc)) = Made(i, pc) \cup {Variant(pc)}
           /\ AfterWrite(i, pc) = "256" => i.dim > 256
           /\ AfterWrite(i, pc) = "64" => i.dim > 64
           /\ AfterWrite(i, pc) # "clear"
<1>1. i.dim \in Nat
  BY ProfileAssumption
<1>2. CASE pc = "webp"
  BY <1>1, <1>2 DEF Made, AfterWrite, Variant
<1>3. CASE pc = "256"
  BY <1>1, <1>3 DEF Made, AfterWrite, Variant
<1>4. CASE pc = "64"
  BY <1>1, <1>4 DEF Made, AfterWrite, Variant
<1>5. QED
  BY <1>2, <1>3, <1>4

\* Every step keeps the avatar.
LEMMA AvatarStep == TypeInv /\ AvatarInv /\ [Next]_vars => AvatarInv'
<1> SUFFICES ASSUME TypeInv, AvatarInv, [Next]_vars PROVE AvatarInv'
  OBVIOUS
<1> USE DEF store, disk
<1>1. CASE UNCHANGED vars
  BY <1>1 DEF vars, AvatarInv, Sole, OnDisk, AvatarOK, Holds
<1>2. ASSUME NEW r \in Requests, Ended(r), UNCHANGED disk \/ req[r].op \in AvatarOps
      PROVE  AvatarInv'
  <2>1. AvatarOK(req[r])' /\ ~req'[r].alone /\ req'[r].op \notin AvatarOps /\ Alone(r)
    BY <1>2 DEF Ended, AvatarOK, Idle, AvatarOps
  <2>2. QED
    BY <1>2, <2>1, AvatarClose
<1>3. ASSUME NEW r \in Requests, Crash(r) PROVE AvatarInv'
  BY <1>2, <1>3, CrashDoes
<1>4. ASSUME NEW byAdmin \in BOOLEAN, DeleteAccount(byAdmin) PROVE AvatarInv'
  BY <1>4, DeleteAccountDoes DEF AvatarInv, Sole, AvatarOK
<1>5. ASSUME NEW r \in Requests, Arrive(r) PROVE AvatarInv'
  <2>1. ASSUME NEW w \in Writes, NEW v \in Values, StartWrite(r, w[1], w[2], v) PROVE AvatarInv'
    <3>1. Alone(r) /\ ~req'[r].alone /\ req'[r].op \notin AvatarOps /\ UNCHANGED disk
      BY <2>1, StartWriteDoes DEF AvatarOps, RowOps
    <3>2. AvatarOK(req[r])'
      BY <3>1 DEF AvatarOK
    <3>3. QED
      BY <3>1, <3>2, AvatarClose
  <2>2. ASSUME BeginsOnDisk(r) PROVE AvatarInv'
    <3>1. AvatarOK(req[r])'
      BY <2>2 DEF BeginsOnDisk, AvatarOK
    <3>2. \A s \in Requests \ {r} : Kept(s) /\ ~req'[s].alone /\ AvatarOK(req[s])'
      BY <2>2, AvatarKept DEF BeginsOnDisk
    <3>3. Sole'
      BY <2>2, <3>2 DEF BeginsOnDisk, Sole, OnDisk, Kept
    <3>4. QED
      BY <3>1, <3>2, <3>3 DEF AvatarInv
  <2>3. QED
    BY <1>5, <2>1, <2>2, StartUploadDoes, StartRemoveDoes DEF Arrive
<1>6. ASSUME NEW r \in Requests, HandlerStep(r) PROVE AvatarInv'
  <2>1. Known(req[r]) /\ AvatarOK(req[r]) /\ Quiet(req[r])
    BY DEF TypeInv, AvatarInv
  <2>2. ASSUME NEW pc, Moved(r, pc), AvatarOK(req[r])', UNCHANGED disk \/ req[r].op \in AvatarOps
        PROVE  AvatarInv'
    BY <2>2, AvatarClose DEF Moved
  <2>3. ASSUME req[r].op \in RowOps PROVE ~req[r].alone
    BY <2>1, <2>3 DEF Quiet, RowOps, AvatarOps
  <2>4. CASE LoadAccount(r) \/ LoadProfile(r) \/ Answer(r) \/ Decode(r)
    <3>1. UNCHANGED disk
      BY <2>4, LoadAccountDoes, LoadProfileDoes, AnswerDoes, DecodeDoes
    <3>2. CASE Moved(r, "webp") /\ Decode(r)
      <4>1. AvatarOK(req[r])'
        BY <2>1, <3>1, <3>2, DecodeDoes DEF Known, RowOps, Moved, AvatarOK, Made, Holds
      <4>2. QED
        BY <2>2, <3>1, <3>2, <4>1
    <3>3. CASE \E pc \in {"load", "commit"} : Moved(r, pc) /\ req[r].pc \in {"account", "load"}
      <4>1. req[r].op \in RowOps
        BY <2>1, <3>3 DEF Known
      <4>2. AvatarOK(req[r])'
        BY <2>3, <3>3, <4>1 DEF AvatarOK, Moved
      <4>3. QED
        BY <2>2, <3>1, <3>3, <4>2
    <3>4. QED
      BY <1>2, <2>4, <3>1, <3>2, <3>3, LoadAccountDoes, LoadProfileDoes, AnswerDoes, DecodeDoes
  <2>5. CASE Insert(r) \/ Update(r)
    <3>1. UNCHANGED disk /\ req[r].op \in RowOps
      BY <2>5, InsertDoes, UpdateDoes, WriterType
    <3>2. ASSUME NEW cols, Wrote(r, cols) PROVE AvatarInv'
      <4>1. ~req'[r].alone /\ req'[r].op \notin AvatarOps
        BY <2>3, <3>1, <3>2 DEF Wrote, RowOps, AvatarOps
      <4>2. AvatarOK(req[r])'
        BY <4>1 DEF AvatarOK
      <4>3. \A s \in Requests \ {r} : Kept(s) /\ AvatarOK(req[s])'
        BY <3>1, <3>2, AvatarKept DEF Wrote
      <4>4. Sole'
        BY <4>1, <4>3 DEF AvatarInv, Sole, OnDisk, Kept
      <4>5. QED
        BY <4>2, <4>3, <4>4 DEF AvatarInv
    <3>3. ASSUME Moved(r, "answer") PROVE AvatarInv'
      <4>1. AvatarOK(req[r])'
        BY <2>3, <3>1, <3>3 DEF AvatarOK, Moved
      <4>2. QED
        BY <2>2, <3>1, <3>3, <4>1
    <3>4. QED
      BY <1>2, <2>5, <3>1, <3>2, <3>3, InsertDoes, UpdateDoes
  <2>6. CASE RemoveDir(r)
    <3>1. /\ file' = Empty
          /\ \/ req[r].op = "upload" /\ Moved(r, "original")
             \/ req[r].op = "remove" /\ Moved(r, "answer")
      BY <2>6, RemoveDirDoes
    <3>2. AvatarOK(req[r])'
      BY <3>1 DEF Moved, AvatarOK, Made, Holds, Empty
    <3>3. QED
      BY <2>2, <3>1, <3>2 DEF AvatarOps
  <2>7. CASE RemoveDirFails(r)
    <3>1. Ended(r) /\ req[r].op \in AvatarOps
      BY <2>1, <2>7, RemoveDirFailsDoes DEF Known, RowOps, AvatarOps
    <3>2. QED
      BY <1>2, <3>1
  <2>8. CASE WriteOriginal(r)
    <3>1. /\ req[r].pc = "original" /\ Moved(r, "decode")
          /\ \A n \in Files :
               file'[n] = IF n = Original(req[r].image) THEN req[r].image ELSE file[n]
      BY <2>8, WriteOriginalDoes
    <3>2. req[r].op = "upload"
      BY <2>1, <3>1 DEF Known, RowOps
    <3>3. AvatarOK(req[r])'
      BY <2>1, <3>1, <3>2 DEF Moved, AvatarOK, Made, Holds
    <3>4. QED
      BY <2>2, <3>1, <3>2, <3>3 DEF AvatarOps
  <2>9. CASE WriteVariant(r)
    <3> DEFINE i == req[r].image
               pc == req[r].pc
    <3>1. pc \in {"webp", "256", "64"} /\ i \in Images /\ req[r].op = "upload"
      BY <2>9, WriteVariantDoes
    <3>2. CASE Ended(r) /\ UNCHANGED file
      BY <1>2, <3>1, <3>2 DEF AvatarOps
    <3>3. CASE /\ Moved(r, AfterWrite(i, pc))
               /\ \A n \in Files : file'[n] = IF n = Variant(pc) THEN i ELSE file[n]
      <4>1. CASE req[r].alone
        <5>1. Holds(i, Made(i, pc)) /\ (pc = "256" => i.dim > 256) /\ (pc = "64" => i.dim > 64)
          BY <2>1, <3>1, <4>1 DEF AvatarOK
        <5>2. /\ Made(i, AfterWrite(i, pc)) = Made(i, pc) \cup {Variant(pc)}
              /\ AfterWrite(i, pc) = "256" => i.dim > 256
              /\ AfterWrite(i, pc) = "64" => i.dim > 64
          BY <3>1, <5>1, NextFile
        <5>3. \A n \in Files : file'[n] = IF n \in Made(i, AfterWrite(i, pc)) THEN i ELSE None
          BY <3>3, <5>1, <5>2 DEF Holds
        <5>4. AvatarOK(req[r])'
          BY <3>1, <3>3, <5>2, <5>3 DEF AvatarOK, Moved, Holds
        <5>5. QED
          BY <2>2, <3>1, <3>3, <5>4 DEF AvatarOps
      <4>2. CASE ~req[r].alone
        <5>1. AvatarOK(req[r])'
          BY <3>3, <4>2 DEF AvatarOK, Moved
        <5>2. QED
          BY <2>2, <3>1, <3>3, <5>1 DEF AvatarOps
      <4>3. QED
        BY <4>1, <4>2
    <3>4. QED
      BY <2>9, <3>2, <3>3, WriteVariantDoes
  <2>10. QED
    BY <1>6, <2>4, <2>5, <2>6, <2>7, <2>8, <2>9 DEF HandlerStep
<1>7. QED
  BY <1>1, <1>3, <1>4, <1>5, <1>6 DEF Next

\* When the 200 of an upload that had the disk to itself is sent, the directory holds the
\* files made of that image and nothing else, for images of any size and format; after a
\* removal there is nothing.
THEOREM AvatarsAsAnswered == Spec => []AvatarAsAnswered
<1>1. Init => AvatarInv
  BY DEF Init, AvatarInv, Sole, AvatarOK, Idle
<1>2. TypeInv /\ AvatarInv => AvatarAsAnswered
  <2> SUFFICES ASSUME TypeInv, AvatarInv, NEW r \in Requests, req[r].pc = "answer", req[r].alone
               PROVE  file = IF req[r].op = "upload" THEN OneImage(req[r].image) ELSE Empty
    BY DEF AvatarAsAnswered, At
  <2>1. AvatarOK(req[r]) /\ req[r].op \in AvatarOps /\ file \in [Files -> Images \cup {None}]
    BY DEF TypeInv, TypeOK, Quiet, AvatarInv
  <2>2. CASE req[r].op = "upload"
    <3> DEFINE i == req[r].image
    <3>1. Holds(i, Made(i, "answer"))
      BY <2>1, <2>2 DEF AvatarOK
    <3>2. \A n \in Files : OneImage(i)[n] = IF n \in Made(i, "answer") THEN i ELSE None
      BY DEF OneImage, Made
    <3>3. \A n \in Files : file[n] = OneImage(i)[n]
      BY <3>1, <3>2 DEF Holds
    <3>4. file = OneImage(i)
      BY <2>1, <3>3 DEF OneImage
    <3>5. QED
      BY <2>2, <3>4
  <2>3. CASE req[r].op = "remove"
    BY <2>1, <2>3 DEF AvatarOK
  <2>4. QED
    BY <2>1, <2>2, <2>3 DEF AvatarOps
<1>3. QED
  BY <1>1, <1>2, TypeInit, TypeStep, AvatarStep, PTL DEF Spec
=============================================================================
