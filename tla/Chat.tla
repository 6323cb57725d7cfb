-------------------------------- MODULE Chat ---------------------------------
(***************************************************************************)
(* Requests that one worker passes on to Dify: the answer streamed frame by *)
(* frame, the calls that stop, rate, rename, delete and list, the parsing   *)
(* of a CV in two calls.  What is kept here is no table but what a request  *)
(* holds while it waits: a connection of the database pool, taken by the    *)
(* first query and given back after the response, and the exchange with     *)
(* Dify.  Dify is a process of its own: it may act on a call whose answer   *)
(* is lost.                                                                 *)
(***************************************************************************)
EXTENDS Naturals, Sequences, FiniteSets

CONSTANTS Calls,    \* the requests, each with its call to Dify
          PoolMax,  \* connections of the worker (pool_size and max_overflow)
          MaxLines, \* bounds the lines of one streamed answer
          None      \* no operation, no answer, nothing heard

ASSUME ChatAssumption == PoolMax \in Nat \ {0} /\ MaxLines \in Nat

VARIABLES
  op,     \* op[k]: the endpoint
  pc,     \* pc[k]: the step the handler is about to take
  conn,   \* requests with a connection checked out
  open,   \* requests whose exchange with Dify is open
  task,   \* task[k]: the stream a stop is about
  dify,   \* dify[k]: what Dify made of the call
  reply,  \* reply[k]: what has come back of a call that is not a stream
  sent,   \* sent[k]: the lines Dify has put on a stream
  got,    \* got[k]: how many of them the handler has taken
  out,    \* out[k]: the frames passed on to the client
  answer  \* answer[k]: how the client's request ended

vars == <<op, pc, conn, open, task, dify, reply, sent, got, out, answer>>

request == <<op, task>>
remote  == <<dify, reply, sent>>
client  == <<got, out>>

Reads  == {"messages", "conversations"}
Writes == {"stop", "feedback", "rename", "delete"}
Ops    == Reads \cup Writes \cup {"chat", "cv"}

\* What comes back of a call, and how the client's request ends.
Replies == {"ok", "garbled", "misfit", "error", "notfound", "failed"}
Answers == {"200", "400", "401", "404", "422", "500", "502", "complete", "failed", "gone"}

ASSUME NoneAssumption == None \notin Replies \cup Answers

Init ==
    /\ op = [k \in Calls |-> None] /\ pc = [k \in Calls |-> "new"]
    /\ conn = {} /\ open = {} /\ task = [k \in Calls |-> None]
    /\ dify = [k \in Calls |-> "nothing"] /\ reply = [k \in Calls |-> None]
    /\ sent = [k \in Calls |-> <<>>] /\ got = [k \in Calls |-> 0] /\ out = [k \in Calls |-> <<>>]
    /\ answer = [k \in Calls |-> None]

-----------------------------------------------------------------------------
At(k, p)   == pc[k] = p
Goto(k, p) == pc' = [pc EXCEPT ![k] = p]

\* The response is ready to be sent.
Answer(k, a) ==
    /\ answer' = [answer EXCEPT ![k] = a]
    /\ Goto(k, "answer")

\* chat_stream reads the profile before it opens the stream.
Authenticated(o) == IF o = "chat" THEN "profile" ELSE "call"

(* ---------------------- authentication and the pool ---------------------- *)

\* get_current_user_id with the session in Redis, or with a query to come.  A task id
\* is known from the frames of a stream.
Start(k, o, j, cached) ==
    /\ At(k, "new") /\ o \in Ops
    /\ IF o = "stop" THEN j # None /\ sent[j] # <<>> ELSE j = None
    /\ op' = [op EXCEPT ![k] = o] /\ task' = [task EXCEPT ![k] = j]
    /\ Goto(k, IF cached THEN Authenticated(o) ELSE "auth")
    /\ UNCHANGED <<conn, open, remote, client, answer>>

Waits(k) == pc[k] \in {"auth", "profile"} /\ k \notin conn

\* The session checks a connection out with its first query and keeps it: nothing
\* commits before the response is over.
Connect(k) ==
    /\ Waits(k) /\ Cardinality(conn) < PoolMax
    /\ conn' = conn \cup {k}
    /\ UNCHANGED <<request, pc, open, remote, client, answer>>

\* QueuePool gives up after thirty seconds: 500.
PoolTimeout(k) ==
    /\ Waits(k) /\ Cardinality(conn) = PoolMax
    /\ Answer(k, "500")
    /\ UNCHANGED <<request, conn, open, remote, client>>

\* A row, or 401.
AuthRow(k) ==
    /\ At(k, "auth") /\ k \in conn
    /\ \/ Goto(k, Authenticated(op[k])) /\ UNCHANGED answer
       \/ Answer(k, "401")
    /\ UNCHANGED <<request, conn, open, remote, client>>

\* _get_user_profile_json.
ReadProfile(k) ==
    /\ At(k, "profile") /\ k \in conn
    /\ Goto(k, "call")
    /\ UNCHANGED <<request, conn, open, remote, client, answer>>

\* A conversation without an id, a file that is missing, empty, too large or of the
\* wrong type.
Reject(k) ==
    /\ At(k, "call") /\ op[k] \in {"messages", "cv"}
    /\ Answer(k, "400")
    /\ UNCHANGED <<request, conn, open, remote, client>>

(* --------------------------- the call to Dify ----------------------------- *)

\* httpx sends the request; a CV is uploaded first.
Call(k) ==
    /\ At(k, "call")
    /\ Goto(k, "await")
    /\ open' = open \cup {k}
    /\ dify' = [dify EXCEPT ![k] = IF op[k] = "cv" THEN "uploading" ELSE "asked"]
    /\ UNCHANGED <<request, conn, reply, sent, client, answer>>

Hear(k, what) == reply' = IF k \in open THEN [reply EXCEPT ![k] = what] ELSE reply

\* A stop ends the stream it is about; anything else is done as it was asked.
Does(k) ==
    IF op[k] = "stop"
      THEN /\ dify[task[k]] = "running"
           /\ dify' = [dify EXCEPT ![k] = "done", ![task[k]] = "done"]
      ELSE dify' = [dify EXCEPT ![k] = "done"]

\* Dify does what a call asks.  The answer may be no JSON, or JSON that is no object or
\* lacks what is read of it, or an error all the same; a workflow may put out nothing.
DifyDoes(k) ==
    /\ dify[k] = "asked" /\ op[k] # "chat"
    /\ Does(k)
    /\ \E what \in {"ok", "garbled", "misfit", "error"} \cup (IF op[k] = "cv" THEN {"failed"} ELSE {}) :
         Hear(k, what)
    /\ UNCHANGED <<request, pc, conn, open, sent, client, answer>>

\* Dify has no such task, message or conversation, or fails; a workflow can fail, and
\* say so with a 200 that may be as odd.
DifyRefuses(k) ==
    /\ dify[k] \in {"asked", "uploading"}
    /\ dify' = [dify EXCEPT ![k] = "refused"]
    /\ \E what \in {"notfound", "error"} \cup (IF op[k] = "cv" THEN {"failed", "misfit"} ELSE {}) :
         Hear(k, what)
    /\ UNCHANGED <<request, pc, conn, open, sent, client, answer>>

\* The file id, or an answer without one.
DifyStoresFile(k) ==
    /\ dify[k] = "uploading"
    /\ dify' = [dify EXCEPT ![k] = "uploaded"]
    /\ \E what \in {"ok", "garbled", "misfit", "error"} : Hear(k, what)
    /\ UNCHANGED <<request, pc, conn, open, sent, client, answer>>

\* Mutant: a call that failed is taken for one that found nothing.
RelayLostAsNotFound(o, what) ==
    CASE what = "ok"       -> "200"
      [] what = "garbled"  -> IF o \in Reads THEN "500" ELSE IF o = "delete" THEN "200" ELSE "502"
      [] what = "misfit"   -> IF o = "delete" THEN "200" ELSE "500"
      [] what = "failed"   -> "422"
      [] OTHER             -> IF o \in Writes THEN "404" ELSE "502"

\* What the router answers.  The lists do not guard the parsing of the body, nobody
\* guards the reading of it, the deletion does not look at it.
Relay(o, what) ==
    CASE what = "ok"       -> "200"
      [] what = "garbled"  -> IF o \in Reads THEN "500" ELSE IF o = "delete" THEN "200" ELSE "502"
      [] what = "misfit"   -> IF o = "delete" THEN "200" ELSE "500"
      [] what = "notfound" -> IF o \in Writes THEN "404" ELSE "502"
      [] what = "failed"   -> "422"
      [] OTHER             -> "502"

\* The exchange ends with the call; an uploaded CV goes on to the workflow.
Receive(k) ==
    /\ At(k, "await") /\ k \in open /\ reply[k] # None
    /\ reply' = [reply EXCEPT ![k] = None]
    /\ IF op[k] = "chat"
         THEN Goto(k, "error") /\ UNCHANGED <<dify, open, answer>>
       ELSE IF dify[k] = "uploaded" /\ reply[k] = "ok"
         THEN dify' = [dify EXCEPT ![k] = "asked"] /\ UNCHANGED <<pc, open, answer>>
       ELSE Answer(k, Relay(op[k], reply[k])) /\ open' = open \ {k} /\ UNCHANGED dify
    /\ UNCHANGED <<request, conn, sent, client>>

\* httpx.RequestError, before or during the answer.  Dify knows nothing of it.
RequestError(k) ==
    /\ pc[k] \in {"await", "stream"}
    /\ IF op[k] = "chat" THEN Goto(k, "error") /\ UNCHANGED <<open, answer>>
                         ELSE Answer(k, Relay(op[k], "lost")) /\ open' = open \ {k}
    /\ UNCHANGED <<request, conn, remote, client>>

\* Mutant: the time-out covers the wait for the answer's head only.
SilentBeforeAnswer(k) == At(k, "await") /\ reply[k] = None

\* Nothing more has come.
Silent(k) ==
    /\ pc[k] \in {"await", "stream"} /\ reply[k] = None /\ got[k] = Len(sent[k])
    /\ ~(At(k, "stream") /\ dify[k] = "done")

\* dify_timeout: sixty seconds without a byte.
DifyTimeout(k) == Silent(k) /\ RequestError(k)

(* ------------------------------- a stream --------------------------------- *)

\* Dify accepts and generates; a line is a frame, a frame that is no JSON object, or
\* one of those that keep the connection alive.
LineKinds == {"data", "odd", "ping"}
IsFrame(line) == line # "ping"

DifyAccepts(k) ==
    /\ dify[k] = "asked" /\ op[k] = "chat"
    /\ dify' = [dify EXCEPT ![k] = "running"]
    /\ UNCHANGED <<request, pc, conn, open, reply, sent, client, answer>>

DifySends(k, line) ==
    /\ dify[k] = "running" /\ k \in open /\ Len(sent[k]) < MaxLines
    /\ sent' = [sent EXCEPT ![k] = Append(@, line)]
    /\ UNCHANGED <<request, pc, conn, open, dify, reply, client, answer>>

DifyEnds(k) ==
    /\ dify[k] = "running"
    /\ dify' = [dify EXCEPT ![k] = "done"]
    /\ UNCHANGED <<request, pc, conn, open, reply, sent, client, answer>>

StreamOpens(k) ==
    /\ At(k, "await") /\ op[k] = "chat" /\ reply[k] = None /\ dify[k] \in {"running", "done"}
    /\ Goto(k, "stream")
    /\ UNCHANGED <<request, conn, open, remote, client, answer>>

\* Mutant: a frame that cannot be read is passed over after the error.
ForwardOn(k) ==
    /\ At(k, "stream") /\ got[k] < Len(sent[k])
    /\ LET line == sent[k][got[k] + 1] IN
         /\ got' = [got EXCEPT ![k] = @ + 1]
         /\ out' = [out EXCEPT ![k] = IF line = "odd" THEN Append(@, "error")
                                      ELSE IF IsFrame(line) THEN Append(@, line) ELSE @]
         /\ UNCHANGED pc
    /\ UNCHANGED <<request, conn, open, remote, answer>>

\* A frame goes to the client before it is looked at for the log; one that is no
\* object raises there.
Forward(k) ==
    /\ At(k, "stream") /\ got[k] < Len(sent[k])
    /\ LET line == sent[k][got[k] + 1] IN
         /\ got' = [got EXCEPT ![k] = @ + 1]
         /\ out' = [out EXCEPT ![k] = IF IsFrame(line) THEN Append(@, line) ELSE @]
         /\ IF line = "odd" THEN Goto(k, "error") ELSE UNCHANGED pc
    /\ UNCHANGED <<request, conn, open, remote, answer>>

StreamEnds(k) ==
    /\ At(k, "stream") /\ dify[k] = "done" /\ got[k] = Len(sent[k])
    /\ open' = open \ {k}
    /\ Answer(k, "complete")
    /\ UNCHANGED <<request, conn, remote, client>>

\* Mutant: the status is sent where the frame should be.
SendStatus(k) ==
    /\ At(k, "error")
    /\ out' = [out EXCEPT ![k] = Append(@, "502")]
    /\ open' = open \ {k}
    /\ Answer(k, "failed")
    /\ UNCHANGED <<request, conn, remote, got>>

\* The error frame, whatever went wrong.
SendError(k) ==
    /\ At(k, "error")
    /\ out' = [out EXCEPT ![k] = Append(@, "error")]
    /\ open' = open \ {k}
    /\ Answer(k, "failed")
    /\ UNCHANGED <<request, conn, remote, got>>

\* Mutant: the stream with Dify is left open.
DisconnectLeaves(k) ==
    /\ op[k] = "chat" /\ pc[k] \in {"await", "stream", "error"}
    /\ Goto(k, "over") /\ answer' = [answer EXCEPT ![k] = "gone"]
    /\ conn' = conn \ {k}
    /\ UNCHANGED <<request, open, remote, client>>

\* The client leaves a stream: CancelledError runs through both generators.  Other
\* requests run to their end.
Disconnect(k) ==
    /\ op[k] = "chat" /\ pc[k] \in {"await", "stream", "error"}
    /\ Goto(k, "over") /\ answer' = [answer EXCEPT ![k] = "gone"]
    /\ conn' = conn \ {k} /\ open' = open \ {k}
    /\ UNCHANGED <<request, remote, client>>

\* The response is out; then get_db closes its session.
Respond(k) ==
    /\ At(k, "answer")
    /\ Goto(k, "over")
    /\ conn' = conn \ {k}
    /\ UNCHANGED <<request, open, remote, client, answer>>

-----------------------------------------------------------------------------
Arrive(k) == \E o \in Ops, j \in Calls \cup {None}, cached \in BOOLEAN : Start(k, o, j, cached)

HandlerStep(k) ==
    \/ Connect(k) \/ PoolTimeout(k) \/ AuthRow(k) \/ ReadProfile(k)
    \/ Reject(k) \/ Call(k) \/ Receive(k) \/ DifyTimeout(k)
    \/ StreamOpens(k) \/ Forward(k) \/ StreamEnds(k) \/ SendError(k) \/ Respond(k)

DifyStep(k) ==
    \/ DifyDoes(k) \/ DifyRefuses(k) \/ DifyStoresFile(k)
    \/ DifyAccepts(k) \/ (\E line \in LineKinds : DifySends(k, line)) \/ DifyEnds(k)

Next == \E k \in Calls : Arrive(k) \/ HandlerStep(k) \/ DifyStep(k) \/ RequestError(k) \/ Disconnect(k)

\* The event loop resumes a handler whose step is ready, and both time-outs fire.
\* Nothing is assumed of clients or of Dify, but that no answer goes on for ever
\* (MaxLines).
Spec     == Init /\ [][Next]_vars
FairSpec == Spec /\ \A k \in Calls : WF_vars(HandlerStep(k))

-----------------------------------------------------------------------------
(* Properties *)

PCs     == {"new", "auth", "profile", "call", "await", "stream", "error", "answer", "over"}
Fates   == {"nothing", "uploading", "uploaded", "asked", "running", "done", "refused"}
Frames  == {"data", "odd", "error"}

\* Every variable has its type.
TypeOK ==
    /\ op \in [Calls -> Ops \cup {None}] /\ pc \in [Calls -> PCs]
    /\ conn \subseteq Calls /\ open \subseteq Calls /\ task \in [Calls -> Calls \cup {None}]
    /\ dify \in [Calls -> Fates] /\ reply \in [Calls -> Replies \cup {None}]
    /\ sent \in [Calls -> Seq(LineKinds)] /\ got \in [Calls -> 0..MaxLines]
    /\ out \in [Calls -> Seq(Frames)] /\ answer \in [Calls -> Answers \cup {None}]

\* What a client is told of a call is what Dify made of it, though answers are lost,
\* late or unreadable: a 200 was done, a 404 was not, what was refused at the door never
\* reached Dify, and a 500 was either never asked or done, so that a repetition may do
\* it twice.  A 502 says nothing either way, nor does the 500 or 422 of a CV.
AnswersAreTrue ==
    \A k \in Calls :
        /\ answer[k] = "200" => dify[k] = "done"
        /\ answer[k] = "404" => dify[k] = "refused"
        /\ answer[k] \in {"400", "401"} => dify[k] = "nothing"
        /\ answer[k] = "500" /\ op[k] # "cv" => dify[k] \in {"nothing", "done"}

\* The first n frames of o are the frames among the first g lines of s, in their order.
PassedOn(s, g, o, n) ==
    LET frames == {i \in 1..g : IsFrame(s[i])}
    IN  \E f \in [1..n -> frames] :
            /\ \A i, j \in 1..n : i < j => f[i] < f[j]
            /\ \A x \in frames : \E i \in 1..n : f[i] = x
            /\ \A i \in 1..n : o[i] = s[f[i]]

\* A client sees the frames Dify sent, in order and without a gap, then perhaps one
\* error frame and nothing after it; a stream that ends without one, and without the
\* client leaving, is the whole of what Dify sent (chat_stream).
FramesAreFaithful ==
    \A k \in Calls : \E g \in 0..Len(sent[k]) :
        LET n == Len(out[k]) IN
        /\ IF answer[k] = "failed"
             THEN n > 0 /\ out[k][n] = "error" /\ PassedOn(sent[k], g, out[k], n - 1)
             ELSE PassedOn(sent[k], g, out[k], n)
        /\ answer[k] = "complete" => dify[k] = "done" /\ g = Len(sent[k])

\* A request that is over, however it ended, holds neither a connection nor an
\* exchange, and one that waits for a connection holds no exchange with Dify.
NothingIsLeaked ==
    \A k \in Calls : At(k, "over") \/ Waits(k) => k \notin open /\ k \notin conn

\* Every request ends, though the pool is taken by streams and Dify is silent: both
\* waits have an end (pool_timeout, dify_timeout).
EveryRequestEnds == \A k \in Calls : ~At(k, "new") ~> At(k, "over")
=============================================================================
