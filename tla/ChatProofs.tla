------------------------------ MODULE ChatProofs ------------------------------
(***************************************************************************)
(* What holds of Chat for any number of requests, connections and lines:   *)
(* what a client is told of a call is what Dify made of it, a stream is    *)
(* what Dify sent, and a request that is over, or waits, holds nothing.    *)
(***************************************************************************)
EXTENDS Chat, TLAPS

-----------------------------------------------------------------------------
(* What holds of each call *)

Before == {"new", "auth", "profile", "call"}

\* Dify is asked once the handler calls, and a handler that is not done has not answered.
InOrder(k) ==
    /\ pc[k] \in Before => dify[k] = "nothing"
    /\ pc[k] \notin {"answer", "over"} => answer[k] = None

\* What has come back is what Dify did; only a CV is uploaded.
Heard(k) ==
    /\ reply[k] \in {"ok", "garbled"} => dify[k] \in {"done", "uploaded"}
    /\ reply[k] = "misfit" =>
         dify[k] = "done" \/ (op[k] = "cv" /\ dify[k] \in {"uploaded", "refused"})
    /\ reply[k] = "notfound" => dify[k] = "refused"
    /\ dify[k] \in {"uploading", "uploaded"} => op[k] = "cv"

\* What the client was told is true.
Told(k) ==
    /\ answer[k] = "200" => dify[k] = "done"
    /\ answer[k] = "404" => dify[k] = "refused"
    /\ answer[k] \in {"400", "401"} => dify[k] = "nothing"
    /\ answer[k] = "500" /\ op[k] # "cv" => dify[k] \in {"nothing", "done"}

\* A call has its exchange from the call to the end of the handler's work, and its
\* connection at most from the first query to the end of the response.
Holding(k) ==
    /\ k \in open => pc[k] \in {"await", "stream", "error"}
    /\ k \in conn => pc[k] \notin {"new", "over"}

CallInv == \A k \in Calls : InOrder(k) /\ Heard(k) /\ Told(k) /\ Holding(k)

TypeInv == TypeOK /\ \A k \in Calls : Len(sent[k]) <= MaxLines

-----------------------------------------------------------------------------
(* Types *)

\* The endpoints, and the steps after authentication, are among those named.
LEMMA NamesAreNamed ==
    /\ Reads \subseteq Ops /\ Writes \subseteq Ops /\ Before \subseteq PCs
    /\ \A o : Authenticated(o) \in {"profile", "call"}
BY DEF Ops, Before, PCs, Authenticated

\* The router answers with a status, and it tells found from lost.
LEMMA RelayAnswers ==
    ASSUME NEW o, NEW what
    PROVE  /\ Relay(o, what) \in Answers
           /\ Relay(o, what) = "200" => what = "ok" \/ (what \in {"garbled", "misfit"} /\ o = "delete")
           /\ Relay(o, what) = "404" => what = "notfound"
           /\ Relay(o, what) \notin {"400", "401"}
           /\ Relay(o, what) = "500" => what \in {"garbled", "misfit"}
BY DEF Relay, Answers, Reads, Writes

\* At the start everything has its type.
LEMMA TypeInit == Init => TypeInv
<1> SUFFICES ASSUME Init PROVE TypeInv
  OBVIOUS
<1>1. sent \in [Calls -> Seq(LineKinds)] /\ out \in [Calls -> Seq(Frames)]
  BY DEF Init
<1>2. \A k \in Calls : Len(sent[k]) <= MaxLines
  BY ChatAssumption DEF Init
<1>3. QED
  BY <1>1, <1>2, ChatAssumption DEF Init, TypeInv, TypeOK, PCs, Fates

\* The handler's step keeps everything in its type.
LEMMA HandlerTypes ==
    ASSUME TypeInv, NEW k \in Calls,
           HandlerStep(k) \/ Arrive(k) \/ RequestError(k) \/ Disconnect(k)
    PROVE  TypeInv'
<1> USE DEF TypeInv, TypeOK, request, remote, client, Answer, Goto
<1>1. /\ PCs = Before \cup {"await", "stream", "error", "answer", "over"}
      /\ {"400", "401", "500", "complete", "failed", "gone"} \subseteq Answers
      /\ "asked" \in Fates /\ "uploading" \in Fates
  BY DEF PCs, Before, Answers, Fates
<1>2. CASE Arrive(k)
  <2>1. PICK o \in Ops, j \in Calls \cup {None}, cached \in BOOLEAN : Start(k, o, j, cached)
    BY <1>2 DEF Arrive
  <2>2. pc' \in [Calls -> PCs]
    <3> DEFINE p == IF cached THEN Authenticated(o) ELSE "auth"
    <3>1. p \in PCs
      BY NamesAreNamed DEF PCs
    <3>2. pc' = [pc EXCEPT ![k] = p]
      BY <2>1 DEF Start
    <3> HIDE DEF p
    <3>3. QED
      BY <3>1, <3>2
  <2>3. QED
    BY <2>1, <2>2 DEF Start
<1>3. CASE Connect(k)
  BY <1>3 DEF Connect
<1>4. CASE PoolTimeout(k)
  BY <1>1, <1>4 DEF PoolTimeout
<1>5. CASE AuthRow(k)
  <2>1. CASE Goto(k, Authenticated(op[k])) /\ UNCHANGED answer
    <3> DEFINE p == Authenticated(op[k])
    <3>1. p \in PCs
      BY NamesAreNamed DEF PCs
    <3>2. pc' = [pc EXCEPT ![k] = p]
      BY <2>1
    <3> HIDE DEF p
    <3>3. QED
      BY <1>5, <2>1, <3>1, <3>2 DEF AuthRow
  <2>2. CASE Answer(k, "401")
    BY <1>1, <1>5, <2>2 DEF AuthRow
  <2>3. QED
    BY <1>5, <2>1, <2>2 DEF AuthRow
<1>6. CASE ReadProfile(k)
  BY <1>1, <1>6 DEF ReadProfile, Before
<1>7. CASE Reject(k)
  BY <1>1, <1>7 DEF Reject
<1>8. CASE Call(k)
  BY <1>1, <1>8 DEF Call
<1>9. CASE Receive(k)
  <2> DEFINE a == Relay(op[k], reply[k])
  <2>1. a \in Answers
    BY RelayAnswers
  <2>2. \/ pc' = [pc EXCEPT ![k] = "error"] /\ UNCHANGED <<dify, open, answer>>
        \/ dify' = [dify EXCEPT ![k] = "asked"] /\ UNCHANGED <<pc, open, answer>>
        \/ /\ answer' = [answer EXCEPT ![k] = a] /\ pc' = [pc EXCEPT ![k] = "answer"]
           /\ open' = open \ {k} /\ UNCHANGED dify
    BY <1>9 DEF Receive
  <2>3. reply' = [reply EXCEPT ![k] = None] /\ UNCHANGED <<request, conn, sent, client>>
    BY <1>9 DEF Receive
  <2> HIDE DEF a
  <2>4. QED
    BY <1>1, <2>1, <2>2, <2>3
<1>10. CASE RequestError(k)
  <2> DEFINE a == Relay(op[k], "lost")
  <2>1. a \in Answers
    BY RelayAnswers
  <2>2. \/ pc' = [pc EXCEPT ![k] = "error"] /\ UNCHANGED <<open, answer>>
        \/ /\ answer' = [answer EXCEPT ![k] = a] /\ pc' = [pc EXCEPT ![k] = "answer"]
           /\ open' = open \ {k}
    BY <1>10 DEF RequestError
  <2>3. UNCHANGED <<request, conn, remote, client>>
    BY <1>10 DEF RequestError
  <2> HIDE DEF a
  <2>4. QED
    BY <1>1, <2>1, <2>2, <2>3
<1>11. CASE StreamOpens(k)
  BY <1>1, <1>11 DEF StreamOpens
<1>12. CASE Forward(k)
  <2> DEFINE line == sent[k][got[k] + 1]
             frames == IF IsFrame(line) THEN Append(out[k], line) ELSE out[k]
  <2>1. /\ got[k] \in Nat /\ got[k] < Len(sent[k]) /\ Len(sent[k]) <= MaxLines
        /\ sent[k] \in Seq(LineKinds) /\ out[k] \in Seq(Frames)
    BY <1>12, ChatAssumption DEF Forward
  <2>2. line \in LineKinds
    BY <2>1
  <2>3. IsFrame(line) => line \in Frames
    BY <2>2 DEF IsFrame, LineKinds, Frames
  <2> HIDE DEF line
  <2>4. frames \in Seq(Frames)
    BY <2>1, <2>3
  <2>5. /\ got' = [got EXCEPT ![k] = got[k] + 1] /\ out' = [out EXCEPT ![k] = frames]
        /\ pc' = [pc EXCEPT ![k] = "error"] \/ pc' = pc
        /\ UNCHANGED <<op, task, conn, open, dify, reply, sent, answer>>
    BY <1>12 DEF Forward, line
  <2>6. got[k] + 1 \in 0..MaxLines
    BY <2>1, ChatAssumption
  <2> HIDE DEF frames
  <2>7. QED
    BY <1>1, <2>4, <2>5, <2>6
<1>13. CASE StreamEnds(k)
  BY <1>1, <1>13 DEF StreamEnds
<1>14. CASE SendError(k)
  <2> DEFINE frames == Append(out[k], "error")
  <2>1. frames \in Seq(Frames)
    BY DEF Frames
  <2>2. /\ out' = [out EXCEPT ![k] = frames] /\ pc' = [pc EXCEPT ![k] = "answer"]
        /\ answer' = [answer EXCEPT ![k] = "failed"] /\ open' = open \ {k}
        /\ UNCHANGED <<op, task, conn, dify, reply, sent, got>>
    BY <1>14 DEF SendError
  <2> HIDE DEF frames
  <2>3. QED
    BY <1>1, <2>1, <2>2
<1>15. CASE Disconnect(k)
  BY <1>1, <1>15 DEF Disconnect
<1>16. CASE Respond(k)
  BY <1>1, <1>16 DEF Respond
<1>17. QED
  BY <1>2, <1>3, <1>4, <1>5, <1>6, <1>7, <1>8, <1>9, <1>10, <1>11, <1>12, <1>13, <1>14, <1>15,
     <1>16 DEF HandlerStep, DifyTimeout

\* What Dify made of the calls after one was done.
LEMMA DoesDoes ==
    ASSUME TypeInv, NEW k \in Calls, dify[k] = "asked", Does(k)
    PROVE  /\ dify' \in [Calls -> Fates] /\ dify'[k] = "done"
           /\ \A j \in Calls \ {k} :
                dify'[j] = dify[j] \/ (dify[j] = "running" /\ dify'[j] = "done")
<1>1. dify \in [Calls -> Fates] /\ "done" \in Fates
  BY DEF TypeInv, TypeOK, Fates
<1>2. CASE op[k] = "stop"
  <2>1. /\ dify[task[k]] = "running"
        /\ dify' = [dify EXCEPT ![k] = "done", ![task[k]] = "done"]
    BY <1>2 DEF Does
  <2>2. QED
    BY <1>1, <2>1
<1>3. CASE op[k] # "stop"
  BY <1>1, <1>3 DEF Does
<1>4. QED
  BY <1>2, <1>3

\* An answer is heard while the exchange is open.
LEMMA HearDoes ==
    ASSUME TypeInv, NEW k \in Calls, NEW what \in Replies, Hear(k, what)
    PROVE  /\ reply' \in [Calls -> Replies \cup {None}]
           /\ \A j \in Calls \ {k} : reply'[j] = reply[j]
           /\ reply'[k] \in {what, reply[k]}
BY DEF Hear, TypeInv, TypeOK

\* Dify's step keeps everything in its type.
LEMMA DifyTypes ==
    ASSUME TypeInv, NEW k \in Calls, DifyStep(k)
    PROVE  TypeInv'
<1> USE DEF TypeInv, TypeOK, request, remote, client
<1>1. {"refused", "uploaded", "running", "done"} \subseteq Fates
  BY DEF Fates
<1>2. CASE DifyDoes(k)
  <2>1. dify' \in [Calls -> Fates]
    BY <1>2, DoesDoes DEF DifyDoes
  <2>2. reply' \in [Calls -> Replies \cup {None}]
    BY <1>2, HearDoes DEF DifyDoes, Replies
  <2>3. QED
    BY <1>2, <2>1, <2>2 DEF DifyDoes
<1>3. CASE DifyRefuses(k)
  <2>1. reply' \in [Calls -> Replies \cup {None}]
    BY <1>3, HearDoes DEF DifyRefuses, Replies
  <2>2. QED
    BY <1>1, <1>3, <2>1 DEF DifyRefuses
<1>4. CASE DifyStoresFile(k)
  <2>1. reply' \in [Calls -> Replies \cup {None}]
    BY <1>4, HearDoes DEF DifyStoresFile, Replies
  <2>2. QED
    BY <1>1, <1>4, <2>1 DEF DifyStoresFile
<1>5. CASE DifyAccepts(k)
  BY <1>1, <1>5 DEF DifyAccepts
<1>6. ASSUME NEW line \in LineKinds, DifySends(k, line) PROVE TypeInv'
  <2> DEFINE lines == Append(sent[k], line)
  <2>1. lines \in Seq(LineKinds) /\ Len(lines) <= MaxLines
    BY <1>6, ChatAssumption DEF DifySends
  <2>2. /\ sent' = [sent EXCEPT ![k] = lines]
        /\ UNCHANGED <<op, task, pc, conn, open, dify, reply, got, out, answer>>
    BY <1>6 DEF DifySends
  <2> HIDE DEF lines
  <2>3. QED
    BY <2>1, <2>2
<1>7. CASE DifyEnds(k)
  BY <1>1, <1>7 DEF DifyEnds
<1>8. QED
  BY <1>2, <1>3, <1>4, <1>5, <1>6, <1>7 DEF DifyStep

\* Every step keeps everything in its type.
LEMMA TypeStep == TypeInv /\ [Next]_vars => TypeInv'
<1> SUFFICES ASSUME TypeInv, [Next]_vars PROVE TypeInv'
  OBVIOUS
<1>1. CASE UNCHANGED vars
  BY <1>1 DEF vars, TypeInv, TypeOK
<1>2. CASE Next
  BY <1>2, HandlerTypes, DifyTypes DEF Next
<1>3. QED
  BY <1>1, <1>2

\* Every variable of Chat always has its type.
THEOREM TypeCorrect == Spec => []TypeOK
<1>1. TypeInv => TypeOK
  BY DEF TypeInv
<1>2. QED
  BY <1>1, TypeInit, TypeStep, PTL DEF Spec

-----------------------------------------------------------------------------
(* What the clients are told, and what requests hold *)

CallOK(k) == InOrder(k) /\ Heard(k) /\ Told(k) /\ Holding(k)

\* A step of call k leaves call j alone, but that it may stop its stream.
Spares(j) ==
    /\ op'[j] = op[j] /\ pc'[j] = pc[j] /\ reply'[j] = reply[j] /\ answer'[j] = answer[j]
    /\ j \in open' <=> j \in open
    /\ j \in conn' <=> j \in conn
    /\ dify'[j] = dify[j] \/ (dify[j] = "running" /\ dify'[j] = "done")

\* What held of a spared call holds.
LEMMA SparedIsOK ==
    ASSUME NEW j \in Calls, CallOK(j), Spares(j)
    PROVE  CallOK(j)'
BY DEF CallOK, InOrder, Heard, Told, Holding, Spares, Before

\* What is left to show of a step of call k.
LEMMA CallClose ==
    ASSUME CallInv, NEW k \in Calls, \A j \in Calls \ {k} : Spares(j), CallOK(k)'
    PROVE  CallInv'
<1>1. ASSUME NEW j \in Calls PROVE CallOK(j)'
  <2>1. CASE j = k
    BY <2>1
  <2>2. CASE j # k
    BY <2>2, SparedIsOK DEF CallInv, CallOK
  <2>3. QED
    BY <2>1, <2>2
<1>2. QED
  BY <1>1 DEF CallInv, CallOK

\* At the start nothing is asked, answered or held.
LEMMA CallInit == Init => CallInv
BY NoneAssumption DEF Init, CallInv, InOrder, Heard, Told, Holding, Replies, Answers, Before

\* The handler's step keeps the answers true and what it holds in order.
LEMMA HandlerKeeps ==
    ASSUME TypeInv, CallInv, NEW k \in Calls,
           HandlerStep(k) \/ Arrive(k) \/ RequestError(k) \/ Disconnect(k)
    PROVE  CallInv'
<1> USE DEF TypeInv, TypeOK, request, remote, client, Answer, Goto, At
<1>0. None \notin {"ok", "garbled", "misfit", "notfound", "200", "400", "401", "404", "500"}
  BY NoneAssumption DEF Replies, Answers
<1>1. InOrder(k) /\ Heard(k) /\ Told(k) /\ Holding(k)
  BY DEF CallInv
<1> USE DEF InOrder, Heard, Told, Holding, Before
<1>2. CASE Arrive(k)
  <2>1. PICK o \in Ops, j \in Calls \cup {None}, cached \in BOOLEAN : Start(k, o, j, cached)
    BY <1>2 DEF Arrive
  <2>2. Authenticated(o) \in {"profile", "call"}
    BY NamesAreNamed
  <2>3. CallOK(k)'
    BY <1>1, <2>1, <2>2 DEF Start, CallOK
  <2>4. \A i \in Calls \ {k} : Spares(i)
    BY <2>1 DEF Start, Spares
  <2>5. QED
    BY <2>3, <2>4, CallClose
<1>3. CASE Connect(k)
  <2>1. CallOK(k)'
    BY <1>1, <1>3 DEF Connect, CallOK, Waits
  <2>2. \A i \in Calls \ {k} : Spares(i)
    BY <1>3 DEF Connect, Spares
  <2>3. QED
    BY <2>1, <2>2, CallClose
<1>4. CASE PoolTimeout(k)
  <2>1. CallOK(k)'
    BY <1>1, <1>4 DEF PoolTimeout, CallOK, Waits
  <2>2. \A i \in Calls \ {k} : Spares(i)
    BY <1>4 DEF PoolTimeout, Spares
  <2>3. QED
    BY <2>1, <2>2, CallClose
<1>5. CASE AuthRow(k)
  <2>1. Authenticated(op[k]) \in {"profile", "call"}
    BY NamesAreNamed
  <2>2. CallOK(k)'
    BY <1>1, <1>5, <2>1 DEF AuthRow, CallOK
  <2>3. \A i \in Calls \ {k} : Spares(i)
    BY <1>5 DEF AuthRow, Spares
  <2>4. QED
    BY <2>2, <2>3, CallClose
<1>6. CASE ReadProfile(k)
  <2>1. CallOK(k)'
    BY <1>1, <1>6 DEF ReadProfile, CallOK
  <2>2. \A i \in Calls \ {k} : Spares(i)
    BY <1>6 DEF ReadProfile, Spares
  <2>3. QED
    BY <2>1, <2>2, CallClose
<1>7. CASE Reject(k)
  <2>1. CallOK(k)'
    BY <1>1, <1>7 DEF Reject, CallOK
  <2>2. \A i \in Calls \ {k} : Spares(i)
    BY <1>7 DEF Reject, Spares
  <2>3. QED
    BY <2>1, <2>2, CallClose
<1>8. CASE Call(k)
  <2>1. dify'[k] = IF op[k] = "cv" THEN "uploading" ELSE "asked"
    BY <1>8 DEF Call
  <2>2. CallOK(k)'
    BY <1>1, <1>8, <2>1, <1>0 DEF Call, CallOK
  <2>3. \A i \in Calls \ {k} : Spares(i)
    BY <1>8 DEF Call, Spares
  <2>4. QED
    BY <2>2, <2>3, CallClose
<1>9. CASE Receive(k)
  <2>1. /\ pc[k] = "await" /\ reply'[k] = None /\ answer[k] = None
        /\ UNCHANGED <<op, conn>>
        /\ \A j \in Calls \ {k} : reply'[j] = reply[j]
    BY <1>1, <1>9 DEF Receive
  <2>2. CASE op[k] = "chat"
    <3>1. CallOK(k)'
      BY <1>0, <1>1, <1>9, <2>1, <2>2 DEF Receive, CallOK
    <3>2. \A i \in Calls \ {k} : Spares(i)
      BY <1>9, <2>1, <2>2 DEF Receive, Spares
    <3>3. QED
      BY <3>1, <3>2, CallClose
  <2>3. CASE op[k] # "chat" /\ dify[k] = "uploaded" /\ reply[k] = "ok"
    <3>1. CallOK(k)'
      BY <1>0, <1>1, <1>9, <2>1, <2>3 DEF Receive, CallOK
    <3>2. \A i \in Calls \ {k} : Spares(i)
      BY <1>9, <2>1, <2>3 DEF Receive, Spares
    <3>3. QED
      BY <3>1, <3>2, CallClose
  <2>4. CASE op[k] # "chat" /\ ~(dify[k] = "uploaded" /\ reply[k] = "ok")
    <3> DEFINE a == Relay(op[k], reply[k])
    <3>1. /\ answer' = [answer EXCEPT ![k] = a] /\ pc' = [pc EXCEPT ![k] = "answer"]
          /\ open' = open \ {k} /\ dify' = dify
      BY <1>9, <2>4 DEF Receive
    <3>2. /\ a = "200" => dify[k] = "done"
          /\ a = "404" => dify[k] = "refused"
          /\ a \notin {"400", "401"}
          /\ a = "500" /\ op[k] # "cv" => dify[k] = "done"
      BY <1>1, <2>4, RelayAnswers
    <3> HIDE DEF a
    <3>3. CallOK(k)'
      BY <1>0, <1>1, <2>1, <3>1, <3>2 DEF CallOK
    <3>4. \A i \in Calls \ {k} : Spares(i)
      BY <2>1, <3>1 DEF Spares
    <3>5. QED
      BY <3>3, <3>4, CallClose
  <2>5. QED
    BY <2>2, <2>3, <2>4
<1>10. CASE RequestError(k)
  <2> DEFINE a == Relay(op[k], "lost")
  <2>1. \/ pc' = [pc EXCEPT ![k] = "error"] /\ UNCHANGED <<open, answer>>
        \/ /\ answer' = [answer EXCEPT ![k] = a] /\ pc' = [pc EXCEPT ![k] = "answer"]
           /\ open' = open \ {k}
    BY <1>10 DEF RequestError
  <2>2. a = "502"
    BY DEF Relay
  <2>3. UNCHANGED <<op, conn, dify, reply>> /\ pc[k] \in {"await", "stream"}
    BY <1>10 DEF RequestError
  <2> HIDE DEF a
  <2>4. CallOK(k)'
    BY <1>1, <2>1, <2>2, <2>3 DEF CallOK
  <2>5. \A i \in Calls \ {k} : Spares(i)
    BY <2>1, <2>3 DEF Spares
  <2>6. QED
    BY <2>4, <2>5, CallClose
<1>11. CASE StreamOpens(k)
  <2>1. CallOK(k)'
    BY <1>1, <1>11 DEF StreamOpens, CallOK
  <2>2. \A i \in Calls \ {k} : Spares(i)
    BY <1>11 DEF StreamOpens, Spares
  <2>3. QED
    BY <2>1, <2>2, CallClose
<1>12. CASE Forward(k)
  <2>1. /\ pc[k] = "stream" /\ (pc' = [pc EXCEPT ![k] = "error"] \/ pc' = pc)
        /\ UNCHANGED <<op, conn, open, dify, reply, answer>>
    BY <1>12 DEF Forward
  <2>2. CallOK(k)'
    BY <1>1, <2>1 DEF CallOK
  <2>3. \A i \in Calls \ {k} : Spares(i)
    BY <2>1 DEF Spares
  <2>4. QED
    BY <2>2, <2>3, CallClose
<1>13. CASE StreamEnds(k)
  <2>1. CallOK(k)'
    BY <1>1, <1>13 DEF StreamEnds, CallOK
  <2>2. \A i \in Calls \ {k} : Spares(i)
    BY <1>13 DEF StreamEnds, Spares
  <2>3. QED
    BY <2>1, <2>2, CallClose
<1>14. CASE SendError(k)
  <2>1. /\ pc[k] = "error" /\ pc' = [pc EXCEPT ![k] = "answer"]
        /\ answer' = [answer EXCEPT ![k] = "failed"] /\ open' = open \ {k}
        /\ UNCHANGED <<op, conn, dify, reply>>
    BY <1>14 DEF SendError
  <2>2. CallOK(k)'
    BY <1>1, <2>1 DEF CallOK
  <2>3. \A i \in Calls \ {k} : Spares(i)
    BY <2>1 DEF Spares
  <2>4. QED
    BY <2>2, <2>3, CallClose
<1>15. CASE Disconnect(k)
  <2>1. CallOK(k)'
    BY <1>1, <1>15 DEF Disconnect, CallOK
  <2>2. \A i \in Calls \ {k} : Spares(i)
    BY <1>15 DEF Disconnect, Spares
  <2>3. QED
    BY <2>1, <2>2, CallClose
<1>16. CASE Respond(k)
  <2>1. CallOK(k)'
    BY <1>1, <1>16 DEF Respond, CallOK
  <2>2. \A i \in Calls \ {k} : Spares(i)
    BY <1>16 DEF Respond, Spares
  <2>3. QED
    BY <2>1, <2>2, CallClose
<1>17. QED
  BY <1>2, <1>3, <1>4, <1>5, <1>6, <1>7, <1>8, <1>9, <1>10, <1>11, <1>12, <1>13, <1>14, <1>15,
     <1>16 DEF HandlerStep, DifyTimeout

\* So does Dify's: what it is heard to say of a call is what it does.
LEMMA DifyKeeps ==
    ASSUME TypeInv, CallInv, NEW k \in Calls, DifyStep(k)
    PROVE  CallInv'
<1> USE DEF request, remote, client
<1>1. InOrder(k) /\ Heard(k) /\ Told(k) /\ Holding(k)
  BY DEF CallInv
<1>2. /\ pc \in [Calls -> PCs] /\ dify \in [Calls -> Fates]
      /\ reply \in [Calls -> Replies \cup {None}]
  BY DEF TypeInv, TypeOK
<1> USE DEF InOrder, Heard, Told, Holding, Before
<1>3. CASE DifyDoes(k)
  <2>1. PICK what \in {"ok", "garbled", "misfit", "error", "failed"} : Hear(k, what)
    BY <1>3 DEF DifyDoes
  <2>2. /\ dify[k] = "asked" /\ dify'[k] = "done"
        /\ \A j \in Calls \ {k} :
             dify'[j] = dify[j] \/ (dify[j] = "running" /\ dify'[j] = "done")
    BY <1>3, DoesDoes DEF DifyDoes
  <2>3. reply'[k] \in {what, reply[k]} /\ \A j \in Calls \ {k} : reply'[j] = reply[j]
    BY <2>1, HearDoes DEF Replies
  <2>4. UNCHANGED <<op, pc, conn, open, answer>>
    BY <1>3 DEF DifyDoes
  <2>5. CallOK(k)'
    BY <1>1, <2>2, <2>3, <2>4 DEF CallOK
  <2>6. \A i \in Calls \ {k} : Spares(i)
    BY <2>2, <2>3, <2>4 DEF Spares
  <2>7. QED
    BY <2>5, <2>6, CallClose
<1>4. CASE DifyRefuses(k)
  <2>1. PICK what \in {"notfound", "error", "failed", "misfit"} :
          Hear(k, what) /\ (what = "misfit" => op[k] = "cv")
    BY <1>4 DEF DifyRefuses
  <2>2. /\ dify[k] \in {"asked", "uploading"} /\ dify'[k] = "refused"
        /\ \A j \in Calls \ {k} : dify'[j] = dify[j]
        /\ UNCHANGED <<op, pc, conn, open, answer>>
    BY <1>2, <1>4 DEF DifyRefuses
  <2>3. reply'[k] \in {what, reply[k]} /\ \A j \in Calls \ {k} : reply'[j] = reply[j]
    BY <2>1, HearDoes DEF Replies
  <2>4. CallOK(k)'
    <3>1. reply[k] \notin {"ok", "garbled", "misfit", "notfound"}
      BY <1>1, <2>2
    <3>2. /\ reply'[k] \notin {"ok", "garbled"}
          /\ reply'[k] = "misfit" => op[k] = "cv"
      BY <2>1, <2>3, <3>1
    <3>3. Heard(k)'
      BY <2>2, <3>2
    <3>4. (InOrder(k) /\ Told(k) /\ Holding(k))'
      BY <1>1, <2>2
    <3>5. QED
      BY <3>3, <3>4 DEF CallOK
  <2>5. \A i \in Calls \ {k} : Spares(i)
    BY <2>2, <2>3 DEF Spares
  <2>6. QED
    BY <2>4, <2>5, CallClose
<1>5. CASE DifyStoresFile(k)
  <2>1. PICK what \in {"ok", "garbled", "misfit", "error"} : Hear(k, what)
    BY <1>5 DEF DifyStoresFile
  <2>2. /\ dify[k] = "uploading" /\ dify'[k] = "uploaded"
        /\ \A j \in Calls \ {k} : dify'[j] = dify[j]
        /\ UNCHANGED <<op, pc, conn, open, answer>>
    BY <1>2, <1>5 DEF DifyStoresFile
  <2>3. reply'[k] \in {what, reply[k]} /\ \A j \in Calls \ {k} : reply'[j] = reply[j]
    BY <2>1, HearDoes DEF Replies
  <2>4. CallOK(k)'
    BY <1>1, <2>2, <2>3 DEF CallOK
  <2>5. \A i \in Calls \ {k} : Spares(i)
    BY <2>2, <2>3 DEF Spares
  <2>6. QED
    BY <2>4, <2>5, CallClose
<1>6. CASE DifyAccepts(k)
  <2>1. CallOK(k)'
    BY <1>1, <1>2, <1>6 DEF DifyAccepts, CallOK
  <2>2. \A i \in Calls \ {k} : Spares(i)
    BY <1>2, <1>6 DEF DifyAccepts, Spares
  <2>3. QED
    BY <2>1, <2>2, CallClose
<1>7. ASSUME NEW line, DifySends(k, line) PROVE CallInv'
  <2>1. UNCHANGED <<op, pc, conn, open, dify, reply, answer>>
    BY <1>7 DEF DifySends
  <2>2. CallOK(k)'
    BY <1>1, <2>1 DEF CallOK
  <2>3. \A i \in Calls \ {k} : Spares(i)
    BY <2>1 DEF Spares
  <2>4. QED
    BY <2>2, <2>3, CallClose
<1>8. CASE DifyEnds(k)
  <2>1. CallOK(k)'
    BY <1>1, <1>2, <1>8 DEF DifyEnds, CallOK
  <2>2. \A i \in Calls \ {k} : Spares(i)
    BY <1>2, <1>8 DEF DifyEnds, Spares
  <2>3. QED
    BY <2>1, <2>2, CallClose
<1>9. QED
  BY <1>3, <1>4, <1>5, <1>6, <1>7, <1>8 DEF DifyStep

\* Every step keeps the answers true and what requests hold in order.
LEMMA CallStep == TypeInv /\ CallInv /\ [Next]_vars => CallInv'
<1> SUFFICES ASSUME TypeInv, CallInv, [Next]_vars PROVE CallInv'
  OBVIOUS
<1>1. CASE UNCHANGED vars
  BY <1>1 DEF vars, CallInv, InOrder, Heard, Told, Holding
<1>2. CASE Next
  BY <1>2, HandlerKeeps, DifyKeeps DEF Next
<1>3. QED
  BY <1>1, <1>2

\* What a client is told of a call is what Dify made of it, though answers are lost, late
\* or unreadable.
THEOREM AnswersTellTheTruth == Spec => []AnswersAreTrue
<1>1. CallInv => AnswersAreTrue
  BY DEF CallInv, Told, AnswersAreTrue
<1>2. QED
  BY <1>1, TypeInit, TypeStep, CallInit, CallStep, PTL DEF Spec

\* A request that is over holds neither a connection nor an exchange with Dify, and one
\* that waits for a connection holds no exchange.
THEOREM NothingLeaks == Spec => []NothingIsLeaked
<1>1. CallInv => NothingIsLeaked
  BY DEF CallInv, Holding, NothingIsLeaked, At, Waits
<1>2. QED
  BY <1>1, TypeInit, TypeStep, CallInit, CallStep, PTL DEF Spec
-----------------------------------------------------------------------------
(* What a stream passes on *)

\* The handler has passed on the frames among the lines it has taken; s are the lines,
\* g the number taken, o the frames passed on, a the answer, d what Dify made of it.
Stream(s, g, o, a, d) ==
    /\ g <= Len(s)
    /\ a # "failed" => PassedOn(s, g, o, Len(o))
    /\ a = "failed" => Len(o) > 0 /\ o[Len(o)] = "error" /\ PassedOn(s, g, o, Len(o) - 1)
    /\ a = "complete" => d = "done" /\ g = Len(s)

StreamInv == \A k \in Calls : Stream(sent[k], got[k], out[k], answer[k], dify[k])

\* No frames among no lines.
LEMMA NothingPassed == ASSUME NEW s, NEW o PROVE PassedOn(s, 0, o, 0)
<1> DEFINE frames == {i \in 1..0 : IsFrame(s[i])}
           f == [i \in 1..0 |-> i]
<1>1. f \in [1..0 -> frames] /\ frames = {} /\ 1..0 = {}
  OBVIOUS
<1>2. QED
  BY <1>1 DEF PassedOn

\* What was passed on of the lines taken stays so when lines and frames are added.
LEMMA PassedStays ==
    ASSUME NEW s, NEW t, NEW g \in Nat, \A i \in 1..g : t[i] = s[i],
           NEW n \in Nat, NEW o, NEW p, \A i \in 1..n : p[i] = o[i],
           PassedOn(s, g, o, n)
    PROVE  PassedOn(t, g, p, n)
<1> DEFINE A == {i \in 1..g : IsFrame(s[i])}
           B == {i \in 1..g : IsFrame(t[i])}
<1>1. A = B
  OBVIOUS
<1>2. PICK f \in [1..n -> A] :
        /\ \A i, j \in 1..n : i < j => f[i] < f[j]
        /\ \A x \in A : \E i \in 1..n : f[i] = x
        /\ \A i \in 1..n : o[i] = s[f[i]]
  BY DEF PassedOn
<1>3. \A i \in 1..n : f[i] \in 1..g
  BY <1>2
<1>4. \A i \in 1..n : p[i] = t[f[i]]
  BY <1>2, <1>3
<1>5. f \in [1..n -> B] /\ \A x \in B : \E i \in 1..n : f[i] = x
  BY <1>1, <1>2
<1>6. QED
  BY <1>2, <1>4, <1>5 DEF PassedOn

\* A line that is no frame is taken and not passed on.
LEMMA PassedOver ==
    ASSUME NEW s, NEW g \in Nat, NEW n \in Nat, NEW o, PassedOn(s, g, o, n), ~IsFrame(s[g + 1])
    PROVE  PassedOn(s, g + 1, o, n)
<1>1. {i \in 1..g + 1 : IsFrame(s[i])} = {i \in 1..g : IsFrame(s[i])}
  OBVIOUS
<1>2. QED
  BY <1>1 DEF PassedOn

\* One that is a frame is passed on behind the others.
LEMMA PassedBehind ==
    ASSUME NEW s, NEW g \in Nat, NEW n \in Nat, NEW o, PassedOn(s, g, o, n), IsFrame(s[g + 1]),
           o[n + 1] = s[g + 1]
    PROVE  PassedOn(s, g + 1, o, n + 1)
<1> DEFINE A == {i \in 1..g : IsFrame(s[i])}
           B == {i \in 1..g + 1 : IsFrame(s[i])}
<1>1. PICK f \in [1..n -> A] :
        /\ \A i, j \in 1..n : i < j => f[i] < f[j]
        /\ \A x \in A : \E i \in 1..n : f[i] = x
        /\ \A i \in 1..n : o[i] = s[f[i]]
  BY DEF PassedOn
<1>2. B = A \cup {g + 1}
  OBVIOUS
<1> DEFINE h == [i \in 1..n + 1 |-> IF i = n + 1 THEN g + 1 ELSE f[i]]
<1>3. \A i \in 1..n : h[i] = f[i] /\ f[i] \in A
  OBVIOUS
<1>4. h[n + 1] = g + 1 /\ \A i \in 1..n + 1 : i = n + 1 \/ i \in 1..n
  OBVIOUS
<1>5. h \in [1..n + 1 -> B]
  BY <1>2, <1>3, <1>4
<1> HIDE DEF h
<1>6. \A i, j \in 1..n + 1 : i < j => h[i] < h[j]
  <2> SUFFICES ASSUME NEW i \in 1..n + 1, NEW j \in 1..n + 1, i < j PROVE h[i] < h[j]
    OBVIOUS
  <2>1. i \in 1..n
    BY <1>4
  <2>2. h[i] = f[i] /\ f[i] \in 1..g
    BY <1>3, <2>1
  <2>3. CASE j = n + 1
    BY <1>4, <2>2, <2>3
  <2>4. CASE j \in 1..n
    BY <1>1, <1>3, <2>1, <2>4
  <2>5. QED
    BY <1>4, <2>3, <2>4
<1>7. \A x \in B : \E i \in 1..n + 1 : h[i] = x
  <2> SUFFICES ASSUME NEW x \in B PROVE \E i \in 1..n + 1 : h[i] = x
    OBVIOUS
  <2>1. CASE x \in A
    <3>1. PICK i \in 1..n : f[i] = x
      BY <1>1, <2>1
    <3>2. i \in 1..n + 1 /\ h[i] = x
      BY <1>3, <3>1
    <3>3. QED
      BY <3>2
  <2>2. CASE x = g + 1
    BY <1>4, <2>2
  <2>3. QED
    BY <1>2, <2>1, <2>2
<1>8. \A i \in 1..n + 1 : o[i] = s[h[i]]
  <2> SUFFICES ASSUME NEW i \in 1..n + 1 PROVE o[i] = s[h[i]]
    OBVIOUS
  <2>1. CASE i = n + 1
    BY <1>4, <2>1
  <2>2. CASE i \in 1..n
    BY <1>1, <1>3, <2>2
  <2>3. QED
    BY <1>4, <2>1, <2>2
<1>9. QED
  BY <1>5, <1>6, <1>7, <1>8 DEF PassedOn

\* At the start no line has been taken.
LEMMA StreamInit == Init => StreamInv
<1> SUFFICES ASSUME Init, NEW k \in Calls PROVE Stream(sent[k], got[k], out[k], answer[k], dify[k])
  BY DEF StreamInv
<1>1. sent[k] = <<>> /\ got[k] = 0 /\ out[k] = <<>> /\ answer[k] = None
  BY DEF Init
<1>2. None # "failed" /\ None # "complete"
  BY NoneAssumption DEF Answers
<1>3. PassedOn(sent[k], 0, out[k], 0)
  BY NothingPassed
<1>4. QED
  BY <1>1, <1>2, <1>3 DEF Stream

\* A step that takes nothing of j's stream and neither completes nor fails it; Dify does
\* not take back that it is done, and adds a line only while it is not.
Untouched(j) ==
    /\ got'[j] = got[j] /\ out'[j] = out[j]
    /\ answer'[j] = answer[j] \/ (answer[j] # "failed" /\ answer'[j] \notin {"failed", "complete"})
    /\ dify'[j] = dify[j] \/ dify'[j] = "done" \/ answer'[j] # "complete"
    /\ \/ sent'[j] = sent[j]
       \/ dify[j] # "done" /\ \E line : sent'[j] = Append(sent[j], line)

\* What held of an untouched stream holds.
LEMMA UntouchedStream ==
    ASSUME TypeInv, NEW j \in Calls, Untouched(j),
           Stream(sent[j], got[j], out[j], answer[j], dify[j])
    PROVE  Stream(sent'[j], got'[j], out'[j], answer'[j], dify'[j])
<1>0. /\ sent[j] \in Seq(LineKinds) /\ out[j] \in Seq(Frames) /\ got[j] \in Nat
      /\ Len(sent[j]) \in Nat /\ Len(out[j]) \in Nat
  BY ChatAssumption DEF TypeInv, TypeOK
<1>1. got[j] <= Len(sent[j])
  BY DEF Stream
<1>2. got[j] <= Len(sent'[j]) /\ \A i \in 1..got[j] : sent'[j][i] = sent[j][i]
  <2>1. CASE sent'[j] = sent[j]
    BY <1>1, <2>1
  <2>2. ASSUME NEW line, sent'[j] = Append(sent[j], line)
        PROVE  Len(sent'[j]) = Len(sent[j]) + 1 /\ \A i \in 1..got[j] : sent'[j][i] = sent[j][i]
    BY <1>0, <1>1, <2>2
  <2>3. QED
    BY <1>0, <1>1, <2>1, <2>2 DEF Untouched
<1>3. \A n \in Nat : PassedOn(sent[j], got[j], out[j], n) => PassedOn(sent'[j], got[j], out[j], n)
  BY <1>0, <1>2, PassedStays
<1>4. CASE answer'[j] = "failed"
  <2>1. answer[j] = "failed"
    BY <1>4 DEF Untouched
  <2>2. /\ Len(out[j]) > 0 /\ out[j][Len(out[j])] = "error"
        /\ PassedOn(sent[j], got[j], out[j], Len(out[j]) - 1)
    BY <2>1 DEF Stream
  <2>3. Len(out[j]) - 1 \in Nat
    BY <1>0, <2>2
  <2>4. PassedOn(sent'[j], got[j], out[j], Len(out[j]) - 1)
    BY <1>3, <2>2, <2>3
  <2>5. QED
    BY <1>2, <1>4, <2>2, <2>4 DEF Stream, Untouched
<1>5. CASE answer'[j] # "failed"
  <2>1. PassedOn(sent[j], got[j], out[j], Len(out[j]))
    BY <1>5 DEF Stream, Untouched
  <2>2. PassedOn(sent'[j], got[j], out[j], Len(out[j]))
    BY <1>0, <1>3, <2>1
  <2>3. answer'[j] = "complete" => dify'[j] = "done" /\ got[j] = Len(sent'[j])
    BY DEF Stream, Untouched
  <2>4. QED
    BY <1>2, <1>5, <2>2, <2>3 DEF Stream, Untouched
<1>6. QED
  BY <1>4, <1>5

\* What is left to show of a step of call k.
LEMMA StreamClose ==
    ASSUME TypeInv, StreamInv, NEW k \in Calls, \A j \in Calls \ {k} : Untouched(j),
           Stream(sent'[k], got'[k], out'[k], answer'[k], dify'[k]) \/ Untouched(k)
    PROVE  StreamInv'
<1>1. ASSUME NEW j \in Calls PROVE Stream(sent[j], got[j], out[j], answer[j], dify[j])'
  <2>1. Stream(sent'[j], got'[j], out'[j], answer'[j], dify'[j])
    BY UntouchedStream DEF StreamInv
  <2>2. QED
    BY <2>1 DEF Stream, PassedOn, IsFrame
<1>2. QED
  BY <1>1 DEF StreamInv

\* A status is neither the end nor the failure of a stream.
LEMMA RelayIsStatus == \A o, what : Relay(o, what) \notin {"failed", "complete"}
BY DEF Relay

\* Steps of a handler that take no line and end no stream.
LEMMA HandlerSpares ==
    ASSUME TypeInv, CallInv, NEW k \in Calls,
           \/ Arrive(k) \/ Connect(k) \/ PoolTimeout(k) \/ AuthRow(k) \/ ReadProfile(k)
           \/ Reject(k) \/ Call(k) \/ Receive(k) \/ RequestError(k) \/ StreamOpens(k)
           \/ Disconnect(k) \/ Respond(k)
    PROVE  \A j \in Calls : Untouched(j)
<1>1. /\ answer \in [Calls -> Answers \cup {None}] /\ dify \in [Calls -> Fates]
      /\ pc[k] \notin {"answer", "over"} => answer[k] = None
      /\ None \notin {"failed", "complete"}
  BY NoneAssumption DEF TypeInv, TypeOK, CallInv, InOrder, Answers
<1> USE DEF Untouched, request, remote, client, Answer, Goto, At
<1>2. CASE Arrive(k)
  BY <1>2 DEF Arrive, Start
<1>3. CASE Connect(k) \/ ReadProfile(k) \/ StreamOpens(k) \/ Respond(k)
  BY <1>3 DEF Connect, ReadProfile, StreamOpens, Respond
<1>4. CASE PoolTimeout(k)
  BY <1>1, <1>4 DEF PoolTimeout, Waits
<1>5. CASE AuthRow(k)
  BY <1>1, <1>5 DEF AuthRow
<1>6. CASE Reject(k)
  BY <1>1, <1>6 DEF Reject
<1>7. CASE Call(k)
  BY <1>1, <1>7 DEF Call
<1>8. CASE Receive(k)
  <2> DEFINE a == Relay(op[k], reply[k])
  <2>1. a \notin {"failed", "complete"} /\ answer[k] = None
    BY <1>1, <1>8, RelayIsStatus DEF Receive
  <2>2. /\ answer' = answer \/ answer' = [answer EXCEPT ![k] = a]
        /\ dify' = dify \/ (dify' = [dify EXCEPT ![k] = "asked"] /\ answer' = answer)
        /\ UNCHANGED <<got, out, sent>>
    BY <1>8 DEF Receive
  <2> HIDE DEF a
  <2>3. QED
    BY <1>1, <2>1, <2>2
<1>9. CASE RequestError(k)
  <2> DEFINE a == Relay(op[k], "lost")
  <2>1. a \notin {"failed", "complete"} /\ answer[k] = None
    BY <1>1, <1>9, RelayIsStatus DEF RequestError
  <2>2. /\ answer' = answer \/ answer' = [answer EXCEPT ![k] = a]
        /\ UNCHANGED <<got, out, sent, dify>>
    BY <1>9 DEF RequestError
  <2> HIDE DEF a
  <2>3. QED
    BY <1>1, <2>1, <2>2
<1>10. CASE Disconnect(k)
  BY <1>1, <1>10 DEF Disconnect
<1>11. QED
  BY <1>2, <1>3, <1>4, <1>5, <1>6, <1>7, <1>8, <1>9, <1>10

\* Dify's steps: it adds a line only while it runs, and what is complete was done.
LEMMA DifySpares ==
    ASSUME TypeInv, StreamInv, NEW k \in Calls, DifyStep(k)
    PROVE  \A j \in Calls : Untouched(j)
<1>1. /\ dify \in [Calls -> Fates] /\ sent \in [Calls -> Seq(LineKinds)]
      /\ answer[k] = "complete" => dify[k] = "done"
  BY DEF TypeInv, TypeOK, StreamInv, Stream
<1> USE DEF Untouched, request, remote, client
<1>2. CASE DifyDoes(k)
  <2>1. \A j \in Calls : dify'[j] = dify[j] \/ dify'[j] = "done"
    BY <1>2, DoesDoes DEF DifyDoes
  <2>2. UNCHANGED <<got, out, sent, answer>>
    BY <1>2 DEF DifyDoes
  <2>3. QED
    BY <2>1, <2>2
<1>3. CASE DifyRefuses(k)
  BY <1>1, <1>3 DEF DifyRefuses
<1>4. CASE DifyStoresFile(k)
  BY <1>1, <1>4 DEF DifyStoresFile
<1>5. CASE DifyAccepts(k)
  BY <1>1, <1>5 DEF DifyAccepts
<1>6. ASSUME NEW line \in LineKinds, DifySends(k, line) PROVE \A j \in Calls : Untouched(j)
  <2> DEFINE lines == Append(sent[k], line)
  <2>1. /\ sent' = [sent EXCEPT ![k] = lines] /\ dify[k] = "running"
        /\ UNCHANGED <<got, out, answer, dify>>
    BY <1>6 DEF DifySends
  <2>2. \A j \in Calls \ {k} : sent'[j] = sent[j]
    BY <1>1, <2>1
  <2>3. \E l : sent'[k] = Append(sent[k], l)
    BY <1>1, <2>1
  <2> HIDE DEF lines
  <2>4. QED
    BY <2>1, <2>2, <2>3
<1>7. CASE DifyEnds(k)
  BY <1>1, <1>7 DEF DifyEnds
<1>8. QED
  BY <1>2, <1>3, <1>4, <1>5, <1>6, <1>7 DEF DifyStep

\* A line is taken, and passed on if it is a frame.
LEMMA StreamForward ==
    ASSUME TypeInv, CallInv, StreamInv, NEW k \in Calls, Forward(k) PROVE StreamInv'
<1> DEFINE g    == got[k]
           n    == Len(out[k])
           line == sent[k][g + 1]
<1>1. /\ sent[k] \in Seq(LineKinds) /\ out[k] \in Seq(Frames) /\ g \in Nat /\ n \in Nat
      /\ Len(sent[k]) \in Nat /\ g < Len(sent[k])
  BY ChatAssumption DEF TypeInv, TypeOK, Forward
<1>2. /\ got' = [got EXCEPT ![k] = g + 1]
      /\ out' = [out EXCEPT ![k] = IF IsFrame(line) THEN Append(out[k], line) ELSE out[k]]
      /\ UNCHANGED <<sent, answer, dify>>
  BY DEF Forward, remote
<1>3. answer[k] = None /\ None # "failed" /\ None # "complete"
  BY NoneAssumption DEF Forward, At, CallInv, InOrder, Answers
<1>4. PassedOn(sent[k], g, out[k], n)
  BY <1>3 DEF StreamInv, Stream
<1>5. \A j \in Calls \ {k} : Untouched(j)
  BY <1>2 DEF Untouched, TypeInv, TypeOK
<1>6. got'[k] = g + 1 /\ out'[k] = IF IsFrame(line) THEN Append(out[k], line) ELSE out[k]
  BY <1>2 DEF TypeInv, TypeOK
<1>7. PassedOn(sent[k], g + 1, out'[k], Len(out'[k]))
  <2>1. CASE ~IsFrame(line)
    BY <1>1, <1>4, <1>6, <2>1, PassedOver
  <2>2. CASE IsFrame(line)
    <3> DEFINE o == Append(out[k], line)
    <3>1. Len(o) = n + 1 /\ o[n + 1] = line /\ \A i \in 1..n : o[i] = out[k][i]
      BY <1>1
    <3> HIDE DEF o
    <3>2. PassedOn(sent[k], g, o, n)
      <4>1. g \in Nat /\ n \in Nat /\ \A i \in 1..n : o[i] = out[k][i]
        BY <1>1, <3>1
      <4> HIDE DEF g, n
      <4>2. QED
        BY <1>4, <4>1, PassedStays
    <3>3. PassedOn(sent[k], g + 1, o, n + 1)
      BY <1>1, <2>2, <3>1, <3>2, PassedBehind
    <3>4. QED
      BY <1>6, <2>2, <3>1, <3>3 DEF o
  <2>3. QED
    BY <2>1, <2>2
<1>8. g + 1 <= Len(sent[k])
  BY <1>1
<1>9. Stream(sent'[k], got'[k], out'[k], answer'[k], dify'[k])
  BY <1>2, <1>3, <1>6, <1>7, <1>8 DEF Stream
<1>10. QED
  BY <1>5, <1>9, StreamClose

\* A stream is complete when all of it has been taken.
LEMMA StreamCompletes ==
    ASSUME TypeInv, CallInv, StreamInv, NEW k \in Calls, StreamEnds(k) PROVE StreamInv'
<1>1. /\ answer' = [answer EXCEPT ![k] = "complete"] /\ answer[k] = None
      /\ UNCHANGED <<sent, got, out, dify>> /\ dify[k] = "done" /\ got[k] = Len(sent[k])
  BY DEF StreamEnds, Answer, remote, client, At, CallInv, InOrder
<1>2. answer'[k] = "complete" /\ \A j \in Calls \ {k} : answer'[j] = answer[j]
  BY <1>1 DEF TypeInv, TypeOK
<1>3. None # "failed"
  BY NoneAssumption DEF Answers
<1>4. Stream(sent'[k], got'[k], out'[k], answer'[k], dify'[k])
  BY <1>1, <1>2, <1>3 DEF StreamInv, Stream
<1>5. \A j \in Calls \ {k} : Untouched(j)
  BY <1>1, <1>2 DEF Untouched
<1>6. QED
  BY <1>4, <1>5, StreamClose

\* The error frame comes behind what was passed on.
LEMMA StreamFails ==
    ASSUME TypeInv, CallInv, StreamInv, NEW k \in Calls, SendError(k) PROVE StreamInv'
<1> DEFINE n == Len(out[k])
           o == Append(out[k], "error")
<1>1. /\ answer' = [answer EXCEPT ![k] = "failed"] /\ out' = [out EXCEPT ![k] = o]
      /\ UNCHANGED <<sent, got, dify>> /\ answer[k] = None
  BY DEF SendError, Answer, remote, At, CallInv, InOrder
<1>2. /\ answer'[k] = "failed" /\ out'[k] = o
      /\ \A j \in Calls \ {k} : answer'[j] = answer[j] /\ out'[j] = out[j]
  BY <1>1 DEF TypeInv, TypeOK
<1>3. None # "failed"
  BY NoneAssumption DEF Answers
<1>4. out[k] \in Seq(Frames) /\ n \in Nat /\ got[k] \in Nat
  BY ChatAssumption DEF TypeInv, TypeOK
<1>5. Len(o) = n + 1 /\ o[n + 1] = "error" /\ \A i \in 1..n : o[i] = out[k][i]
  BY <1>4
<1> HIDE DEF o
<1>6. PassedOn(sent[k], got[k], out[k], n) /\ got[k] <= Len(sent[k])
  BY <1>1, <1>3 DEF StreamInv, Stream
<1>7. PassedOn(sent[k], got[k], o, n)
  BY <1>4, <1>5, <1>6, PassedStays
<1>8. Len(o) > 0 /\ Len(o) - 1 = n
  BY <1>4, <1>5
<1>9. Stream(sent'[k], got'[k], out'[k], answer'[k], dify'[k])
  BY <1>1, <1>2, <1>5, <1>6, <1>7, <1>8 DEF Stream
<1>10. \A j \in Calls \ {k} : Untouched(j)
  BY <1>1, <1>2 DEF Untouched
<1>11. QED
  BY <1>9, <1>10, StreamClose

\* Every step keeps the streams faithful.
LEMMA StreamStep == TypeInv /\ CallInv /\ StreamInv /\ [Next]_vars => StreamInv'
<1> SUFFICES ASSUME TypeInv, CallInv, StreamInv, [Next]_vars PROVE StreamInv'
  OBVIOUS
<1>1. CASE UNCHANGED vars
  BY <1>1 DEF vars, StreamInv, Stream, PassedOn, IsFrame
<1>2. ASSUME NEW k \in Calls, \A j \in Calls : Untouched(j) PROVE StreamInv'
  BY <1>2, StreamClose
<1>3. CASE Next
  <2>1. PICK k \in Calls : Arrive(k) \/ HandlerStep(k) \/ DifyStep(k) \/ RequestError(k) \/ Disconnect(k)
    BY <1>3 DEF Next
  <2>2. CASE DifyStep(k)
    BY <1>2, <2>2, DifySpares
  <2>3. CASE Forward(k) \/ StreamEnds(k) \/ SendError(k)
    BY <2>3, StreamForward, StreamCompletes, StreamFails
  <2>4. CASE ~DifyStep(k) /\ ~(Forward(k) \/ StreamEnds(k) \/ SendError(k))
    <3>1. \A j \in Calls : Untouched(j)
      BY <2>1, <2>4, HandlerSpares DEF HandlerStep, DifyTimeout
    <3>2. QED
      BY <1>2, <3>1
  <2>5. QED
    BY <2>2, <2>3, <2>4
<1>4. QED
  BY <1>1, <1>3

\* A client sees the frames Dify sent, in order and without a gap, then perhaps one error
\* frame; a stream that is complete is the whole of what Dify sent.
THEOREM StreamsAreFaithful == Spec => []FramesAreFaithful
<1>1. ASSUME TypeInv, StreamInv PROVE FramesAreFaithful
  <2> SUFFICES ASSUME NEW k \in Calls
               PROVE  \E g \in 0..Len(sent[k]) :
                        /\ IF answer[k] = "failed"
                             THEN /\ Len(out[k]) > 0 /\ out[k][Len(out[k])] = "error"
                                  /\ PassedOn(sent[k], g, out[k], Len(out[k]) - 1)
                             ELSE PassedOn(sent[k], g, out[k], Len(out[k]))
                        /\ answer[k] = "complete" => dify[k] = "done" /\ g = Len(sent[k])
    BY DEF FramesAreFaithful
  <2>1. Stream(sent[k], got[k], out[k], answer[k], dify[k])
    BY <1>1 DEF StreamInv
  <2>2. sent[k] \in Seq(LineKinds) /\ got[k] \in Nat
    BY <1>1, ChatAssumption DEF TypeInv, TypeOK
  <2>3. got[k] \in 0..Len(sent[k])
    BY <2>1, <2>2 DEF Stream
  <2> WITNESS got[k] \in 0..Len(sent[k])
  <2>4. QED
    BY <2>1 DEF Stream
<1>2. QED
  BY <1>1, TypeInit, TypeStep, CallInit, CallStep, StreamInit, StreamStep, PTL DEF Spec
=============================================================================
