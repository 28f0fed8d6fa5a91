---------------------------- MODULE Bench_proofs ----------------------------
(* The parts of bench/ that measure, for any number of requests, commands, *)
(* arms and sources.  They share no state and are proved one by one.       *)
EXTENDS BenchSweep, GoldenFixture, SitterRungs, RdpClient, RedState, FetchRecipe, GoldenScore,
        StallProbe, SitterInstall, FiniteSetTheorems, SequenceTheorems, WellFoundedInduction, TLAPS

-----------------------------------------------------------------------------
(* RdpClient: a reply carries nothing that names its request, yet no call  *)
(* is handed the packet of another, as at most one reply is ever           *)
(* outstanding on a connection that is open.                               *)

Steps == {"getProcess", "getTarget", "evaluate", "result", "idle"}
Asking == {"getProcess", "getTarget", "evaluate"}
Actors == {"root", "descriptor", "console"}
Kinds == {"reply", "error", "evaluationResult", "consoleAPICall"}
Packet == [from : Actors, kind : Kinds, of : Nat]
Answering(p) == p.kind \in {"reply", "error"}

SessionTypeOK ==
  /\ socket \in {"fresh", "open", "poisoned", "closed"}
  /\ attached \in BOOLEAN
  /\ wire \in Seq(Packet) /\ pending \subseteq Packet
  /\ unanswered \subseteq [to : Actors, of : Nat] /\ evaluating \subseteq Nat
  /\ sent \in 0..Requests
  /\ call \in [step : Steps, id : 0..Requests]
  /\ call.step # "idle" => call.id \in 1..Requests
  /\ answers \in [1..Requests -> SUBSET Nat]

(* While the connection is open, what the server has not answered is the   *)
(* request of the call on the stack.                                       *)
OneAsked == socket = "open" => \A u \in unanswered : u.of = call.id /\ call.step \in Asking
(* And so is the one reply on the way, which leaves nothing to answer.     *)
OneReply ==
  socket = "open" =>
    \A i \in 1..Len(wire) : Answering(wire[i]) =>
      /\ wire[i].of = call.id /\ call.step \in Asking /\ unanswered = {}
      /\ \A j \in 1..Len(wire) : Answering(wire[j]) => j = i
OneOfEach == \A u, v \in unanswered : socket = "open" => u = v
NothingBefore == socket # "open" => call.step = "idle"

SessionInv == SessionTypeOK /\ OneAsked /\ OneReply /\ OneOfEach /\ NothingBefore /\ OwnAnswers

(* A new client has no connection and no call.                             *)
LEMMA SessionStarts == RdpInit => SessionInv
<1>. SUFFICES ASSUME RdpInit PROVE SessionInv
  OBVIOUS
<1>. USE DEF RdpInit, Idle
<1>1. SessionTypeOK
  <2>1. answers \in [1..Requests -> SUBSET Nat]
    OBVIOUS
  <2>2. call \in [step : Steps, id : 0..Requests] /\ sent \in 0..Requests
    BY RequestsAssumption DEF Steps
  <2>3. wire \in Seq(Packet)
    OBVIOUS
  <2>4. attached \in BOOLEAN /\ pending \subseteq Packet /\ unanswered \subseteq [to : Actors, of : Nat] /\ evaluating \subseteq Nat
    OBVIOUS
  <2>5. call.step = "idle" /\ socket \in {"fresh", "open", "poisoned", "closed"}
    OBVIOUS
  <2>. QED BY <2>1, <2>2, <2>3, <2>4, <2>5 DEF SessionTypeOK
<1>2. OneAsked /\ OneReply /\ OneOfEach /\ NothingBefore /\ OwnAnswers
  BY DEF OneAsked, OneReply, OneOfEach, NothingBefore, OwnAnswers
<1>. QED BY <1>1, <1>2 DEF SessionInv

(* What is left on the wire behind its first packet.                       *)
LEMMA Behind ==
  ASSUME wire \in Seq(Packet), wire # <<>>
  PROVE  /\ Tail(wire) \in Seq(Packet) /\ Len(Tail(wire)) = Len(wire) - 1
         /\ Head(wire) = wire[1] /\ Head(wire) \in Packet /\ 1 \in 1..Len(wire)
         /\ \A i \in 1..Len(Tail(wire)) : Tail(wire)[i] = wire[i + 1] /\ i + 1 \in 1..Len(wire)
OBVIOUS

(* What is on the wire once the server has sent one packet more.           *)
LEMMA Ahead ==
  ASSUME wire \in Seq(Packet), NEW p \in Packet
  PROVE  /\ Append(wire, p) \in Seq(Packet) /\ Len(Append(wire, p)) = Len(wire) + 1
         /\ Append(wire, p)[Len(wire) + 1] = p
         /\ \A i \in 1..Len(wire) : Append(wire, p)[i] = wire[i]
OBVIOUS

(* The parts that speak of the wire, after a step that takes its first     *)
(* packet and asks nothing.                                                *)
LEMMA TakenOff ==
  ASSUME SessionInv, socket = "open", wire # <<>>, wire' = Tail(wire), call.step # "idle",
         socket' = socket, unanswered' = unanswered,
         \/ call' = call /\ call.step \in Asking
         \/ unanswered = {} /\ \A i \in 1..Len(wire) : Answering(wire[i]) => i = 1
  PROVE  wire' \in Seq(Packet) /\ OneAsked' /\ OneReply' /\ OneOfEach'
<1>. USE DEF SessionInv, SessionTypeOK
<1>1. /\ wire' \in Seq(Packet) /\ Len(wire') = Len(wire) - 1 /\ Len(wire) \in Nat
      /\ \A i \in 1..Len(wire') : wire'[i] = wire[i + 1] /\ i + 1 \in 1..Len(wire)
  BY Behind
<1>2. OneReply'
  <2>1. CASE call' = call /\ call.step \in Asking
    BY <1>1, <2>1 DEF OneReply
  <2>2. CASE \A i \in 1..Len(wire) : Answering(wire[i]) => i = 1
    <3>1. \A i \in 1..Len(wire') : ~ Answering(wire'[i])
      BY <1>1, <2>2
    <3>. QED BY <3>1 DEF OneReply
  <2>. QED BY <2>1, <2>2
<1>3. OneAsked' /\ OneOfEach'
  BY DEF OneAsked, OneOfEach
<1>. QED BY <1>1, <1>2, <1>3

(* A request is sent when nothing is outstanding; then it is all that is.  *)
LEMMA AskedNow ==
  ASSUME SessionInv, NEW s \in Asking, Send(s), unanswered = {},
         wire' \in Seq(Packet), \A i \in 1..Len(wire') : ~ Answering(wire'[i]),
         attached' \in BOOLEAN, socket' = socket, pending' \subseteq Packet,
         answers' \in [1..Requests -> SUBSET Nat], OwnAnswers'
  PROVE  SessionInv'
<1>1. sent \in 0..Requests /\ sent < Requests /\ sent' = sent + 1 /\ call' = [step |-> s, id |-> sent + 1]
  BY DEF SessionInv, SessionTypeOK, Send
<1>2. sent' \in 0..Requests /\ call' \in [step : Steps, id : 0..Requests] /\ call'.id \in 1..Requests
      /\ call'.id = sent + 1 /\ call'.step = s
  BY <1>1, RequestsAssumption DEF Asking, Steps
<1>3. unanswered' = {[to |-> Addressed(s), of |-> sent + 1]}
  BY DEF Send
<1>4. Addressed(s) \in Actors
  BY DEF Asking, Addressed, Actors
<1>5. SessionTypeOK'
  <2>1. evaluating' \subseteq Nat
    <3>1. evaluating \subseteq Nat
      BY DEF SessionInv, SessionTypeOK
    <3>2. sent + 1 \in Nat
      BY <1>1
    <3>3. evaluating' = evaluating \union (IF s = "evaluate" THEN {sent + 1} ELSE {})
      BY DEF Send
    <3>. QED BY <3>1, <3>2, <3>3
  <2>2. unanswered' \subseteq [to : Actors, of : Nat]
    BY <1>1, <1>3, <1>4
  <2>. QED BY <1>2, <2>1, <2>2 DEF SessionInv, SessionTypeOK
<1>6. OneAsked' /\ OneReply' /\ OneOfEach' /\ NothingBefore'
  BY <1>2, <1>3 DEF OneAsked, OneReply, OneOfEach, NothingBefore, Send
<1>. QED BY <1>5, <1>6 DEF SessionInv

(* connect() and eval_js(): a connection starts with nothing outstanding,  *)
(* and a call starts when nothing is.                                      *)
LEMMA CallStarts == ASSUME SessionInv, Connect \/ Eval PROVE SessionInv'
<1>1. CASE Connect
  <2>1. call.step = "idle"
    BY <1>1 DEF Connect, Idle
  <2>2. SessionTypeOK'
    <3>0. wire' = <<>>
      BY <1>1 DEF Connect
    <3>1. wire' \in Seq(Packet)
      BY <3>0
    <3>4. socket' \in {"fresh", "open", "poisoned", "closed"} /\ attached' \in BOOLEAN
      BY <1>1 DEF Connect
    <3>2. pending' \subseteq Packet /\ unanswered' \subseteq [to : Actors, of : Nat] /\ evaluating' \subseteq Nat
      BY <1>1 DEF Connect
    <3>3. call' = call /\ sent' = sent /\ answers' = answers
      BY <1>1 DEF Connect
    <3>. QED BY <3>1, <3>2, <3>3, <3>4 DEF SessionInv, SessionTypeOK
  <2>3. OneAsked' /\ OneReply' /\ OneOfEach' /\ NothingBefore' /\ OwnAnswers'
    BY <1>1, <2>1 DEF Connect, SessionInv, OneAsked, OneReply, OneOfEach, NothingBefore, OwnAnswers
  <2>. QED BY <2>2, <2>3 DEF SessionInv
<1>2. CASE Eval
  <2>1. call.step = "idle" /\ socket = "open"
    BY <1>2 DEF Eval, Idle, Send
  <2>2. unanswered = {} /\ \A i \in 1..Len(wire) : ~ Answering(wire[i])
    BY <2>1 DEF SessionInv, OneAsked, OneReply, Asking
  <2>3. PICK s \in Asking : Send(s)
    BY <1>2 DEF Eval, Asking
  <2>4. /\ wire' = wire /\ attached' = attached /\ socket' = socket /\ pending' = pending /\ answers' = answers
    BY <1>2 DEF Eval, Send
  <2>5. /\ wire' \in Seq(Packet) /\ attached' \in BOOLEAN /\ pending' \subseteq Packet
        /\ answers' \in [1..Requests -> SUBSET Nat] /\ OwnAnswers'
    BY <2>4 DEF SessionInv, SessionTypeOK, OwnAnswers
  <2>. QED BY <2>2, <2>3, <2>4, <2>5, AskedNow
<1>. QED BY <1>1, <1>2

(* What request() and wait_for_event() record of their answer.             *)
LEMMA Recorded ==
  ASSUME SessionInv, call.id \in 1..Requests, NEW p, p.of = call.id, Answered(p)
  PROVE  answers' \in [1..Requests -> SUBSET Nat] /\ OwnAnswers'
BY DEF SessionInv, SessionTypeOK, OwnAnswers, Answered

(* request(): a packet that is no answer is kept; an answer is of the      *)
(* request it was asked for, and leaves nothing outstanding.               *)
LEMMA RequestKeeps == ASSUME SessionInv, Request PROVE SessionInv'
<1>. DEFINE p == Head(wire)
<1>1. /\ socket = "open" /\ socket' = socket /\ call.step \in Asking /\ wire # <<>> /\ wire' = Tail(wire)
      /\ call.id \in 1..Requests /\ wire \in Seq(Packet) /\ call.step # "idle"
  BY DEF Request, Asking, SessionInv, SessionTypeOK
<1>2. p \in Packet /\ p = wire[1] /\ 1 \in 1..Len(wire)
  BY <1>1, Behind
<1>3. CASE ~ IsReply(p, Addressed(call.step))
  <2>1. /\ pending' = pending \union {p} /\ attached' = attached /\ unanswered' = unanswered
        /\ evaluating' = evaluating /\ sent' = sent /\ call' = call /\ answers' = answers
    BY <1>3 DEF Request
  <2>2. wire' \in Seq(Packet) /\ OneAsked' /\ OneReply' /\ OneOfEach'
    BY <1>1, <2>1, TakenOff
  <2>3. SessionTypeOK' /\ NothingBefore' /\ OwnAnswers'
    BY <1>1, <1>2, <2>1, <2>2 DEF SessionInv, SessionTypeOK, NothingBefore, OwnAnswers
  <2>. QED BY <2>2, <2>3 DEF SessionInv
<1>4. CASE IsReply(p, Addressed(call.step))
  <2>1. Answered(p) /\ GotReply(p) /\ pending' = pending
    BY <1>4 DEF Request
  <2>2. /\ p.of = call.id /\ unanswered = {} /\ Answering(p)
        /\ \A i \in 1..Len(wire) : Answering(wire[i]) => i = 1
    BY <1>1, <1>2, <1>4 DEF IsReply, Answering, SessionInv, OneReply
  <2>3. answers' \in [1..Requests -> SUBSET Nat] /\ OwnAnswers'
    BY <1>1, <2>1, <2>2, Recorded
  <2>4. CASE Send("getTarget") /\ attached' = attached
    <3>1. wire' \in Seq(Packet) /\ \A i \in 1..Len(wire') : ~ Answering(wire'[i])
      BY <1>1, <2>2, Behind
    <3>2. "getTarget" \in Asking /\ attached' \in BOOLEAN /\ pending' \subseteq Packet
      BY <2>1, <2>4 DEF Asking, SessionInv, SessionTypeOK
    <3>. QED BY <1>1, <2>2, <2>3, <2>4, <3>1, <3>2, AskedNow
  <2>5. CASE /\ unanswered' = unanswered /\ evaluating' = evaluating /\ sent' = sent
             /\ attached' \in BOOLEAN
             /\ call' = Idle \/ call' = [call EXCEPT !.step = "result"]
    <3>1. wire' \in Seq(Packet) /\ OneAsked' /\ OneReply' /\ OneOfEach'
      BY <1>1, <2>2, <2>5, TakenOff
    <3>2. call' \in [step : Steps, id : 0..Requests] /\ (call'.step # "idle" => call'.id \in 1..Requests)
      <4>1. CASE call' = Idle
        BY <4>1, RequestsAssumption DEF Steps, Idle
      <4>2. CASE call' = [call EXCEPT !.step = "result"]
        <5>1. call \in [step : Steps, id : 0..Requests]
          BY DEF SessionInv, SessionTypeOK
        <5>. QED BY <1>1, <4>2, <5>1 DEF Steps
      <4>. QED BY <2>5, <4>1, <4>2
    <3>3. SessionTypeOK'
      BY <1>1, <2>1, <2>3, <2>5, <3>1, <3>2 DEF SessionInv, SessionTypeOK
    <3>. QED BY <1>1, <2>3, <3>1, <3>3 DEF SessionInv, NothingBefore
  <2>6. (Send("getTarget") /\ attached' = attached) \/
        (/\ unanswered' = unanswered /\ evaluating' = evaluating /\ sent' = sent
         /\ attached' \in BOOLEAN
         /\ call' = Idle \/ call' = [call EXCEPT !.step = "result"])
    <3>1. attached \in BOOLEAN
      BY DEF SessionInv, SessionTypeOK
    <3>. QED BY <1>1, <1>4, <2>1, <3>1 DEF GotReply, IsReply, Asking
  <2>. QED BY <2>4, <2>5, <2>6
<1>. QED BY <1>3, <1>4

(* wait_for_event(): only the result of this evaluation is handed back.    *)
LEMMA WaitKeeps == ASSUME SessionInv, WaitKept \/ WaitRead PROVE SessionInv'
<1>1. /\ socket = "open" /\ socket' = socket /\ call.step = "result" /\ unanswered' = unanswered
      /\ evaluating' = evaluating /\ sent' = sent /\ attached' = attached /\ call.id \in 1..Requests
  BY DEF WaitKept, WaitRead, SessionInv, SessionTypeOK
<1>2. unanswered = {} /\ \A i \in 1..Len(wire) : ~ Answering(wire[i])
  BY <1>1 DEF SessionInv, OneAsked, OneReply, Asking
<1>3. call' = Idle \/ call' = call
  BY DEF WaitKept, WaitRead
<1>4. call' \in [step : Steps, id : 0..Requests] /\ (call'.step # "idle" => call'.id \in 1..Requests)
  BY <1>1, <1>3, RequestsAssumption DEF SessionInv, SessionTypeOK, Steps, Idle
<1>5. CASE WaitKept
  <2>1. PICK p \in Kept : Answered(p) /\ pending' = pending \ {p} /\ wire' = wire
    BY <1>5 DEF WaitKept
  <2>2. answers' \in [1..Requests -> SUBSET Nat] /\ OwnAnswers'
    BY <1>1, <2>1, Recorded DEF Kept, IsResult
  <2>3. SessionTypeOK'
    BY <1>1, <1>4, <2>1, <2>2 DEF SessionInv, SessionTypeOK
  <2>4. OneAsked' /\ OneReply' /\ OneOfEach' /\ NothingBefore'
    BY <1>1, <1>2, <2>1 DEF OneAsked, OneReply, OneOfEach, NothingBefore
  <2>. QED BY <2>2, <2>3, <2>4 DEF SessionInv
<1>6. CASE WaitRead
  <2>1. wire # <<>> /\ wire' = Tail(wire) /\ wire \in Seq(Packet) /\ call.step # "idle"
    BY <1>1, <1>6 DEF WaitRead, SessionInv, SessionTypeOK
  <2>2. Head(wire) \in Packet
    BY <2>1, Behind
  <2>3. wire' \in Seq(Packet) /\ OneAsked' /\ OneReply' /\ OneOfEach'
    BY <1>1, <1>2, <2>1, TakenOff
  <2>4. answers' \in [1..Requests -> SUBSET Nat] /\ OwnAnswers' /\ pending' \subseteq Packet
    <3>1. CASE IsResult(Head(wire), call.id)
      <4>1. Answered(Head(wire)) /\ pending' = pending
        BY <1>6, <3>1 DEF WaitRead
      <4>. QED BY <1>1, <3>1, <4>1, Recorded DEF IsResult, SessionInv, SessionTypeOK
    <3>2. CASE ~ IsResult(Head(wire), call.id)
      <4>1. answers' = answers /\ pending' = pending \union {Head(wire)}
        BY <1>6, <3>2 DEF WaitRead
      <4>. QED BY <2>2, <4>1 DEF SessionInv, SessionTypeOK, OwnAnswers
    <3>. QED BY <3>1, <3>2
  <2>5. SessionTypeOK' /\ NothingBefore'
    BY <1>1, <1>4, <2>3, <2>4 DEF SessionInv, SessionTypeOK, NothingBefore
  <2>. QED BY <2>3, <2>4, <2>5 DEF SessionInv
<1>. QED BY <1>5, <1>6

(* A connection given up or lost: nothing that is still outstanding on it  *)
(* can reach a call, for no call is made on it again.                      *)
LEMMA SessionEnds == ASSUME SessionInv, Timeout \/ Closed PROVE SessionInv'
<1>1. /\ socket' \in {"poisoned", "closed"} /\ call' = Idle
      /\ UNCHANGED <<attached, wire, unanswered, evaluating, pending, sent, answers>>
  BY DEF Timeout, Closed, Poison
<1>2. SessionTypeOK'
  BY <1>1, RequestsAssumption DEF SessionInv, SessionTypeOK, Idle, Steps
<1>3. OneAsked' /\ OneReply' /\ OneOfEach' /\ NothingBefore' /\ OwnAnswers'
  BY <1>1 DEF SessionInv, OneAsked, OneReply, OneOfEach, NothingBefore, OwnAnswers, Idle
<1>. QED BY <1>2, <1>3 DEF SessionInv

(* The server sends: the one reply that is due, or what is no reply.       *)
LEMMA ServerKeeps == ASSUME SessionInv, Reply \/ Finish \/ ConsoleLogs PROVE SessionInv'
<1>1. /\ socket = "open" /\ UNCHANGED <<socket, attached, pending, call, sent, answers>>
      /\ wire \in Seq(Packet) /\ unanswered \subseteq [to : Actors, of : Nat] /\ evaluating \subseteq Nat
  BY DEF Reply, Finish, ConsoleLogs, SessionInv, SessionTypeOK
<1>2. CASE Reply
  <2>1. PICK r \in unanswered, kind \in {"reply", "error"} :
          /\ wire' = Append(wire, [from |-> r.to, kind |-> kind, of |-> r.of])
          /\ evaluating' = (IF kind = "error" THEN evaluating \ {r.of} ELSE evaluating)
          /\ unanswered' = unanswered \ {r}
    BY <1>2 DEF Reply
  <2>. DEFINE p == [from |-> r.to, kind |-> kind, of |-> r.of]
  <2>2. p \in Packet /\ p.of = r.of /\ Answering(p)
    BY <1>1, <2>1 DEF Packet, Kinds, Answering
  <2>3. \A i \in 1..Len(wire) : ~ Answering(wire[i])
    BY <1>1, <2>1 DEF SessionInv, OneReply
  <2>4. r.of = call.id /\ call.step \in Asking /\ unanswered' = {}
    BY <1>1, <2>1 DEF SessionInv, OneAsked, OneOfEach
  <2>. HIDE DEF p
  <2>5. wire' = Append(wire, p)
    BY <2>1 DEF p
  <2>6. /\ wire' \in Seq(Packet) /\ Len(wire') = Len(wire) + 1 /\ Len(wire) \in Nat /\ wire'[Len(wire) + 1] = p
        /\ \A i \in 1..Len(wire) : wire'[i] = wire[i]
    BY <1>1, <2>2, <2>5, Ahead
  <2>7. \A i \in 1..Len(wire') : Answering(wire'[i]) => i = Len(wire) + 1
    BY <2>3, <2>6
  <2>8. OneReply'
    BY <1>1, <2>2, <2>4, <2>6, <2>7 DEF OneReply
  <2>9. SessionTypeOK' /\ OneAsked' /\ OneOfEach' /\ NothingBefore' /\ OwnAnswers'
    BY <1>1, <2>1, <2>4, <2>6 DEF SessionInv, SessionTypeOK, OneAsked, OneOfEach, NothingBefore, OwnAnswers
  <2>. QED BY <2>8, <2>9 DEF SessionInv
<1>3. CASE Finish \/ ConsoleLogs
  <2>1. PICK p \in Packet : wire' = Append(wire, p) /\ ~ Answering(p)
    <3>1. CASE Finish
      <4>1. PICK id \in evaluating :
              wire' = Append(wire, [from |-> "console", kind |-> "evaluationResult", of |-> id])
        BY <3>1 DEF Finish
      <4>. QED BY <1>1, <4>1 DEF Packet, Actors, Kinds, Answering
    <3>2. CASE ConsoleLogs
      BY <3>2 DEF ConsoleLogs, Packet, Actors, Kinds, Answering
    <3>. QED BY <1>3, <3>1, <3>2
  <2>2. unanswered' = unanswered /\ evaluating' \subseteq evaluating
    BY <1>3 DEF Finish, ConsoleLogs
  <2>3. /\ wire' \in Seq(Packet) /\ Len(wire') = Len(wire) + 1 /\ Len(wire) \in Nat /\ wire'[Len(wire) + 1] = p
        /\ \A i \in 1..Len(wire) : wire'[i] = wire[i]
    BY <1>1, <2>1, Ahead
  <2>4. \A i \in 1..Len(wire') : Answering(wire'[i]) => i \in 1..Len(wire) /\ wire'[i] = wire[i]
    BY <2>1, <2>3
  <2>5. OneReply'
    BY <1>1, <2>2, <2>3, <2>4 DEF SessionInv, OneReply
  <2>6. SessionTypeOK' /\ OneAsked' /\ OneOfEach' /\ NothingBefore' /\ OwnAnswers'
    BY <1>1, <2>2, <2>3 DEF SessionInv, SessionTypeOK, OneAsked, OneOfEach, NothingBefore, OwnAnswers
  <2>. QED BY <2>5, <2>6 DEF SessionInv
<1>. QED BY <1>2, <1>3

(* The invariant, of every behaviour.                                      *)
LEMMA SessionInvariant == RdpSpec => []SessionInv
<1>1. SessionInv /\ [RdpNext]_session => SessionInv'
  <2>. SUFFICES ASSUME SessionInv, [RdpNext]_session PROVE SessionInv'
    OBVIOUS
  <2>1. CASE RdpNext
    BY <2>1, CallStarts, RequestKeeps, WaitKeeps, SessionEnds, ServerKeeps DEF RdpNext
  <2>2. CASE UNCHANGED session
    BY <2>2 DEF session, SessionInv, SessionTypeOK, OneAsked, OneReply, OneOfEach, NothingBefore, OwnAnswers
  <2>. QED BY <2>1, <2>2
<1>. QED BY <1>1, SessionStarts, PTL DEF RdpSpec

(* However many requests are made, and however they end: no call is handed *)
(* a packet of another (zotero_rdp_client.py, request and wait_for_event). *)
THEOREM AnswersAreOwn == RdpSpec => []OwnAnswers
BY SessionInvariant, PTL DEF SessionInv

-----------------------------------------------------------------------------
(* RedState: what a broken build leaves of the shared checkout.            *)

RedSteps == {"over", "arm", "patch", "index", "ask", "revert", "rebuild", "died", "read", "score", "delta"}

(* The command under way; what its bundle holds plays no part here.        *)
CommandOK ==
  invocation \in [op: {"none", "run", "rescore", "read"}, at: RedSteps, left: Seq(DOMAIN ARMS),
                  bundle: {invocation.bundle}, applied: Nat, failed: BOOLEAN, torn: BOOLEAN,
                  exit: Nat]

Untouched == fork.src = {} /\ fork.dist \in {{}, NotBuilt}

(* Only an arm with a patch goes through a source and a build that have    *)
(* one, between its first patch and the rebuild; an arm without one leaves *)
(* the fork as it found it.  A fork once torn stays so until a rebuild,    *)
(* which is only reached with the source put back.                         *)
Underway == {"patch", "index", "ask"}
RedInv ==
  /\ CommandOK /\ fork = [src |-> fork.src, dist |-> fork.dist]
  /\ invocation.at \notin {"over", "died"} => invocation.left # <<>>
  /\ invocation.at = "rebuild" => fork.src = {}
  /\ ~invocation.torn =>
       /\ invocation.at \in {"over", "arm", "died", "read", "score", "delta"} => Untouched
       /\ invocation.at \in Underway /\ Patches(Arm) = {} => Untouched

(* An arm without a patch has none to apply.                               *)
LEMMA NothingToApply ==
  ASSUME NEW a \in DOMAIN ARMS, Patches(a) = {} PROVE Len(ARMS[a].patches) = 0
<1> DEFINE p == ARMS[a].patches
           S == {p[i] : i \in DOMAIN p}
<1>1. p \in Seq(S)
  BY ArmsAssumption
<1> HIDE DEF p, S
<1>2. Len(p) \in Nat
  BY <1>1
<1>3. {p[i] : i \in 1..Len(p)} = {}
  BY DEF Patches, p
<1>4. 1 \notin 1..Len(p)
  BY <1>3
<1>5. Len(p) = 0
  BY <1>2, <1>4
<1> QED BY <1>5 DEF p

(* A command begins with no arm under way.                                 *)
LEMMA RedStarts == RedInit => RedInv
<1> SUFFICES ASSUME RedInit PROVE RedInv
  OBVIOUS
<1>1. invocation = Quiet /\ <<>> \in Seq(DOMAIN ARMS)
  BY DEF RedInit
<1>2. CommandOK
  BY <1>1, Zenon DEF CommandOK, Quiet, RedSteps
<1>3. PICK built \in {{}, NotBuilt} : fork = [src |-> {}, dist |-> built]
  BY DEF RedInit
<1>4. Untouched /\ fork = [src |-> fork.src, dist |-> fork.dist]
  BY <1>3 DEF Untouched
<1>5. invocation.at = "over"
  BY <1>1 DEF Quiet
<1> QED BY <1>2, <1>4, <1>5 DEF RedInv, Underway

(* A step that leaves the command and the fork alone.                      *)
LEMMA RedSame == ASSUME RedInv, UNCHANGED <<fork, invocation>> PROVE RedInv'
<1>1. CommandOK'
  BY DEF RedInv, CommandOK
<1>2. Arm' = Arm /\ Patches(Arm)' = Patches(Arm) /\ (Untouched' <=> Untouched)
  BY DEF Arm, Patches, Untouched, NotBuilt
<1> QED BY <1>1, <1>2 DEF RedInv, Underway

(* Steps of an arm, as the fork sees them.                                 *)
LEMMA ForkUnseen ==
  ASSUME RedInv, CommandOK', UNCHANGED fork, invocation'.torn = invocation.torn \/ invocation'.torn,
         invocation'.at \notin {"over", "died"} => invocation'.left # <<>>,
         invocation'.at # "rebuild",
         invocation'.at \in {"over", "arm", "died", "read", "score", "delta"} =>
           \/ invocation.at \in {"over", "arm", "died", "read", "score", "delta"}
           \/ invocation.at \in Underway /\ Patches(Arm) = {}
           \/ invocation'.torn,
         invocation'.at \in Underway =>
           \/ invocation.at \in {"over", "arm"}
           \/ invocation.at \in Underway /\ invocation'.left = invocation.left
  PROVE  RedInv'
BY DEF RedInv, Untouched, Arm, NotBuilt, Patches, Underway

(* A field of the command set, and the command is still one.               *)
LEMMA RedCommands ==
  ASSUME CommandOK
  PROVE  /\ invocation.left \in Seq(DOMAIN ARMS) /\ invocation.at \in RedSteps
         /\ invocation.torn \in BOOLEAN /\ invocation.failed \in BOOLEAN /\ invocation.applied \in Nat
         /\ invocation.left # <<>> => Arm \in DOMAIN ARMS
BY DEF CommandOK, Arm

(* What is left of a list is a list.                                       *)
LEMMA TailType == ASSUME NEW S, NEW q \in Seq(S), q # <<>> PROVE Tail(q) \in Seq(S)
OBVIOUS

(* Where Goes(), Dies and Raises leave the command.                        *)
LEMMA CommandMoves ==
  ASSUME CommandOK
  PROVE  /\ \A step \in RedSteps : Goes(step) =>
              /\ CommandOK' /\ invocation'.at = step
              /\ UNCHANGED <<invocation.torn, invocation.left, invocation.failed, invocation.applied>>
         /\ Dies => CommandOK' /\ invocation'.at = "over" /\ invocation'.torn = invocation.torn
         /\ Raises => /\ CommandOK' /\ invocation'.failed /\ UNCHANGED <<invocation.torn, invocation.left>>
                      /\ invocation'.at = IF Patches(Arm) = {} THEN "died" ELSE "revert"
         /\ invocation' = NextArm /\ invocation.left # <<>> =>
              /\ CommandOK' /\ invocation'.torn = invocation.torn
              /\ \/ invocation'.at = "over"
                 \/ invocation'.at = "arm" /\ invocation'.left # <<>>
<1>1. ASSUME NEW step \in RedSteps, Goes(step)
      PROVE  /\ CommandOK' /\ invocation'.at = step
             /\ UNCHANGED <<invocation.torn, invocation.left, invocation.failed, invocation.applied>>
  BY <1>1 DEF CommandOK, Goes
<1>2. ASSUME Dies PROVE CommandOK' /\ invocation'.at = "over" /\ invocation'.torn = invocation.torn
  <2>1. <<>> \in Seq(DOMAIN ARMS)
    OBVIOUS
  <2> QED BY <1>2, <2>1 DEF CommandOK, Dies, Quiet, RedSteps
<1>3. ASSUME Raises
      PROVE  /\ CommandOK' /\ invocation'.failed /\ UNCHANGED <<invocation.torn, invocation.left>>
             /\ invocation'.at = IF Patches(Arm) = {} THEN "died" ELSE "revert"
  <2> DEFINE at == IF Patches(Arm) = {} THEN "died" ELSE "revert"
  <2>1. at \in RedSteps
    BY DEF RedSteps
  <2>2. invocation' = [invocation EXCEPT !.failed = TRUE, !.at = at]
    BY <1>3 DEF Raises
  <2> HIDE DEF at
  <2>3. CommandOK' /\ invocation'.failed /\ UNCHANGED <<invocation.torn, invocation.left>> /\ invocation'.at = at
    BY <2>1, <2>2 DEF CommandOK
  <2> QED BY <2>3 DEF at
<1>4. ASSUME invocation' = NextArm, invocation.left # <<>>
      PROVE  /\ CommandOK' /\ invocation'.torn = invocation.torn
             /\ \/ invocation'.at = "over"
                \/ invocation'.at = "arm" /\ invocation'.left # <<>>
  <2> DEFINE rest == Tail(invocation.left)
             at == IF rest = <<>> THEN "over" ELSE "arm"
  <2>1. rest \in Seq(DOMAIN ARMS)
    BY <1>4, RedCommands, TailType
  <2>2. invocation' = [invocation EXCEPT !.left = rest, !.bundle = Absent, !.applied = 0, !.at = at]
    BY <1>4 DEF NextArm
  <2> HIDE DEF rest
  <2>3. at \in RedSteps /\ (at = "over" \/ (at = "arm" /\ rest # <<>>))
    <3>1. (rest = <<>> /\ at = "over") \/ (rest # <<>> /\ at = "arm")
      BY Zenon
    <3>2. {"over", "arm"} \subseteq RedSteps
      BY DEF RedSteps
    <3> HIDE DEF at
    <3> QED BY <3>1, <3>2
  <2> HIDE DEF at
  <2> QED BY <2>1, <2>2, <2>3 DEF CommandOK
<1> QED BY <1>1, <1>2, <1>3, <1>4

(* A step that does not build, patch or put back.                          *)
LEMMA RedPlainSteps ==
  ASSUME RedInv,
         \/ \E op \in {"run", "rescore"}, arms \in Seq(DOMAIN ARMS) \ {<<>>} : Give(op, arms)
         \/ Declared \/ Rescore \/ ReplyArm \/ BuildArm \/ Died \/ ReadReplies \/ ScoreBundle \/ WriteDelta
         \/ CmdRead \/ \E a \in DOMAIN ARMS : EmptyDataDir(a)
  PROVE  RedInv'
<1> USE RedCommands, CommandMoves DEF RedInv
<1>1. CASE \E op \in {"run", "rescore"}, arms \in Seq(DOMAIN ARMS) \ {<<>>} : Give(op, arms)
  <2>1. PICK op \in {"run", "rescore"}, arms \in Seq(DOMAIN ARMS) \ {<<>>} : Give(op, arms)
    BY <1>1
  <2>2. /\ UNCHANGED fork /\ invocation.at = "over" /\ invocation'.torn = invocation.torn
        /\ \/ invocation'.at = "arm" /\ invocation'.left = arms
           \/ invocation'.at = "over"
        /\ CommandOK'
    <3> DEFINE new == [Quiet EXCEPT !.op = op, !.torn = invocation.torn]
    <3>1. <<>> \in Seq(DOMAIN ARMS) /\ invocation.torn \in BOOLEAN
      BY RedCommands
    <3>2. /\ new \in [op: {"none", "run", "rescore", "read"}, at: RedSteps, left: Seq(DOMAIN ARMS),
                      bundle: {Absent}, applied: Nat, failed: BOOLEAN, torn: BOOLEAN, exit: Nat]
          /\ new.at = "over" /\ new.torn = invocation.torn
      BY <3>1 DEF Quiet, RedSteps
    <3>3. /\ UNCHANGED fork /\ invocation.at = "over"
          /\ invocation' \in {[new EXCEPT !.at = "arm", !.left = arms], [new EXCEPT !.exit = 2]}
      BY <2>1 DEF Give, StandsAt
    <3> HIDE DEF new
    <3>4. CASE invocation' = [new EXCEPT !.at = "arm", !.left = arms]
      BY <3>1, <3>2, <3>3, <3>4 DEF CommandOK, RedSteps
    <3>5. CASE invocation' = [new EXCEPT !.exit = 2]
      BY <3>1, <3>2, <3>3, <3>5 DEF CommandOK, RedSteps
    <3> QED BY <3>3, <3>4, <3>5
  <2> QED BY <2>2, ForkUnseen DEF Underway
<1>2. CASE Declared
  BY <1>2, ForkUnseen DEF Declared, WriteNotRun, StandsAt, Underway
<1>3. CASE Rescore
  <2>1. CASE invocation' = NextArm
    BY <1>3, <2>1, ForkUnseen DEF Rescore, WriteNotRun, StandsAt, Underway
  <2>2. CASE invocation' = [invocation EXCEPT !.at = "score", !.bundle = ReadJson(artifacts[Arm])]
    <3>1. CommandOK' /\ invocation'.at = "score" /\ invocation'.torn = invocation.torn
      BY <2>2 DEF CommandOK, RedSteps
    <3>2. UNCHANGED fork /\ invocation.at = "arm" /\ invocation'.left = invocation.left
      BY <1>3, <2>2 DEF Rescore, WriteNotRun, StandsAt, CommandOK
    <3> QED BY <3>1, <3>2, ForkUnseen DEF Underway
  <2> QED BY <1>3, <2>1, <2>2 DEF Rescore, WriteNotRun
<1>4. CASE ReplyArm
  <2>1. CommandOK' /\ invocation'.at = "score" /\ invocation'.torn = invocation.torn
    BY <1>4 DEF ReplyArm, CommandOK, RedSteps
  <2> QED BY <1>4, <2>1, ForkUnseen DEF ReplyArm, StandsAt, Underway
<1>5. CASE BuildArm
  BY <1>5, ForkUnseen DEF BuildArm, WriteNotRun, StandsAt, Underway, RedSteps
<1>6. CASE Died
  BY <1>6, ForkUnseen DEF Died, StandsAt, Underway
<1>7. CASE ReadReplies
  <2>1. CommandOK' /\ invocation'.at = "score" /\ invocation'.torn = invocation.torn
    BY <1>7 DEF ReadReplies, CommandOK, RedSteps
  <2> QED BY <1>7, <2>1, ForkUnseen DEF ReadReplies, StandsAt, Underway
<1>8. CASE ScoreBundle
  BY <1>8, ForkUnseen DEF ScoreBundle, StandsAt, Underway, RedSteps
<1>9. CASE WriteDelta
  <2>1. invocation' = NextArm /\ UNCHANGED fork /\ invocation.at = "delta"
    BY <1>9 DEF WriteDelta, StandsAt
  <2> QED BY <2>1, ForkUnseen DEF Underway
<1>10. CASE CmdRead
  <2> DEFINE status == IF \A a \in DOMAIN ARMS : Matrix[a] = "no-artifact" THEN 3 ELSE 0
  <2>1. <<>> \in Seq(DOMAIN ARMS) /\ status \in Nat
    OBVIOUS
  <2>2. /\ UNCHANGED fork /\ invocation.at = "over"
        /\ invocation' = [Quiet EXCEPT !.op = "read", !.torn = invocation.torn, !.exit = status]
    BY <1>10 DEF CmdRead, StandsAt
  <2> HIDE DEF status
  <2>3. CommandOK' /\ invocation'.at = "over" /\ invocation'.torn = invocation.torn
    BY <2>1, <2>2 DEF CommandOK, Quiet, RedSteps
  <2> QED BY <2>2, <2>3, ForkUnseen DEF Underway
<1>11. CASE \E a \in DOMAIN ARMS : EmptyDataDir(a)
  <2>1. UNCHANGED <<fork, invocation>>
    BY <1>11 DEF EmptyDataDir
  <2> QED BY <2>1, RedSame
<1> QED BY <1>1, <1>2, <1>3, <1>4, <1>5, <1>6, <1>7, <1>8, <1>9, <1>10, <1>11

(* The steps of an arm that is built, and those that put the fork back.    *)
LEMMA RedBuildSteps ==
  ASSUME RedInv,
         ApplyPatch \/ NpmBuild \/ BuildIndex \/ DriveQueries \/ RevertPatches \/ Rebuild
  PROVE  RedInv'
<1> USE RedCommands, CommandMoves DEF RedInv
<1>1. CASE ApplyPatch
  <2>1. /\ invocation.at = "patch" /\ invocation.applied < Len(ARMS[Arm].patches)
        /\ Arm \in DOMAIN ARMS /\ invocation.applied \in Nat
    BY <1>1 DEF ApplyPatch, StandsAt
  <2>2. Patches(Arm) # {}
    BY <2>1, NothingToApply
  <2>3. CASE Raises /\ UNCHANGED fork
    BY <2>1, <2>2, <2>3, ForkUnseen DEF Underway
  <2>4. CASE ~(Raises /\ UNCHANGED fork)
    <3> DEFINE p == ARMS[Arm].patches[invocation.applied + 1]
    <3>1. /\ fork' = [fork EXCEPT !.src = @ \union {p}]
          /\ invocation' = [invocation EXCEPT !.applied = @ + 1]
      BY <1>1, <2>4 DEF ApplyPatch
    <3>2. CommandOK' /\ UNCHANGED <<invocation.at, invocation.left, invocation.torn>>
      BY <3>1, SMTT(40) DEF CommandOK
    <3>3. Patches(Arm)' # {}
      BY <2>2, <3>2 DEF Arm, Patches
    <3>4. fork' = [src |-> fork'.src, dist |-> fork'.dist]
      BY <3>1
    <3> QED BY <2>1, <3>2, <3>3, <3>4
  <2> QED BY <2>3, <2>4
<1>2. CASE NpmBuild
  <2>1. invocation.at = "patch" /\ (fork' = fork \/ fork' = [fork EXCEPT !.dist = fork.src])
    BY <1>2 DEF NpmBuild, BuildFails, Compiles, StandsAt
  <2>2. Untouched => Untouched'
    BY <2>1 DEF Untouched, NotBuilt
  <2>3. fork' = [src |-> fork'.src, dist |-> fork'.dist]
    BY <2>1
  <2>4. CASE Goes("index")
    <3>1. CommandOK' /\ invocation'.at = "index" /\ UNCHANGED <<invocation.torn, invocation.left>>
      BY <2>4 DEF RedSteps
    <3>2. Patches(Arm)' = Patches(Arm)
      BY <3>1 DEF Arm, Patches
    <3> QED BY <2>1, <2>2, <2>3, <3>1, <3>2 DEF Underway
  <2>5. CASE Raises
    <3>1. /\ CommandOK' /\ UNCHANGED <<invocation.torn, invocation.left>>
          /\ invocation'.at = IF Patches(Arm) = {} THEN "died" ELSE "revert"
      BY <2>5
    <3> QED BY <2>1, <2>2, <2>3, <3>1 DEF Underway
  <2> QED BY <1>2, <2>4, <2>5 DEF NpmBuild
<1>3. CASE BuildIndex
  <2>1. invocation.at = "index" /\ UNCHANGED fork /\ (Goes("ask") \/ Raises)
    BY <1>3 DEF BuildIndex, StandsAt
  <2> QED BY <2>1, ForkUnseen DEF Underway, RedSteps
<1>4. CASE DriveQueries
  <2>1. /\ invocation.at = "ask" /\ UNCHANGED fork
        /\ Raises \/ Goes(IF Patches(Arm) = {} THEN "read" ELSE "revert")
    BY <1>4 DEF DriveQueries, StandsAt
  <2>2. CASE Raises
    BY <2>1, <2>2, ForkUnseen DEF Underway
  <2>3. CASE Patches(Arm) = {} /\ Goes("read")
    BY <2>1, <2>3, ForkUnseen DEF Underway, RedSteps
  <2>4. CASE Patches(Arm) # {} /\ Goes("revert")
    BY <2>1, <2>4, ForkUnseen DEF Underway, RedSteps
  <2> QED BY <2>1, <2>2, <2>3, <2>4
<1>5. CASE RevertPatches
  <2>1. invocation.at = "revert"
    BY <1>5 DEF RevertPatches, StandsAt
  <2>2. CASE fork' = [fork EXCEPT !.src = {}] /\ Goes("rebuild")
    <3>1. CommandOK' /\ invocation'.at = "rebuild" /\ UNCHANGED <<invocation.torn, invocation.left>>
      BY <2>2 DEF RedSteps
    <3>2. fork'.src = {} /\ fork' = [src |-> fork'.src, dist |-> fork'.dist]
      BY <2>2
    <3> QED BY <2>1, <3>1, <3>2 DEF Underway
  <2>3. CASE UNCHANGED fork /\ invocation' = [invocation EXCEPT !.at = "died", !.torn = TRUE]
    <3>1. CommandOK' /\ invocation'.at = "died" /\ invocation'.torn
      BY <2>3 DEF CommandOK, RedSteps
    <3> QED BY <2>3, <3>1, ForkUnseen DEF Underway
  <2> QED BY <1>5, <2>2, <2>3 DEF RevertPatches
<1>6. CASE Rebuild
  <2>1. invocation.at = "rebuild" /\ fork.src = {} /\ invocation.left # <<>>
    BY <1>6 DEF Rebuild, StandsAt
  <2>2. /\ fork' = fork \/ fork' = [fork EXCEPT !.dist = fork.src]
        /\ fork'.src = {} /\ fork' = [src |-> fork'.src, dist |-> fork'.dist]
    BY <1>6, <2>1 DEF Rebuild, BuildFails, Compiles
  <2> DEFINE at == IF invocation.failed THEN "died" ELSE "read"
  <2>3. CASE Compiles /\ invocation' = [invocation EXCEPT !.at = at, !.torn = FALSE]
    <3>1. at \in {"died", "read"}
      OBVIOUS
    <3> HIDE DEF at
    <3>2. CommandOK' /\ invocation'.at = at /\ invocation'.left = invocation.left
      BY <2>3, <3>1 DEF CommandOK, RedSteps
    <3>3. Untouched'
      BY <2>1, <2>2, <2>3 DEF Compiles, Untouched
    <3> QED BY <2>1, <2>2, <3>1, <3>2, <3>3 DEF Underway
  <2>4. CASE invocation' = [invocation EXCEPT !.at = "died", !.torn = TRUE]
    <3>1. CommandOK' /\ invocation'.at = "died" /\ invocation'.torn
      BY <2>4 DEF CommandOK, RedSteps
    <3> QED BY <2>2, <3>1 DEF Underway
  <2> QED BY <1>6, <2>3, <2>4 DEF Rebuild
<1> QED BY <1>1, <1>2, <1>3, <1>4, <1>5, <1>6

(* However an arm ended, a command that is over leaves the shared checkout *)
(* without a patch and its build made without one, unless its cleanup      *)
(* failed: for any arms and any sequence of commands.                      *)
THEOREM ForkAlwaysRestored == RedSpec => []ForkRestored
<1>1. RedInv /\ [RedNext]_redVars => RedInv'
  <2> SUFFICES ASSUME RedInv, [RedNext]_redVars PROVE RedInv'
    OBVIOUS
  <2>1. CASE UNCHANGED redVars
    BY <2>1, RedSame DEF redVars
  <2>2. CASE \E op \in {"run", "rescore"}, arms \in {<<a>> : a \in DOMAIN ARMS} : Give(op, arms)
    <3>1. \A a \in DOMAIN ARMS : <<a>> \in Seq(DOMAIN ARMS) \ {<<>>}
      OBVIOUS
    <3> QED BY <2>2, <3>1, RedPlainSteps
  <2>3. CASE \E a, b \in DOMAIN ARMS : a # b /\ Give("run", <<a, b>>)
    <3>1. \A a, b \in DOMAIN ARMS : <<a, b>> \in Seq(DOMAIN ARMS) \ {<<>>}
      OBVIOUS
    <3> QED BY <2>3, <3>1, RedPlainSteps
  <2> QED BY <2>1, <2>2, <2>3, RedPlainSteps, RedBuildSteps DEF RedNext
<1>2. RedInv => ForkRestored
  BY DEF RedInv, ForkRestored, StandsAt, Untouched
<1> QED BY <1>1, <1>2, RedStarts, PTL DEF RedSpec

-----------------------------------------------------------------------------
(* BenchSweep: the sweep settles every cell once, and what it writes rests *)
(* on work.                                                                *)

(* What is left of the plan is its end; the cells before are settled and   *)
(* counted.                                                                *)
HandledSoFar ==
  pc # "idle" =>
    LET plans == PlanCells(asked)
        done == Len(plans) - Len(todo)
    IN  /\ Len(todo) <= Len(plans)
        /\ \A i \in 1..Len(todo) : todo[i] = plans[done + i]
        /\ \A i \in 1..done : results[plans[i]].status # "missing"
        /\ Tally = done
Finished == pc = "returned" => todo = <<>>

(* The cell at hand has no file, and its bytes are those published; every  *)
(* file that holds a hash holds that of the published bytes.               *)
AtHand ==
  pc \in {"resolved", "measure", "embed"} =>
    /\ todo # <<>> /\ results[At].status = "missing"
    /\ bytes = PublishedOf(At) /\ bytes \in Bytes
HashesPublished ==
  \A x \in Cells : results[x].status \in {"measured", "failed", "duplicate"} =>
    results[x].hash = PublishedOf(x) /\ results[x].hash \in Bytes

(* The index names an attempted cell of its key, or the one that is being  *)
(* measured; no measured cell is left out; and the cell that is being      *)
(* measured is the only one of its bytes.                                  *)
Attempted(x) == results[x].status \in {"measured", "failed"}
Measuring == pc \in {"measure", "embed"}
IndexSound ==
  \A key \in Keys : index[key] # NoOwner =>
    LET x == index[key] IN
    \/ Attempted(x) /\ Key(x, results[x].hash) = key
    \/ Measuring /\ x = At /\ key = Key(At, bytes)
IndexWhole ==
  pc \in {"plan", "resolved", "measure", "embed"} =>
    \A x \in Cells : results[x].status = "measured" => index[Key(x, results[x].hash)] # NoOwner
MeasuredAlone ==
  Measuring =>
    /\ index[Key(At, bytes)] = At
    /\ \A x \in Cells : results[x].status = "measured" => Key(x, results[x].hash) # Key(At, bytes)

(* A rep that ended well compared two files that were there; without a     *)
(* vectors directory, made for this cell.                                  *)
Compared(f) == f # NoFile /\ (~asked.persistent => f = Maker(At))
Stages == {<<"fp32", At.dtype>>, <<At.dtype>>, <<>>}
FiguresMade ==
  Measuring /\ At.kind = "fidelity" /\ oks # <<>> /\ FALSE \notin Range(oks) =>
    Compared(figures.reference) /\ Compared(figures.rung)
VectorsMade ==
  pc = "embed" =>
    /\ At.kind = "fidelity" /\ rungs \in Stages
    /\ ~asked.persistent => /\ vectors[<<"temporary", At.dtype>>] \in {NoFile, Maker(At)}
                            /\ vectors[<<"temporary", "fp32">>] \in {NoFile, Maker(At)}
    /\ Len(rungs) < 2 => Compared(vectors[<<Prefix, "fp32">>])
    /\ rungs = <<>> => Compared(vectors[<<Prefix, At.dtype>>])

SweepInv ==
  /\ TypeOK /\ HandledSoFar /\ Finished /\ AtHand /\ HashesPublished
  /\ IndexSound /\ IndexWhole /\ MeasuredAlone /\ FiguresMade /\ VectorsMade
  /\ ResultsRestOnWork

-----------------------------------------------------------------------------
(* A plan is a list of cells.                                              *)
LEMMA PlanIsList ==
  ASSUME NEW c \in Campaigns
  PROVE  PlanCells(c) \in Seq(Cells)
<1> DEFINE m == Len(c.models) k == Len(c.kinds) t == Len(c.dtypes) v == Len(c.devices)
           n == m * (k * (t * v))
<1>1. m \in Nat /\ k \in Nat /\ t \in Nat /\ v \in Nat
  BY CampaignsAssumption
<1>2. n \in Nat
  <2> HIDE DEF m, k, t, v
  <2>1. t * v \in Nat
    BY <1>1
  <2>2. k * (t * v) \in Nat
    BY <1>1, <2>1
  <2> QED BY <1>1, <2>2
<1>3. PlanCells(c) = [i \in 1..n |-> PlanCells(c)[i]] /\ DOMAIN PlanCells(c) = 1..n
  BY DEF PlanCells
<1>4. \A i \in 1..n : PlanCells(c)[i] \in Cells
  <2>1. Range(PlanCells(c)) \subseteq Cells
    BY DEF Cells
  <2>2. \A i \in DOMAIN PlanCells(c) : PlanCells(c)[i] \in Range(PlanCells(c))
    BY DEF Range
  <2> HIDE DEF n
  <2> QED BY <1>3, <2>1, <2>2
<1> HIDE DEF n
<1> QED BY <1>2, <1>3, <1>4

(* A cell that is planned has a kind, a device and a published file; its   *)
(* maker is not the absence of one.                                        *)
LEMMA CellFacts ==
  ASSUME NEW x \in Cells
  PROVE  /\ x # NoOwner /\ Maker(x) \in Makers /\ Maker(x) # NoFile
         /\ x.dtype \in Rungs /\ x.model \in VectorSets
         /\ \A h \in Bytes : Key(x, h) \in Keys
BY CellsAssumption DEF NoOwner, NoCell, Maker, Makers, NoFile, Rungs, VectorSets, Keys, Key

(* The first of what is left is a cell, and what follows it is a list.     *)
LEMMA FirstCell ==
  ASSUME TypeOK, todo # <<>>
  PROVE  /\ At \in Cells /\ Tail(todo) \in Seq(Cells) /\ Len(Tail(todo)) = Len(todo) - 1 /\ Len(todo) \in Nat \ {0}
         /\ \A i \in 1..Len(Tail(todo)) : Tail(todo)[i] = todo[i + 1]
<1>1. todo \in Seq(Cells)
  BY DEF TypeOK
<1> QED BY <1>1 DEF At

(* Nothing is settled before the first run.                                *)
LEMMA SweepStarts == Init => SweepInv
<1> SUFFICES ASSUME Init PROVE SweepInv
  OBVIOUS
<1>1. TypeOK
  BY CellsAssumption DEF Init, TypeOK, Missing, Result, NoIndex, Zero, NoFigures, Terminal
<1>2. ResultsRestOnWork /\ HashesPublished
  BY DEF Init, ResultsRestOnWork, OwnerAttempted, FiguresHaveMakers, HashesPublished, Missing, Result
<1>3. IndexSound
  BY DEF Init, IndexSound, NoIndex
<1> QED BY <1>1, <1>2, <1>3 DEF Init, SweepInv, HandledSoFar, Finished, AtHand, IndexWhole, MeasuredAlone,
                               FiguresMade,
                               VectorsMade, Measuring

(* What a result file may hold.                                            *)
ResultFiles == [status : Terminal \cup {"missing"}, hash : Bytes \cup {Unpublished}, owner : Cells \cup {NoCell},
                reference : Makers \cup {NoFile}, rung : Makers \cup {NoFile}, kept : BOOLEAN]

(* The file of the cell at hand rests on work.                             *)
RestsOnWork(r) ==
  /\ r.status \in {"measured", "failed", "duplicate"} => r.hash = PublishedOf(At) /\ r.hash \in Bytes
  /\ Measuring => r.status \in {"measured", "failed"} /\ r.hash = bytes
  /\ r.status = "measured" => Measuring
  /\ r.status = "duplicate" => /\ r.owner \in Cells \ {At} /\ Attempted(r.owner)
                               /\ Key(r.owner, results[r.owner].hash) = Key(At, r.hash)
  /\ r.status = "measured" /\ At.kind = "fidelity" =>
       /\ r.reference # NoFile /\ r.rung # NoFile
       /\ ~r.kept => r.reference = Maker(At) /\ r.rung = Maker(At)

(* A cell that is counted adds one to what the run has counted.            *)
LEMMA CountTallies ==
  ASSUME NEW w \in Terminal \cup {"skipped"}, Count(w), TypeOK
  PROVE  stats' \in [Terminal \cup {"skipped"} -> Nat] /\ Tally' = Tally + 1
<1>1. stats \in [Terminal \cup {"skipped"} -> Nat] /\ stats' = [stats EXCEPT ![w] = stats[w] + 1]
  BY DEF TypeOK, Count
<1>2. \A u \in Terminal \cup {"skipped"} : stats'[u] = IF u = w THEN stats[u] + 1 ELSE stats[u]
  BY <1>1
<1>3. stats' \in [Terminal \cup {"skipped"} -> Nat]
  BY <1>1
<1>4. w \in {"measured", "unloadable", "duplicate", "failed", "skipped"}
  BY DEF Terminal
<1>5. \A u \in {"measured", "unloadable", "duplicate", "failed", "skipped"} :
        stats[u] \in Nat /\ stats'[u] = IF u = w THEN stats[u] + 1 ELSE stats[u]
  BY <1>1, <1>2 DEF Terminal
<1> QED BY <1>3, <1>4, <1>5 DEF Tally

(* A run that goes to the next cell has settled one more of its plan, when *)
(* the cell at hand is settled and counted, and no file is withdrawn.      *)
LEMMA OneMoreHandled ==
  ASSUME TypeOK, HandledSoFar, pc # "idle", todo # <<>>,
         todo' = Tail(todo), asked' = asked, Tally' = Tally + 1,
         results'[At].status # "missing",
         \A x \in Cells : results[x].status # "missing" => results'[x].status # "missing"
  PROVE  HandledSoFar'
<1> DEFINE plans == PlanCells(asked)
           done == Len(plans) - Len(todo)
<1>1. asked \in Campaigns
  BY DEF TypeOK
<1>2. plans \in Seq(Cells) /\ Len(plans) \in Nat
  BY <1>1, PlanIsList
<1>3. /\ Len(todo) <= Len(plans) /\ (\A i \in 1..Len(todo) : todo[i] = plans[done + i])
      /\ (\A i \in 1..done : results[plans[i]].status # "missing") /\ Tally = done
  BY DEF HandledSoFar
<1>4. /\ At \in Cells /\ Len(todo') = Len(todo) - 1 /\ Len(todo) \in Nat \ {0}
      /\ \A i \in 1..Len(todo') : todo'[i] = todo[i + 1]
  BY FirstCell
<1>5. At = plans[done + 1]
  BY <1>3, <1>4 DEF At
<1>6. plans' = plans
  <2>1. \A c, d : c = d => PlanCells(c) = PlanCells(d)
    OBVIOUS
  <2> QED BY <2>1
<1>7. Len(plans') - Len(todo') = done + 1
  <2> HIDE DEF plans
  <2> QED BY <1>2, <1>4, <1>6
<1>8. done \in Nat /\ done + 1 <= Len(plans)
  <2> HIDE DEF plans
  <2> QED BY <1>2, <1>3, <1>4
<1>9. \A i \in 1..(done + 1) : results'[plans[i]].status # "missing"
  <2> SUFFICES ASSUME NEW i \in 1..(done + 1) PROVE results'[plans[i]].status # "missing"
    OBVIOUS
  <2> HIDE DEF plans
  <2>1. plans[i] \in Cells
    BY <1>2, <1>8
  <2>2. CASE i = done + 1
    BY <2>2, <1>5
  <2>3. CASE i # done + 1
    <3> HIDE DEF done
    <3>1. i \in 1..done
      BY <2>3, <1>8
    <3> QED BY <3>1, <2>1, <1>3
  <2> QED BY <2>2, <2>3
<1>10. \A i \in 1..Len(todo') : todo'[i] = plans'[(Len(plans') - Len(todo')) + i]
  <2> SUFFICES ASSUME NEW i \in 1..Len(todo') PROVE todo'[i] = plans'[(Len(plans') - Len(todo')) + i]
    OBVIOUS
  <2> HIDE DEF plans
  <2>1. i + 1 \in 1..Len(todo) /\ todo'[i] = todo[i + 1]
    BY <1>4
  <2>2. done + (i + 1) = (done + 1) + i
    BY <1>8
  <2> QED BY <2>1, <2>2, <1>3, <1>6, <1>7
<1>11. Len(todo') <= Len(plans') /\ Tally' = Len(plans') - Len(todo')
  <2> HIDE DEF plans
  <2> QED BY <1>2, <1>3, <1>4, <1>6, <1>7
<1>12. \A i \in 1..(Len(plans') - Len(todo')) : results'[plans'[i]].status # "missing"
  <2> HIDE DEF plans
  <2> QED BY <1>6, <1>7, <1>9
<1> QED BY <1>10, <1>11, <1>12 DEF HandledSoFar

(* A write gives the cell at hand its file and leaves every other.         *)
LEMMA WriteIsOne ==
  ASSUME SweepInv, todo # <<>>, results[At].status = "missing", NEW r \in ResultFiles, Write(r)
  PROVE  /\ At \in Cells /\ results' \in [Cells -> ResultFiles] /\ results'[At] = r
         /\ \A x \in Cells : x # At => results'[x] = results[x]
         /\ \A x \in Cells : results[x].status # "missing" => results'[x] = results[x]
         /\ vectors' = vectors /\ asked' = asked /\ index' = index /\ runs' = runs
         /\ pc' = "plan" /\ todo' = Tail(todo)
<1>1. TypeOK
  BY DEF SweepInv
<1>2. results \in [Cells -> ResultFiles]
  BY <1>1 DEF TypeOK, ResultFiles
<1>3. At \in Cells
  BY <1>1, FirstCell
<1>4. results' = [results EXCEPT ![At] = r]
  BY DEF Write
<1>5. results' \in [Cells -> ResultFiles] /\ results'[At] = r /\ \A x \in Cells : x # At => results'[x] = results[x]
  BY <1>2, <1>3, <1>4
<1>6. \A x \in Cells : results[x].status # "missing" => results'[x] = results[x]
  BY <1>5
<1> QED BY <1>3, <1>5, <1>6 DEF Write

(* A write of a file that rests on work keeps the invariant.               *)
LEMMA WriteKeeps ==
  ASSUME SweepInv, pc # "idle", todo # <<>>, results[At].status = "missing",
         NEW r \in ResultFiles, r.status # "missing", RestsOnWork(r), Write(r),
         pc \in {"plan", "resolved", "measure", "embed"}
  PROVE  SweepInv'
<1>1. TypeOK /\ HandledSoFar /\ AtHand /\ HashesPublished
      /\ IndexSound /\ IndexWhole /\ MeasuredAlone /\ OwnerAttempted /\ FiguresHaveMakers
  BY DEF SweepInv, ResultsRestOnWork
<1>2. /\ At \in Cells /\ results' \in [Cells -> ResultFiles] /\ results'[At] = r
      /\ \A x \in Cells : x # At => results'[x] = results[x]
      /\ \A x \in Cells : results[x].status # "missing" => results'[x] = results[x]
      /\ vectors' = vectors /\ asked' = asked /\ index' = index /\ runs' = runs
      /\ pc' = "plan" /\ todo' = Tail(todo)
  BY WriteIsOne
<1>3. results \in [Cells -> ResultFiles]
  BY <1>1 DEF TypeOK, ResultFiles
<1>4. r.status \in Terminal
  BY DEF ResultFiles
<1>5. stats' \in [Terminal \cup {"skipped"} -> Nat] /\ Tally' = Tally + 1
  <2>1. Count(r.status)
    BY DEF Write
  <2> QED BY <2>1, <1>1, <1>4, CountTallies
<1>6. TypeOK'
  <2>1. Tail(todo) \in Seq(Cells)
    BY <1>1, FirstCell
  <2>2. bytes' = Unpublished /\ rungs' = <<>> /\ oks' = <<>> /\ figures' = NoFigures
    BY DEF Write
  <2> QED BY <1>1, <1>2, <1>5, <2>1, <2>2 DEF TypeOK, ResultFiles, NoFigures
<1>7. HandledSoFar'
  <2>1. \A x \in Cells : results[x].status # "missing" => results'[x].status # "missing"
    BY <1>2
  <2>2. results'[At].status # "missing"
    BY <1>2
  <2> QED BY <1>1, <1>2, <1>5, <2>1, <2>2, OneMoreHandled
<1>8. HashesPublished'
  <2> SUFFICES ASSUME NEW x \in Cells, results'[x].status \in {"measured", "failed", "duplicate"}
               PROVE  results'[x].hash = PublishedOf(x) /\ results'[x].hash \in Bytes
    BY DEF HashesPublished
  <2>1. CASE x = At
    BY <2>1, <1>2 DEF RestsOnWork
  <2>2. CASE x # At
    BY <2>2, <1>1, <1>2 DEF HashesPublished
  <2> QED BY <2>1, <2>2
<1>9. \A x \in Cells : Attempted(x) => results'[x].status \in {"measured", "failed"} /\ results'[x] = results[x]
  BY <1>2 DEF Attempted
<1>10. IndexSound'
  <2> SUFFICES ASSUME NEW key \in Keys, index[key] # NoOwner
               PROVE  /\ results'[index[key]].status \in {"measured", "failed"}
                      /\ Key(index[key], results'[index[key]].hash) = key
    BY <1>2 DEF IndexSound, Attempted
  <2> DEFINE x == index[key]
  <2>1. x \in Cells
    BY <1>1 DEF TypeOK
  <2>2. CASE Attempted(x) /\ Key(x, results[x].hash) = key
    BY <2>1, <2>2, <1>9 DEF Attempted
  <2>3. CASE Measuring /\ x = At /\ key = Key(At, bytes)
    BY <2>3, <1>2 DEF RestsOnWork, Attempted
  <2> QED BY <2>2, <2>3, <1>1 DEF IndexSound
<1>11. IndexWhole'
  <2> SUFFICES ASSUME NEW x \in Cells, results'[x].status = "measured"
               PROVE  index[Key(x, results'[x].hash)] # NoOwner
    BY <1>2 DEF IndexWhole
  <2>1. CASE x = At
    <3>1. Measuring /\ r.hash = bytes
      BY <2>1, <1>2 DEF RestsOnWork
    <3>2. index[Key(At, bytes)] = At
      BY <3>1, <1>1 DEF MeasuredAlone
    <3> QED BY <2>1, <3>1, <3>2, <1>2, CellFacts
  <2>2. CASE x # At
    BY <2>2, <1>1, <1>2 DEF IndexWhole
  <2> QED BY <2>1, <2>2
<1>12. OwnerAttempted'
  <2> SUFFICES ASSUME NEW x \in Cells, results'[x].status = "duplicate"
               PROVE  LET owner == results'[x].owner IN
                      /\ owner \in Cells \ {x}
                      /\ results'[owner].status \in {"measured", "failed"}
                      /\ Key(owner, results'[owner].hash) = Key(x, results'[x].hash)
    BY DEF OwnerAttempted
  <2>1. CASE x = At
    BY <2>1, <1>2, <1>9 DEF RestsOnWork, Attempted
  <2>2. CASE x # At
    BY <2>2, <1>1, <1>2, <1>9 DEF OwnerAttempted, Attempted
  <2> QED BY <2>1, <2>2
<1>13. FiguresHaveMakers'
  <2> SUFFICES ASSUME NEW x \in Cells, results'[x].status = "measured", x.kind = "fidelity"
               PROVE  /\ results'[x].reference # NoFile /\ results'[x].rung # NoFile
                      /\ ~results'[x].kept => results'[x].reference = Maker(x) /\ results'[x].rung = Maker(x)
    BY DEF FiguresHaveMakers
  <2>1. CASE x = At
    BY <2>1, <1>2 DEF RestsOnWork
  <2>2. CASE x # At
    BY <2>2, <1>1, <1>2 DEF FiguresHaveMakers
  <2> QED BY <2>1, <2>2
<1> QED BY <1>2, <1>6, <1>7, <1>8, <1>10, <1>11, <1>12, <1>13
        DEF SweepInv, Finished, AtHand, MeasuredAlone, FiguresMade, VectorsMade, Measuring, ResultsRestOnWork

(* What a run writes rests on work: no cell is claimed twice, and what is  *)
(* claimed is measured or failed.                                          *)
LEMMA SettleWrites ==
  ASSUME SweepInv, Settle
  PROVE  \E r \in ResultFiles : /\ todo # <<>> /\ results[At].status = "missing" /\ r.status # "missing"
                          /\ pc \in {"plan", "resolved", "measure", "embed"}
                          /\ RestsOnWork(r) /\ Write(r)
<1>1. TypeOK /\ AtHand /\ IndexSound /\ MeasuredAlone /\ FiguresMade
  BY DEF SweepInv
<1>2. CASE Unloadable
  <2> DEFINE r == Result("unloadable", Unpublished, NoCell, NoFile, NoFile, FALSE)
  <2>1. r \in ResultFiles /\ r.status = "unloadable"
    BY DEF Result, ResultFiles, Terminal
  <2>2. pc = "plan" /\ todo # <<>> /\ results[At].status = "missing" /\ Write(r)
    BY <1>2 DEF Unloadable
  <2> HIDE DEF r
  <2>3. RestsOnWork(r)
    BY <2>1, <2>2 DEF RestsOnWork, Measuring
  <2> QED BY <2>1, <2>2, <2>3
<1>3. CASE Duplicate
  <2> DEFINE r == Result("duplicate", bytes, Owner, NoFile, NoFile, FALSE)
  <2>1. pc = "resolved" /\ Claimed /\ Write(r)
    BY <1>3 DEF Duplicate
  <2>2. todo # <<>> /\ results[At].status = "missing" /\ bytes = PublishedOf(At) /\ bytes \in Bytes
    BY <2>1, <1>1 DEF AtHand
  <2>3. At \in Cells
    BY <2>2, <1>1, FirstCell
  <2>4. Key(At, bytes) \in Keys
    BY <2>2, <2>3, CellFacts
  <2>5. Owner \in Cells \ {At}
    BY <2>1, <2>4, <1>1 DEF TypeOK, Claimed, Owner
  <2>6. Attempted(Owner) /\ Key(Owner, results[Owner].hash) = Key(At, bytes)
    BY <2>1, <2>4, <1>1 DEF IndexSound, Claimed, Owner, Measuring
  <2>7. r \in ResultFiles /\ r.status = "duplicate" /\ r.hash = bytes /\ r.owner = Owner
    BY <2>2, <2>5 DEF Result, ResultFiles, Terminal
  <2> HIDE DEF r
  <2>8. RestsOnWork(r)
    BY <2>1, <2>2, <2>5, <2>6, <2>7 DEF RestsOnWork, Measuring
  <2> QED BY <2>1, <2>2, <2>7, <2>8
<1>4. CASE Failed
  <2> DEFINE r == Result("failed", bytes, NoCell, NoFile, NoFile, FALSE)
  <2>1. pc = "measure" /\ Write(r)
    BY <1>4 DEF Failed
  <2>2. todo # <<>> /\ results[At].status = "missing" /\ bytes = PublishedOf(At) /\ bytes \in Bytes
    BY <2>1, <1>1 DEF AtHand
  <2>3. r \in ResultFiles /\ r.status = "failed" /\ r.hash = bytes
    BY <2>2 DEF Result, ResultFiles, Terminal
  <2> HIDE DEF r
  <2>4. RestsOnWork(r)
    BY <2>1, <2>2, <2>3 DEF RestsOnWork, Measuring
  <2> QED BY <2>1, <2>2, <2>3, <2>4
<1>5. CASE Measured
  <2> DEFINE r == Result("measured", bytes, NoCell, figures.reference, figures.rung, asked.persistent)
  <2>1. pc = "measure" /\ ~RepsLeft /\ FALSE \notin Range(oks) /\ Write(r)
    BY <1>5 DEF Measured
  <2>2. todo # <<>> /\ results[At].status = "missing" /\ bytes = PublishedOf(At) /\ bytes \in Bytes
    BY <2>1, <1>1 DEF AtHand
  <2>3. At \in Cells
    BY <2>2, <1>1, FirstCell
  <2>4. asked.persistent \in BOOLEAN
    BY <1>1, CampaignsAssumption DEF TypeOK
  <2>5. /\ r \in ResultFiles /\ r.status = "measured" /\ r.hash = bytes
        /\ r.reference = figures.reference /\ r.rung = figures.rung /\ r.kept = asked.persistent
    BY <2>2, <2>4, <1>1 DEF Result, ResultFiles, Terminal, TypeOK
  <2>6. At.kind = "fidelity" => Compared(figures.reference) /\ Compared(figures.rung)
    <3>1. oks # <<>>
      <4>1. Reps[At.kind] \in Nat \ {0} /\ Len(oks) \in Nat /\ ~(Len(oks) < Reps[At.kind])
        BY <2>1, <2>3, <1>1, CellsAssumption DEF TypeOK, RepsLeft
      <4>2. Len(oks) # 0
        BY <4>1
      <4> QED BY <4>2
    <3> QED BY <3>1, <2>1, <1>1 DEF FiguresMade, Measuring
  <2> HIDE DEF r
  <2>7. RestsOnWork(r)
    BY <2>1, <2>2, <2>5, <2>6 DEF RestsOnWork, Measuring, Compared
  <2> QED BY <2>1, <2>2, <2>5, <2>7
<1> QED BY <1>2, <1>3, <1>4, <1>5 DEF Settle

(* A run starts with the index of what the directory holds as measured.    *)
LEMMA BeginKeeps ==
  ASSUME SweepInv, NEW c \in Campaigns, Begin(c)
  PROVE  SweepInv'
<1>1. TypeOK /\ HashesPublished /\ ResultsRestOnWork
  BY DEF SweepInv
<1>2. /\ results' = results /\ vectors' = vectors /\ pc' = "plan" /\ asked' = c /\ todo' = PlanCells(c)
      /\ index' = ExistingHashIndex /\ stats' = Zero /\ runs' = runs + 1 /\ runs < MaxRuns
      /\ bytes' = bytes /\ rungs' = rungs /\ oks' = oks /\ figures' = figures
  BY DEF Begin, onDisk, cell
<1>3. ExistingHashIndex \in [Keys -> Cells \cup {NoOwner}]
  <2>1. \A key \in Keys : Found(key) # {} => (CHOOSE x \in Found(key) : TRUE) \in Found(key)
    OBVIOUS
  <2>2. \A key \in Keys : Found(key) \subseteq Cells
    BY DEF Found
  <2> QED BY <2>1, <2>2 DEF ExistingHashIndex
<1>4. \A key \in Keys : ExistingHashIndex[key] # NoOwner => ExistingHashIndex[key] \in Found(key)
  <2>1. \A key \in Keys : Found(key) # {} => (CHOOSE x \in Found(key) : TRUE) \in Found(key)
    OBVIOUS
  <2> QED BY <2>1 DEF ExistingHashIndex
<1>5. \A key \in Keys : Found(key) # {} => ExistingHashIndex[key] # NoOwner
  <2>1. \A key \in Keys : Found(key) # {} => (CHOOSE x \in Found(key) : TRUE) \in Found(key)
    OBVIOUS
  <2>2. \A key \in Keys : Found(key) \subseteq Cells
    BY DEF Found
  <2>3. NoOwner \notin Cells
    BY CellFacts
  <2> QED BY <2>1, <2>2, <2>3 DEF ExistingHashIndex
<1>6. TypeOK'
  <2>1. PlanCells(c) \in Seq(Cells)
    BY PlanIsList
  <2>2. Zero \in [Terminal \cup {"skipped"} -> Nat] /\ runs + 1 \in 0..MaxRuns
    BY <1>1, <1>2, CellsAssumption DEF TypeOK, Zero
  <2> QED BY <1>1, <1>2, <1>3, <2>1, <2>2 DEF TypeOK
<1>7. HandledSoFar'
  <2> DEFINE plans == PlanCells(c)
  <2>1. plans \in Seq(Cells) /\ Len(plans) \in Nat
    BY PlanIsList
  <2>2. Tally' = 0
    BY <1>2 DEF Tally, Zero, Terminal
  <2>3. todo' = plans /\ PlanCells(asked)' = plans
    BY <1>2
  <2> HIDE DEF plans
  <2>4. Len(plans) - Len(plans) = 0
    BY <2>1
  <2>5. \A i \in 1..Len(plans) : 0 + i = i
    BY <2>1
  <2> QED BY <2>1, <2>2, <2>3, <2>4, <2>5 DEF HandledSoFar
<1>8. HashesPublished' /\ OwnerAttempted' /\ FiguresHaveMakers'
  BY <1>1, <1>2 DEF HashesPublished, ResultsRestOnWork, OwnerAttempted, FiguresHaveMakers
<1>9. IndexSound'
  BY <1>2, <1>4 DEF IndexSound, Found, Attempted
<1>10. IndexWhole'
  <2> SUFFICES ASSUME NEW x \in Cells, results[x].status = "measured"
               PROVE  ExistingHashIndex[Key(x, results[x].hash)] # NoOwner
    BY <1>2 DEF IndexWhole
  <2>1. results[x].hash \in Bytes
    BY <1>1 DEF HashesPublished
  <2>2. Key(x, results[x].hash) \in Keys
    BY <2>1, CellFacts
  <2>3. x \in Found(Key(x, results[x].hash))
    BY DEF Found
  <2> QED BY <2>2, <2>3, <1>5
<1> QED BY <1>2, <1>6, <1>7, <1>8, <1>9, <1>10
        DEF SweepInv, Finished, AtHand, MeasuredAlone, FiguresMade, VectorsMade, Measuring, ResultsRestOnWork

(* A cell that has its file is counted and passed over.                    *)
LEMMA SkipKeeps ==
  ASSUME SweepInv, Skip
  PROVE  SweepInv'
<1>1. TypeOK /\ HandledSoFar /\ HashesPublished /\ IndexSound /\ IndexWhole /\ ResultsRestOnWork
  BY DEF SweepInv
<1>2. /\ pc = "plan" /\ todo # <<>> /\ results[At].status # "missing" /\ Count("skipped") /\ todo' = Tail(todo)
      /\ results' = results /\ vectors' = vectors /\ pc' = pc /\ asked' = asked /\ index' = index
      /\ bytes' = bytes /\ rungs' = rungs /\ oks' = oks /\ figures' = figures /\ runs' = runs
  BY DEF Skip, onDisk, cell
<1>3. stats' \in [Terminal \cup {"skipped"} -> Nat] /\ Tally' = Tally + 1
  BY <1>1, <1>2, CountTallies
<1>4. TypeOK'
  <2>1. Tail(todo) \in Seq(Cells)
    BY <1>1, <1>2, FirstCell
  <2> QED BY <1>1, <1>2, <1>3, <2>1 DEF TypeOK
<1>5. HandledSoFar'
  BY <1>1, <1>2, <1>3, OneMoreHandled
<1>6. HashesPublished' /\ OwnerAttempted' /\ FiguresHaveMakers'
  BY <1>1, <1>2 DEF HashesPublished, ResultsRestOnWork, OwnerAttempted, FiguresHaveMakers
<1>7. IndexSound' /\ IndexWhole'
  BY <1>1, <1>2 DEF IndexSound, IndexWhole, Attempted, Measuring
<1> QED BY <1>2, <1>4, <1>5, <1>6, <1>7
        DEF SweepInv, Finished, AtHand, MeasuredAlone, FiguresMade, VectorsMade, Measuring, ResultsRestOnWork

(* What is settled, counted and left to do is not touched within a cell.   *)
LEMMA SamePlanKept ==
  ASSUME TypeOK, HandledSoFar, HashesPublished, ResultsRestOnWork, pc # "idle",
         UNCHANGED <<results, plan>>
  PROVE  HandledSoFar' /\ HashesPublished' /\ ResultsRestOnWork'
<1>1. results' = results /\ asked' = asked /\ todo' = todo /\ stats' = stats
  BY DEF plan
<1>2. PlanCells(asked)' = PlanCells(asked) /\ Tally' = Tally
  BY <1>1 DEF Tally
<1>3. HandledSoFar'
  BY <1>1, <1>2 DEF HandledSoFar
<1> QED BY <1>1, <1>3 DEF HashesPublished, ResultsRestOnWork, OwnerAttempted, FiguresHaveMakers

(* The file's bytes are those that are published.                          *)
LEMMA ResolveKeeps ==
  ASSUME SweepInv, Resolve
  PROVE  SweepInv'
<1>1. TypeOK /\ HandledSoFar /\ HashesPublished /\ IndexSound /\ IndexWhole /\ ResultsRestOnWork
  BY DEF SweepInv
<1>2. /\ pc = "plan" /\ todo # <<>> /\ results[At].status = "missing" /\ PublishedOf(At) # Unpublished
      /\ bytes' = PublishedOf(At) /\ pc' = "resolved" /\ UNCHANGED <<results, plan>>
      /\ results' = results /\ vectors' = vectors /\ asked' = asked /\ todo' = todo /\ stats' = stats
      /\ index' = index /\ rungs' = rungs /\ oks' = oks /\ figures' = figures /\ runs' = runs
  BY DEF Resolve, onDisk, plan
<1>3. At \in Cells
  BY <1>1, <1>2, FirstCell
<1>4. PublishedOf(At) \in Bytes
  BY <1>2, <1>3, CellsAssumption
<1>5. TypeOK'
  BY <1>1, <1>2, <1>4 DEF TypeOK
<1>6. HandledSoFar' /\ HashesPublished' /\ ResultsRestOnWork'
  BY <1>1, <1>2, SamePlanKept
<1>7. AtHand'
  BY <1>2, <1>4 DEF AtHand, At, PublishedOf
<1>8. IndexSound' /\ IndexWhole'
  BY <1>1, <1>2 DEF IndexSound, IndexWhole, Attempted, Measuring
<1> QED BY <1>2, <1>5, <1>6, <1>7, <1>8 DEF SweepInv, Finished, MeasuredAlone, FiguresMade, VectorsMade, Measuring

(* The bytes are claimed: no measured cell had them, as the index knows.   *)
LEMMA ClaimKeeps ==
  ASSUME SweepInv, Claim
  PROVE  SweepInv'
<1>1. TypeOK /\ HandledSoFar /\ AtHand /\ HashesPublished /\ IndexSound /\ IndexWhole /\ ResultsRestOnWork
  BY DEF SweepInv
<1>2. /\ pc = "resolved" /\ ~Claimed /\ index' = [index EXCEPT ![Key(At, bytes)] = At] /\ oks' = <<>>
      /\ pc' = "measure" /\ UNCHANGED <<results, plan>>
      /\ results' = results /\ vectors' = vectors /\ asked' = asked /\ todo' = todo /\ stats' = stats
      /\ bytes' = bytes /\ rungs' = rungs /\ figures' = figures /\ runs' = runs
  BY DEF Claim, onDisk, plan
<1>3. todo # <<>> /\ results[At].status = "missing" /\ bytes = PublishedOf(At) /\ bytes \in Bytes
  BY <1>1, <1>2 DEF AtHand
<1>4. At \in Cells /\ At # NoOwner /\ Key(At, bytes) \in Keys
  BY <1>1, <1>3, FirstCell, CellFacts
<1>5. index \in [Keys -> Cells \cup {NoOwner}]
  BY <1>1 DEF TypeOK
<1>6. /\ index' \in [Keys -> Cells \cup {NoOwner}] /\ index'[Key(At, bytes)] = At
      /\ \A key \in Keys : key # Key(At, bytes) => index'[key] = index[key]
  BY <1>2, <1>4, <1>5
<1>7. \A x \in Cells : results[x].status = "measured" => Key(x, results[x].hash) # Key(At, bytes)
  <2> SUFFICES ASSUME NEW x \in Cells, results[x].status = "measured", Key(x, results[x].hash) = Key(At, bytes)
               PROVE  FALSE
    OBVIOUS
  <2>1. index[Key(At, bytes)] # NoOwner
    BY <1>1, <1>2 DEF IndexWhole
  <2>2. index[Key(At, bytes)] = At
    BY <2>1, <1>2 DEF Claimed, Owner
  <2>3. Attempted(At)
    BY <2>1, <2>2, <1>1, <1>2, <1>4 DEF IndexSound, Measuring
  <2> QED BY <2>3, <1>3 DEF Attempted
<1>8. TypeOK'
  BY <1>1, <1>2, <1>6 DEF TypeOK
<1>9. HandledSoFar' /\ HashesPublished' /\ ResultsRestOnWork'
  BY <1>1, <1>2, SamePlanKept
<1>10. At' = At
  BY <1>2 DEF At
<1>11. AtHand' /\ MeasuredAlone'
  BY <1>2, <1>3, <1>6, <1>7, <1>10 DEF AtHand, MeasuredAlone, PublishedOf
<1>12. IndexSound'
  BY <1>1, <1>2, <1>6, <1>10 DEF IndexSound, Attempted, Measuring
<1>13. IndexWhole'
  <2> SUFFICES ASSUME NEW x \in Cells, results[x].status = "measured"
               PROVE  index'[Key(x, results[x].hash)] # NoOwner
    BY <1>2 DEF IndexWhole
  <2>1. Key(x, results[x].hash) \in Keys
    BY <1>1, CellFacts DEF HashesPublished
  <2>2. index[Key(x, results[x].hash)] # NoOwner
    BY <1>1, <1>2 DEF IndexWhole
  <2> QED BY <2>1, <2>2, <1>4, <1>6
<1>14. FiguresMade' /\ VectorsMade'
  BY <1>2 DEF FiguresMade, VectorsMade
<1> QED BY <1>2, <1>8, <1>9, <1>11, <1>12, <1>13, <1>14 DEF SweepInv, Finished

(* Within a measurement the claim stands.                                  *)
LEMMA ClaimStands ==
  ASSUME SweepInv, Measuring, Measuring', UNCHANGED <<results, plan, index, bytes>>
  PROVE  /\ HandledSoFar' /\ AtHand' /\ HashesPublished'
         /\ IndexSound' /\ IndexWhole' /\ MeasuredAlone' /\ ResultsRestOnWork'
         /\ At \in Cells /\ At' = At
<1>1. TypeOK /\ HandledSoFar /\ AtHand /\ HashesPublished /\ IndexSound /\ IndexWhole /\ MeasuredAlone
      /\ ResultsRestOnWork
  BY DEF SweepInv
<1>2. results' = results /\ todo' = todo /\ index' = index /\ bytes' = bytes
  BY DEF plan
<1>3. pc \in {"measure", "embed"} /\ pc' \in {"measure", "embed"}
  BY DEF Measuring
<1>4. HandledSoFar' /\ HashesPublished' /\ ResultsRestOnWork'
  BY <1>1, <1>3, SamePlanKept
<1>5. At' = At
  BY <1>2 DEF At
<1>6. At \in Cells
  BY <1>1, <1>3, FirstCell DEF AtHand
<1>7. AtHand' /\ MeasuredAlone'
  BY <1>1, <1>2, <1>3, <1>5 DEF AtHand, MeasuredAlone, PublishedOf, Measuring
<1>8. IndexSound' /\ IndexWhole'
  BY <1>1, <1>2, <1>3, <1>5 DEF IndexSound, IndexWhole, Attempted, Measuring
<1> QED BY <1>4, <1>5, <1>6, <1>7, <1>8

(* A rep without vectors has no figures to account for.                    *)
LEMMA PlainRepKeeps ==
  ASSUME SweepInv, NEW ok \in BOOLEAN, MeasureCost(ok) \/ MeasureRecall(ok)
  PROVE  SweepInv'
<1>1. TypeOK
  BY DEF SweepInv
<1>2. /\ pc = "measure" /\ pc' = pc /\ At.kind # "fidelity" /\ oks' = Append(oks, ok)
      /\ results' = results /\ vectors' = vectors /\ asked' = asked /\ todo' = todo /\ stats' = stats
      /\ index' = index /\ bytes' = bytes /\ rungs' = rungs /\ figures' = figures /\ runs' = runs
  BY DEF MeasureCost, MeasureRecall, onDisk, plan, Ended
<1>3. Measuring /\ Measuring' /\ UNCHANGED <<results, plan, index, bytes>>
  BY <1>2 DEF Measuring, plan
<1>4. TypeOK'
  BY <1>1, <1>2 DEF TypeOK
<1>5. FiguresMade' /\ VectorsMade'
  BY <1>2 DEF FiguresMade, VectorsMade, At
<1> QED BY <1>3, <1>4, <1>5, ClaimStands DEF SweepInv, Finished, Measuring

(* The vectors of a run without a directory are of the cell or not there.  *)
LEMMA FidelityRepKeeps ==
  ASSUME SweepInv, MeasureFidelity
  PROVE  SweepInv'
<1>1. TypeOK /\ FiguresMade
  BY DEF SweepInv
<1>2. /\ pc = "measure" /\ pc' = "embed" /\ At.kind = "fidelity" /\ rungs' = <<"fp32", At.dtype>>
      /\ results' = results /\ oks' = oks /\ asked' = asked /\ todo' = todo /\ stats' = stats
      /\ index' = index /\ bytes' = bytes /\ figures' = figures /\ runs' = runs
      /\ vectors' = IF asked.persistent THEN vectors
                    ELSE [vectors EXCEPT ![<<"temporary", "fp32">>] = NoFile, ![<<"temporary", At.dtype>>] = NoFile]
  BY DEF MeasureFidelity, plan
<1>3. Measuring /\ Measuring' /\ UNCHANGED <<results, plan, index, bytes>>
  BY <1>2 DEF Measuring, plan
<1>4. At \in Cells /\ At' = At
  BY <1>3, ClaimStands
<1>5. At.dtype \in Rungs /\ "fp32" \in Rungs /\ "temporary" \in VectorSets
  BY <1>4, CellFacts DEF Rungs, VectorSets
<1>6. /\ vectors' \in [VectorSets \X Rungs -> Makers \cup {NoFile}]
      /\ ~asked.persistent => /\ vectors'[<<"temporary", At.dtype>>] = NoFile
                              /\ vectors'[<<"temporary", "fp32">>] = NoFile
  BY <1>1, <1>2, <1>5 DEF TypeOK
<1>7. TypeOK'
  <2>1. rungs' \in Seq(Rungs)
    BY <1>2, <1>5
  <2> QED BY <2>1, <1>1, <1>2, <1>6 DEF TypeOK
<1>8. FiguresMade'
  BY <1>1, <1>2, <1>4 DEF FiguresMade, Measuring, Compared, Maker
<1>9. VectorsMade'
  <2>1. rungs' \in Stages' /\ rungs' # <<>> /\ ~(Len(rungs') < 2)
    BY <1>2, <1>4 DEF Stages
  <2> QED BY <2>1, <1>2, <1>4, <1>6 DEF VectorsMade
<1> QED BY <1>3, <1>7, <1>8, <1>9, ClaimStands DEF SweepInv, Finished, Measuring

(* The rung at hand, and what is left after it.                            *)
LEMMA StageFacts ==
  ASSUME rungs \in Stages, rungs # <<>>
  PROVE  \/ Rung = "fp32" /\ Tail(rungs) = <<At.dtype>> /\ Tail(rungs) # <<>>
         \/ Rung = At.dtype /\ Tail(rungs) = <<>> /\ Len(rungs) = 1
<1>1. CASE rungs = <<"fp32", At.dtype>>
  BY <1>1 DEF Rung
<1>2. CASE rungs = <<At.dtype>>
  BY <1>2 DEF Rung
<1> QED BY <1>1, <1>2 DEF Stages

(* A reference that is kept is not embedded again.                         *)
LEMMA EmbedCachedKeeps ==
  ASSUME SweepInv, EmbedCached
  PROVE  SweepInv'
<1>1. TypeOK /\ FiguresMade /\ VectorsMade
  BY DEF SweepInv
<1>2. /\ pc = "embed" /\ pc' = pc /\ rungs # <<>> /\ rungs' = Tail(rungs)
      /\ asked.persistent /\ Rung = "fp32" /\ Made # NoFile
      /\ results' = results /\ vectors' = vectors /\ asked' = asked /\ todo' = todo /\ stats' = stats
      /\ index' = index /\ bytes' = bytes /\ oks' = oks /\ figures' = figures /\ runs' = runs
  BY DEF EmbedCached, Cached, onDisk, plan
<1>3. Measuring /\ Measuring' /\ UNCHANGED <<results, plan, index, bytes>>
  BY <1>2 DEF Measuring, plan
<1>4. At \in Cells /\ At' = At /\ Prefix' = Prefix
  BY <1>2, <1>3, ClaimStands DEF Prefix
<1>5. At.kind = "fidelity" /\ rungs \in Stages
  BY <1>1, <1>2 DEF VectorsMade
<1>6. TypeOK'
  <2>1. Tail(rungs) \in Seq(Rungs)
    BY <1>1, <1>2 DEF TypeOK
  <2> QED BY <2>1, <1>1, <1>2 DEF TypeOK
<1>7. FiguresMade'
  BY <1>1, <1>2, <1>4 DEF FiguresMade, Measuring, Compared, Maker
<1>8. Compared(vectors[<<Prefix, "fp32">>])
  BY <1>2 DEF Compared, Made
<1>9. VectorsMade'
  <2>1. CASE Tail(rungs) = <<At.dtype>>
    <3>1. rungs' \in Stages' /\ rungs' # <<>>
      BY <2>1, <1>2, <1>4 DEF Stages
    <3>2. Compared(vectors[<<Prefix, "fp32">>])'
      BY <1>2, <1>4, <1>8 DEF Compared
    <3> QED BY <3>1, <3>2, <1>2, <1>4, <1>5 DEF VectorsMade
  <2>2. CASE Rung = At.dtype /\ Tail(rungs) = <<>>
    BY <2>2, <1>2, <1>4, <1>5, <1>8 DEF VectorsMade, Stages, Compared
  <2> QED BY <2>1, <2>2, <1>2, <1>5, StageFacts
<1> QED BY <1>3, <1>6, <1>7, <1>9, ClaimStands DEF SweepInv, Finished, Measuring

(* A driver leaves its own vectors, what was there, or a failed rep.       *)
LEMMA EmbedKeeps ==
  ASSUME SweepInv, Embed
  PROVE  SweepInv'
<1>1. TypeOK /\ FiguresMade /\ VectorsMade
  BY DEF SweepInv
<1>2. PICK left \in Leaves :
        /\ vectors' = [vectors EXCEPT ![<<Prefix, Rung>>] = left]
        /\ IF left = NoFile THEN rungs' = <<>> /\ Ended(FALSE) /\ pc' = "measure"
                            ELSE rungs' = Tail(rungs) /\ UNCHANGED <<oks, pc>>
  BY DEF Embed
<1>3. /\ pc = "embed" /\ rungs # <<>>
      /\ results' = results /\ asked' = asked /\ todo' = todo /\ stats' = stats
      /\ index' = index /\ bytes' = bytes /\ figures' = figures /\ runs' = runs
  BY DEF Embed, plan
<1>4. pc' \in {"measure", "embed"}
  BY <1>2, <1>3
<1>5. Measuring /\ Measuring' /\ UNCHANGED <<results, plan, index, bytes>>
  BY <1>3, <1>4 DEF Measuring, plan
<1>6. At \in Cells /\ At' = At /\ Prefix' = Prefix
  BY <1>3, <1>5, ClaimStands DEF Prefix
<1>7. At.kind = "fidelity" /\ rungs \in Stages
  BY <1>1, <1>3 DEF VectorsMade
<1>8. Prefix \in VectorSets /\ Rung \in Rungs /\ At.dtype \in Rungs /\ "fp32" \in Rungs
  <2>1. Rung = "fp32" \/ Rung = At.dtype
    BY <1>3, <1>7, StageFacts
  <2> QED BY <2>1, <1>6, CellFacts DEF Prefix, VectorSets, Rungs
<1>9. Made \in Makers \cup {NoFile} /\ left \in Makers \cup {NoFile}
  BY <1>1, <1>6, <1>8, CellFacts DEF TypeOK, Made, Leaves
<1>10. ~asked.persistent => Made \in {NoFile, Maker(At)} /\ Prefix = "temporary"
  BY <1>1, <1>3, <1>7, StageFacts DEF VectorsMade, Made, Prefix
<1>11. left # NoFile => Compared(left)
  BY <1>10 DEF Leaves, Compared
<1>12. /\ vectors' \in [VectorSets \X Rungs -> Makers \cup {NoFile}] /\ vectors'[<<Prefix, Rung>>] = left
       /\ \A d \in Rungs : d # Rung => vectors'[<<Prefix, d>>] = vectors[<<Prefix, d>>]
  BY <1>1, <1>2, <1>8, <1>9 DEF TypeOK
<1>13. TypeOK'
  <2>1. rungs' \in Seq(Rungs) /\ oks' \in Seq(BOOLEAN)
    <3>1. Tail(rungs) \in Seq(Rungs)
      BY <1>1, <1>3 DEF TypeOK
    <3>2. Tail(rungs) \in Seq(Rungs) /\ <<>> \in Seq(Rungs)
      BY <3>1
    <3>3. oks \in Seq(BOOLEAN)
      BY <1>1 DEF TypeOK
    <3>4. Append(oks, FALSE) \in Seq(BOOLEAN)
      BY <3>3
    <3>5. (rungs' = <<>> \/ rungs' = Tail(rungs)) /\ (oks' = oks \/ oks' = Append(oks, FALSE))
      BY <1>2 DEF Ended
    <3> QED BY <3>2, <3>3, <3>4, <3>5
  <2> QED BY <2>1, <1>1, <1>3, <1>4, <1>12 DEF TypeOK
<1>14. FiguresMade'
  <2>1. CASE left = NoFile
    <3>1. oks' = Append(oks, FALSE) /\ oks \in Seq(BOOLEAN)
      BY <2>1, <1>1, <1>2 DEF Ended, TypeOK
    <3>2. FALSE \in Range(oks')
      <4>1. Len(oks) + 1 \in DOMAIN oks' /\ oks'[Len(oks) + 1] = FALSE
        BY <3>1
      <4> QED BY <4>1 DEF Range
    <3> QED BY <3>2 DEF FiguresMade
  <2>2. CASE left # NoFile
    BY <2>2, <1>1, <1>2, <1>3, <1>6 DEF FiguresMade, Measuring, Compared, Maker
  <2> QED BY <2>1, <2>2
<1>15. VectorsMade'
  <2>1. CASE left = NoFile
    BY <2>1, <1>2 DEF VectorsMade
  <2>2. CASE left # NoFile
    <3>1. pc' = "embed" /\ rungs' = Tail(rungs) /\ Compared(left)
      BY <2>2, <1>2, <1>3, <1>11
    <3>2. ~asked.persistent => /\ vectors'[<<"temporary", At.dtype>>] \in {NoFile, Maker(At)}
                              /\ vectors'[<<"temporary", "fp32">>] \in {NoFile, Maker(At)}
      BY <3>1, <1>1, <1>3, <1>8, <1>10, <1>12 DEF VectorsMade, Compared
    <3>3. CASE Rung = "fp32" /\ Tail(rungs) = <<At.dtype>>
      <4>1. rungs' \in Stages' /\ rungs' # <<>>
        BY <3>1, <3>3, <1>6 DEF Stages
      <4>2. Compared(vectors'[<<Prefix, "fp32">>])
        BY <3>1, <3>3, <1>12
      <4> QED BY <4>1, <4>2, <3>1, <3>2, <1>3, <1>6, <1>7 DEF VectorsMade, Compared, Maker
    <3>4. CASE Rung = At.dtype /\ Tail(rungs) = <<>> /\ Len(rungs) = 1
      <4>1. Compared(vectors[<<Prefix, "fp32">>])
        BY <3>4, <1>1, <1>3 DEF VectorsMade
      <4>2. Compared(vectors'[<<Prefix, "fp32">>]) /\ Compared(vectors'[<<Prefix, At.dtype>>])
        BY <4>1, <3>1, <3>4, <1>8, <1>12
      <4> QED BY <4>2, <3>1, <3>2, <3>4, <1>3, <1>6, <1>7 DEF VectorsMade, Stages, Compared, Maker
    <3> QED BY <3>3, <3>4, <1>3, <1>7, StageFacts
  <2> QED BY <2>1, <2>2
<1> QED BY <1>5, <1>13, <1>14, <1>15, ClaimStands DEF SweepInv, Finished, Measuring

(* What is compared is what the two rungs are.                             *)
LEMMA ScoreKeeps ==
  ASSUME SweepInv, Score
  PROVE  SweepInv'
<1>1. TypeOK /\ FiguresMade /\ VectorsMade
  BY DEF SweepInv
<1>2. /\ pc = "embed" /\ pc' = "measure" /\ rungs = <<>> /\ oks' = Append(oks, TRUE)
      /\ figures' = [reference |-> vectors[<<Prefix, "fp32">>], rung |-> vectors[<<Prefix, At.dtype>>]]
      /\ results' = results /\ vectors' = vectors /\ asked' = asked /\ todo' = todo /\ stats' = stats
      /\ index' = index /\ bytes' = bytes /\ rungs' = rungs /\ runs' = runs
  BY DEF Score, Ended, onDisk, plan
<1>3. Measuring /\ Measuring' /\ UNCHANGED <<results, plan, index, bytes>>
  BY <1>2 DEF Measuring, plan
<1>4. At \in Cells /\ At' = At
  BY <1>3, ClaimStands
<1>5. Compared(figures'.reference) /\ Compared(figures'.rung)
  <2>1. Len(rungs) < 2
    BY <1>2
  <2> QED BY <2>1, <1>1, <1>2 DEF VectorsMade
<1>6. TypeOK'
  <2>1. Prefix \in VectorSets /\ At.dtype \in Rungs /\ "fp32" \in Rungs
    BY <1>4, CellFacts DEF Prefix, VectorSets, Rungs
  <2>2. oks' \in Seq(BOOLEAN) /\ figures' \in [reference : Makers \cup {NoFile}, rung : Makers \cup {NoFile}]
    BY <2>1, <1>1, <1>2 DEF TypeOK
  <2> QED BY <2>2, <1>1, <1>2 DEF TypeOK
<1>7. FiguresMade'
  BY <1>2, <1>4, <1>5 DEF FiguresMade, Compared, Maker
<1>8. VectorsMade'
  BY <1>2 DEF VectorsMade
<1> QED BY <1>3, <1>6, <1>7, <1>8, ClaimStands DEF SweepInv, Finished, Measuring

(* A run that returns has nothing left; one that exits or is killed leaves *)
(* what is on disk.                                                        *)
LEMMA EndKeeps ==
  ASSUME SweepInv, Return \/ Exit \/ Crash
  PROVE  SweepInv'
<1>1. TypeOK /\ HandledSoFar /\ HashesPublished /\ ResultsRestOnWork /\ IndexSound
  BY DEF SweepInv
<1>2. CASE Return
  <2>1. /\ pc = "plan" /\ todo = <<>> /\ pc' = "returned" /\ UNCHANGED <<results, plan>> /\ results' = results
        /\ vectors' = vectors /\ asked' = asked /\ todo' = todo /\ index' = index /\ stats' = stats
        /\ runs' = runs /\ bytes' = bytes /\ rungs' = rungs /\ oks' = oks /\ figures' = figures
    BY <1>2 DEF Return, onDisk, plan, cell
  <2>2. TypeOK'
    BY <1>1, <2>1 DEF TypeOK
  <2>3. HandledSoFar' /\ HashesPublished' /\ ResultsRestOnWork'
    BY <1>1, <2>1, SamePlanKept
  <2>4. IndexSound'
    BY <1>1, <2>1 DEF IndexSound, Attempted, Measuring
  <2> QED BY <2>1, <2>2, <2>3, <2>4
          DEF SweepInv, Finished, AtHand, IndexWhole, MeasuredAlone, FiguresMade, VectorsMade, Measuring
<1>3. CASE Exit \/ Crash
  <2>1. /\ pc' = "idle" /\ results' = results /\ vectors' = vectors /\ asked' = asked
        /\ todo' \in {todo, <<>>} /\ index' = NoIndex /\ stats' = Zero /\ runs' = runs
        /\ bytes' \in {bytes, Unpublished} /\ rungs' \in {rungs, <<>>} /\ oks' \in {oks, <<>>}
        /\ figures' \in {figures, NoFigures}
    BY <1>3 DEF Exit, Crash, onDisk, cell
  <2>2. TypeOK'
    <3>1. NoIndex \in [Keys -> Cells \cup {NoOwner}] /\ Zero \in [Terminal \cup {"skipped"} -> Nat]
      BY DEF NoIndex, Zero
    <3>2. todo' \in Seq(Cells) /\ rungs' \in Seq(Rungs) /\ oks' \in Seq(BOOLEAN)
      <4>1. todo \in Seq(Cells) /\ rungs \in Seq(Rungs) /\ oks \in Seq(BOOLEAN)
        BY <1>1 DEF TypeOK
      <4>2. <<>> \in Seq(Cells) /\ <<>> \in Seq(Rungs) /\ <<>> \in Seq(BOOLEAN)
        OBVIOUS
      <4> QED BY <4>1, <4>2, <2>1
    <3>3. figures' \in [reference : Makers \cup {NoFile}, rung : Makers \cup {NoFile}]
      BY <1>1, <2>1 DEF TypeOK, NoFigures
    <3> QED BY <1>1, <2>1, <3>1, <3>2, <3>3 DEF TypeOK
  <2>3. HashesPublished' /\ ResultsRestOnWork'
    BY <1>1, <2>1 DEF HashesPublished, ResultsRestOnWork, OwnerAttempted, FiguresHaveMakers
  <2>4. IndexSound'
    BY <2>1 DEF IndexSound, NoIndex
  <2> QED BY <2>1, <2>2, <2>3, <2>4
          DEF SweepInv, HandledSoFar, Finished, AtHand, IndexWhole, MeasuredAlone, FiguresMade, VectorsMade, Measuring
<1> QED BY <1>2, <1>3

(* The invariant holds of every run of run_sweep.                          *)
LEMMA SweepSound == Spec => []SweepInv
<1>1. SweepInv /\ [Next]_vars => SweepInv'
  <2> SUFFICES ASSUME SweepInv, [Next]_vars PROVE SweepInv'
    OBVIOUS
  <2>1. CASE \E c \in Campaigns : Begin(c)
    BY <2>1, BeginKeeps
  <2>2. CASE Settle
    <3>1. PICK r \in ResultFiles : /\ todo # <<>> /\ results[At].status = "missing" /\ r.status # "missing"
                            /\ pc \in {"plan", "resolved", "measure", "embed"}
                            /\ RestsOnWork(r) /\ Write(r)
      BY <2>2, SettleWrites
    <3>2. pc # "idle"
      BY <3>1
    <3> QED BY <3>1, <3>2, WriteKeeps
  <2>3. CASE Measure
    BY <2>3, PlainRepKeeps, FidelityRepKeeps, EmbedCachedKeeps, EmbedKeeps, ScoreKeeps DEF Measure
  <2>4. CASE Skip \/ Resolve \/ Claim \/ Return \/ Exit \/ Crash
    BY <2>4, SkipKeeps, ResolveKeeps, ClaimKeeps, EndKeeps
  <2>5. CASE UNCHANGED vars
    <3>1. /\ results' = results /\ vectors' = vectors /\ pc' = pc /\ asked' = asked /\ todo' = todo
          /\ index' = index /\ bytes' = bytes /\ rungs' = rungs /\ oks' = oks /\ figures' = figures
          /\ stats' = stats /\ runs' = runs
      BY <2>5 DEF vars, onDisk, plan, cell
    <3>2. At' = At /\ Prefix' = Prefix /\ Tally' = Tally /\ PlanCells(asked)' = PlanCells(asked)
      BY <3>1 DEF At, Prefix, Tally
    <3>3. TypeOK' /\ AtHand' /\ HashesPublished' /\ IndexSound' /\ IndexWhole' /\ MeasuredAlone'
      BY <3>1, <3>2 DEF SweepInv, TypeOK, AtHand, HashesPublished, IndexSound, IndexWhole, MeasuredAlone,
                        Attempted, Measuring, PublishedOf
    <3>4. HandledSoFar'
      BY <3>1, <3>2 DEF SweepInv, HandledSoFar
    <3>5. FiguresMade' /\ VectorsMade'
      BY <3>1, <3>2 DEF SweepInv, FiguresMade, VectorsMade, Measuring, Compared, Stages, Maker
    <3>6. ResultsRestOnWork'
      BY <3>1 DEF SweepInv, ResultsRestOnWork, OwnerAttempted, FiguresHaveMakers
    <3> QED BY <3>1, <3>3, <3>4, <3>5, <3>6 DEF SweepInv, Finished
  <2> QED BY <2>1, <2>2, <2>3, <2>4, <2>5 DEF Next, Step
<1> QED BY SweepStarts, <1>1, PTL DEF Spec

(* A sweep that returns has settled every cell it was asked for and has    *)
(* counted each once, whatever the killed runs before it left behind       *)
(* (run_sweep).                                                            *)
THEOREM ReturnsWhole == Spec => []ReturnLeavesNoGap
<1>1. SweepInv => ReturnLeavesNoGap
  <2> SUFFICES ASSUME SweepInv, pc = "returned"
               PROVE  /\ Report(Range(PlanCells(asked)))["missing"] = {}
                      /\ Tally = Len(PlanCells(asked))
    BY DEF ReturnLeavesNoGap
  <2>1. todo = <<>>
    BY DEF SweepInv, Finished
  <2> DEFINE plans == PlanCells(asked)
  <2>2. plans \in Seq(Cells) /\ Len(plans) \in Nat
    BY PlanIsList DEF SweepInv, TypeOK
  <2>3. /\ \A i \in 1..(Len(plans) - Len(todo)) : results[plans[i]].status # "missing"
        /\ Tally = Len(plans) - Len(todo)
    BY DEF SweepInv, HandledSoFar
  <2>4. Report(Range(plans))["missing"] = {x \in Range(plans) : results[x].status = "missing"}
    BY DEF Report
  <2> HIDE DEF plans
  <2>5. Len(plans) - Len(todo) = Len(plans)
    BY <2>1, <2>2
  <2>6. \A x \in Range(plans) : results[x].status # "missing"
    BY <2>2, <2>3, <2>5 DEF Range
  <2> QED BY <2>3, <2>4, <2>5, <2>6 DEF plans
<1> QED BY SweepSound, <1>1, PTL

(* A duplicate names a cell of the same bytes that was attempted, and a    *)
(* figure compares vectors that were there: the cell's own, unless the     *)
(* vectors are kept (run_sweep, _measure_fidelity).                        *)
THEOREM SweepRestsOnWork == Spec => []ResultsRestOnWork
<1>1. SweepInv => ResultsRestOnWork
  BY DEF SweepInv
<1> QED BY SweepSound, <1>1, PTL

(* What a sweep returns is whole and rests on measurements, for every plan *)
(* and however often it was killed and resumed.                            *)
THEOREM CampaignsAreSound == Spec => []CampaignSound
<1>1. ReturnLeavesNoGap /\ ResultsRestOnWork => CampaignSound
  BY DEF CampaignSound
<1> QED BY <1>1, ReturnsWhole, SweepRestsOnWork, PTL

(* The results directory implements the ledger: no file is rewritten and   *)
(* no two cells of the same bytes are measured, across kills and resumes.  *)
THEOREM SweepIsLedger == Spec => SettlesOnce
<1>1. Init => Ledger!Init
  BY DEF Init, Ledger!Init, Missing, Result
<1>2. SweepInv /\ [Next]_vars => [results' # results => Ledger!Next]_vars
  <2> SUFFICES ASSUME SweepInv, Next, results' # results PROVE Ledger!Next
    OBVIOUS
  <2>1. Settle
    BY DEF Next, Step, Measure, Begin, Skip, Resolve, Claim, MeasureCost, MeasureRecall, MeasureFidelity,
           EmbedCached, Embed, Score, Return, Exit, Crash, onDisk
  <2>2. PICK r \in ResultFiles : /\ todo # <<>> /\ results[At].status = "missing" /\ r.status # "missing"
                          /\ pc \in {"plan", "resolved", "measure", "embed"}
                          /\ RestsOnWork(r) /\ Write(r)
    BY <2>1, SettleWrites
  <2>3. /\ At \in Cells /\ results' \in [Cells -> ResultFiles] /\ results'[At] = r
        /\ \A x \in Cells : x # At => results'[x] = results[x]
    BY <2>2, WriteIsOne
  <2>4. r.status \in Ledger!Verdicts \ {"missing"}
    BY <2>2 DEF ResultFiles, Terminal, Ledger!Verdicts
  <2>5. Ledger!MayBe(At, r.status)
    <3>1. HashesPublished /\ AtHand /\ MeasuredAlone
      BY DEF SweepInv
    <3>2. CASE r.status \in {"unloadable", "failed"}
      BY <3>2 DEF Ledger!MayBe
    <3>3. CASE r.status = "measured"
      <4>1. Measuring /\ bytes = PublishedOf(At)
        BY <2>2, <3>1, <3>3 DEF RestsOnWork, AtHand, Measuring
      <4>2. \A x \in Cells : results[x].status = "measured" => Key(x, PublishedOf(x)) # Key(At, PublishedOf(At))
        BY <4>1, <3>1 DEF MeasuredAlone, HashesPublished
      <4> QED BY <4>2, <3>3 DEF Ledger!MayBe, Ledger!Twins
    <3>4. CASE r.status = "duplicate"
      <4>1. /\ r.owner \in Cells \ {At} /\ results[r.owner].status \in {"measured", "failed"}
            /\ Key(r.owner, results[r.owner].hash) = Key(At, r.hash) /\ r.hash = PublishedOf(At)
        BY <2>2, <3>4 DEF RestsOnWork, Attempted
      <4>2. Key(r.owner, PublishedOf(r.owner)) = Key(At, PublishedOf(At))
        BY <4>1, <3>1 DEF HashesPublished
      <4> QED BY <4>1, <4>2, <3>4 DEF Ledger!MayBe, Ledger!Twins
    <3> QED BY <2>2, <3>2, <3>3, <3>4 DEF ResultFiles, Terminal
  <2>6. Ledger!Settle(At, r.status)
    BY <2>2, <2>3, <2>5 DEF Ledger!Settle
  <2> QED BY <2>3, <2>4, <2>6 DEF Ledger!Next
<1> QED BY <1>1, <1>2, SweepSound, PTL DEF Spec, SettlesOnce

-----------------------------------------------------------------------------
(* GoldenFixture: a snapshot is read while others write, and is of one     *)
(* moment all the same.                                                    *)

(* The records that are updated field by field.                            *)
LibraryShape == library = [kind |-> library.kind, declared |-> library.declared, readable |-> library.readable,
                           item |-> library.item, stored |-> library.stored, text |-> library.text,
                           takes |-> library.takes, queue |-> library.queue, version |-> library.version,
                           foreign |-> library.foreign]
CommandShape == command = [runs |-> command.runs, at |-> command.at, todo |-> command.todo, seen |-> command.seen,
                           pending |-> command.pending, start |-> command.start, texts |-> command.texts,
                           settled |-> command.settled, rows |-> command.rows, moment |-> command.moment]

(* A text is known by the number of its extraction, which is not above the *)
(* last one given out; no text has none.                                   *)
TextOf(t, takes) == /\ t.take \in 0..takes /\ t.version \in {0, t.take}
                    /\ t.take = 0 => t.of = "none"
TextsNumbered ==
  /\ library.takes \in Nat
  /\ DOMAIN library.text = Ids /\ \A d \in Ids : TextOf(library.text[d], library.takes)

(* Where a command is in its reading.                                      *)
Before == {"idle", "verify", "list", "write", "refresh", "settle", "reverify", "status", "open"}
FirstPass == {"item", "text"}
After == {"lastverify", "swap", "place"}

(* A row with a text has the version that was listed, and its number, if   *)
(* the library still shows it, is of that very text.                       *)
RowsStand ==
  \A d \in Ids : command.rows[d].of # "none" =>
    /\ TextOf(command.rows[d], library.takes) /\ command.rows[d].version = command.texts[d].version
    /\ library.text[d].take = command.rows[d].take => library.text[d] = command.rows[d]

(* A document that is not left to read has a row, empty for the controls.  *)
ControlEmpty(d) == command.rows[d].of = "none" <=> d \in library.declared
RowsRead == \A d \in Ids : d \in ToSet(command.todo) \/ ControlEmpty(d)

(* What was not the same when the first pass ended is not the same now,    *)
(* and what was read again was the same.                                   *)
MomentStands ==
  \A d \in Ids : command.rows[d].of # "none" /\ command.moment[d] # command.rows[d] =>
    /\ library.text[d] # command.rows[d]
    /\ d \in ReadTwice => d \in ToSet(command.todo)

(* A snapshot's texts are of the moment, and it lacks those of the controls.*)
OfMoment(rows, moment) ==
  /\ \A d \in Ids : rows[d].of # "none" => rows[d] = moment[d]
  /\ \A d \in Ids : rows[d].of = "none" <=> d \in library.declared

CaptureInv ==
  /\ command.at \in Before => command.rows = NoTexts
  /\ command.at \in FirstPass \union {"again"} =>
       DOMAIN command.rows = Ids /\ command.todo \in Seq(Ids) /\ RowsStand
  /\ command.at = "text" => command.todo # <<>>
  /\ command.at \in FirstPass => RowsRead
  /\ command.at = "again" => MomentStands /\ \A d \in Ids : ControlEmpty(d)
  /\ command.at \in After => OfMoment(command.rows, command.moment)

FolderInv ==
  /\ folder = [now |-> folder.now, aside |-> folder.aside]
  /\ folder.now.whole => OfMoment(folder.now.rows, folder.now.moment)
  /\ folder.aside.whole => OfMoment(folder.aside.rows, folder.aside.moment)

FixtureInv ==
  /\ LibraryShape /\ CommandShape /\ library.declared \subseteq Ids
  /\ command.at \in Before \union FirstPass \union {"again", "clear"} \union After
  /\ TextsNumbered /\ CaptureInv /\ FolderInv

-----------------------------------------------------------------------------
SameTexts == /\ LibraryShape' /\ library'.text = library.text /\ library'.takes = library.takes
             /\ library'.declared = library.declared

(* While no row is read, what a command does is of no matter.              *)
LEMMA EarlyKeeps ==
  ASSUME FixtureInv, SameTexts, CommandShape', command'.at \in Before, command'.rows = NoTexts, FolderInv'
  PROVE  FixtureInv'
<1>1. LibraryShape' /\ library'.declared \subseteq Ids
  BY DEF FixtureInv, SameTexts
<1>2. TextsNumbered'
  BY DEF FixtureInv, TextsNumbered, TextOf, SameTexts
<1>3. CaptureInv'
  BY DEF CaptureInv, Before, FirstPass, After
<1> QED BY <1>1, <1>2, <1>3 DEF FixtureInv

(* The folder is not touched, or only what it set aside.                   *)
LEMMA FolderStays ==
  ASSUME FixtureInv, SameTexts, folder' = folder \/ folder' = [folder EXCEPT !.aside = NoSnapshot]
  PROVE  FolderInv'
<1>1. /\ folder'.now = folder.now /\ folder'.aside \in {folder.aside, NoSnapshot}
      /\ folder' = [now |-> folder'.now, aside |-> folder'.aside]
  BY DEF FixtureInv, FolderInv
<1> QED BY <1>1 DEF FixtureInv, FolderInv, OfMoment, SameTexts, NoSnapshot

(* A library that is left alone keeps its texts.                           *)
LEMMA LibraryStays ==
  ASSUME FixtureInv, UNCHANGED library
  PROVE  SameTexts
BY DEF FixtureInv, SameTexts, LibraryShape

(* Others, and Zotero's own writes of items, change no text.               *)
LEMMA ItemsAlone ==
  ASSUME FixtureInv, NEW item, NEW stored, NEW queue, NEW version, NEW foreign,
         library' = [library EXCEPT !.item = item, !.stored = stored, !.queue = queue, !.version = version,
                                    !.foreign = foreign]
  PROVE  SameTexts
BY DEF FixtureInv, SameTexts, LibraryShape

(* A command that is over rests.                                           *)
LEMMA DoneRests ==
  ASSUME Done
  PROVE  CommandShape' /\ command'.at = "idle" /\ command'.rows = NoTexts /\ command'.at \in Before
BY DEF Done, Resting, CommandShape, Before

(* A command that goes to its next step, or to the next of its list.       *)
LEMMA StepFacts ==
  ASSUME FixtureInv
  PROVE  /\ \A at : Proceed(at) =>
              /\ CommandShape' /\ command'.at = at /\ command'.todo = command.todo /\ command'.rows = command.rows
              /\ command'.moment = command.moment /\ command'.texts = command.texts
         /\ command' = Next1 =>
              /\ CommandShape' /\ command'.at = command.at /\ command'.todo = Tail(command.todo)
              /\ command'.rows = command.rows /\ command'.moment = command.moment /\ command'.texts = command.texts
BY DEF FixtureInv, CommandShape, Proceed, Next1

(* The steps of a command before it reads, and its end.                    *)
LEMMA EarlyActions ==
  ASSUME FixtureInv,
         \/ BeginCommand \/ Killed \/ (VerifySources /\ command.at # "lastverify") \/ List \/ WriteItem
         \/ Upload \/ Reindex \/ Retire \/ Retired \/ Refresh \/ SettleState \/ Status
  PROVE  FixtureInv'
<1>1. CommandShape /\ LibraryShape /\ (command.at \in Before => command.rows = NoTexts)
  BY DEF FixtureInv, CaptureInv
<1> DEFINE Early == CommandShape' /\ command'.at \in Before /\ command'.rows = NoTexts
<1>2. SUFFICES SameTexts /\ Early /\ (folder' = folder \/ folder' = [folder EXCEPT !.aside = NoSnapshot])
  BY EarlyKeeps, FolderStays
<1>3. CASE BeginCommand
  <2>1. PICK name \in {"inject", "retire", "export"} :
          command' = [Resting EXCEPT !.runs = name, !.at = IF name = "retire" THEN "list" ELSE "verify"]
    BY <1>3 DEF BeginCommand
  <2>2. PICK at \in {"list", "verify"} : command' = [Resting EXCEPT !.runs = name, !.at = at]
    BY <2>1
  <2>3. Early
    BY <2>2 DEF Resting, CommandShape, Before
  <2> QED BY <1>3, <2>3, LibraryStays DEF BeginCommand
<1>4. CASE Killed \/ Retired
  BY <1>4, DoneRests, LibraryStays DEF Killed, Retired, Still
<1>5. CASE VerifySources /\ command.at # "lastverify"
  <2>1. command.at \in {"verify", "reverify"}
    BY <1>5 DEF VerifySources, AfterVerify
  <2>2. AfterVerify[command.at] \in {"list", "refresh", "status"}
    BY <2>1 DEF AfterVerify
  <2>3. (Proceed(AfterVerify[command.at]) \/ Done) /\ UNCHANGED <<library, folder>>
    BY <1>5 DEF VerifySources, Refuse, Still
  <2>4. Early
    BY <1>1, <2>1, <2>2, <2>3, DoneRests, StepFacts DEF Before
  <2> QED BY <2>3, <2>4, LibraryStays
<1>6. CASE List
  <2>1. command.at = "list" /\ UNCHANGED <<library, folder>>
    BY <1>6 DEF List, Still
  <2>2. \/ Done
        \/ \E left : command' = [command EXCEPT !.at = "write", !.seen = library.item, !.todo = left]
    BY <1>6 DEF List, Refuse
  <2>3. Early
    BY <1>1, <2>1, <2>2, DoneRests DEF Before, CommandShape
  <2> QED BY <2>1, <2>3, LibraryStays
<1>7. CASE WriteItem
  <2>1. PICK d \in Ids, p \in Parts :
          /\ Runs("inject", "write")
          /\ LET was == command.seen[d][p] IN
               IF was.is = "ours" THEN command' = Next1 /\ UNCHANGED library
               ELSE IF library.item[d][p].version # was.version THEN Refuse /\ UNCHANGED library
               ELSE /\ library' = [library EXCEPT !.version = @ + 1, !.item[d][p] = Ours(library.version + 1)]
                    /\ command' = IF p = "attachment" THEN [Next1 EXCEPT !.pending = @ \union {d}] ELSE Next1
          /\ UNCHANGED <<sources, folder, budget>>
    BY <1>7 DEF WriteItem
  <2>2. command.at = "write" /\ UNCHANGED folder
    BY <2>1 DEF Runs
  <2>3. \/ UNCHANGED library
        \/ library' = [library EXCEPT !.version = @ + 1, !.item[d][p] = Ours(library.version + 1)]
    BY <2>1
  <2>4. command' = Next1 \/ Done \/ command' = [Next1 EXCEPT !.pending = @ \union {d}]
    BY <2>1 DEF Refuse
  <2>5. Early
    BY <1>1, <2>2, <2>4, DoneRests, StepFacts DEF Before, CommandShape, Next1
  <2>6. SameTexts
    BY <1>1, <2>3, LibraryStays DEF LibraryShape, SameTexts
  <2> QED BY <2>2, <2>5, <2>6
<1>8. CASE Upload
  <2>1. PICK d \in Ids :
          /\ Runs("inject", "write")
          /\ IF library.kind = "user" THEN command' = Next1 /\ UNCHANGED library
             ELSE \/ /\ library' = [library EXCEPT !.stored[d] = sources[d]]
                     /\ command' = [Next1 EXCEPT !.pending = @ \union {d}]
                  \/ Refuse /\ UNCHANGED library
          /\ UNCHANGED <<sources, folder, budget>>
    BY <1>8 DEF Upload
  <2>2. command.at = "write" /\ UNCHANGED folder
    BY <2>1 DEF Runs
  <2>3. UNCHANGED library \/ library' = [library EXCEPT !.stored[d] = sources[d]]
    BY <2>1
  <2>4. command' = Next1 \/ Done \/ command' = [Next1 EXCEPT !.pending = @ \union {d}]
    BY <2>1 DEF Refuse
  <2>5. Early
    BY <1>1, <2>2, <2>4, DoneRests, StepFacts DEF Before, CommandShape, Next1
  <2>6. SameTexts
    BY <1>1, <2>3, LibraryStays DEF LibraryShape, SameTexts
  <2> QED BY <2>2, <2>5, <2>6
<1>9. CASE Reindex
  <2>1. /\ command.at = "write" /\ UNCHANGED folder /\ (Done \/ Proceed("settle"))
        /\ library' = [library EXCEPT !.queue = @ \union command.pending]
    BY <1>9 DEF Reindex, Runs
  <2>2. Early
    BY <1>1, <2>1, DoneRests, StepFacts DEF Before
  <2>3. SameTexts
    BY <1>1, <2>1 DEF LibraryShape, SameTexts
  <2> QED BY <2>1, <2>2, <2>3
<1>10. CASE Retire
  <2>1. /\ command.at = "write" /\ UNCHANGED folder /\ (Done \/ command' = Next1)
        /\ \/ UNCHANGED library
           \/ \E d : library' = [library EXCEPT !.version = @ + 1, !.item[d] = [p \in Parts |-> NoItem]]
    BY <1>10 DEF Retire, Runs, Refuse
  <2>2. Early
    BY <1>1, <2>1, DoneRests, StepFacts DEF Before
  <2>3. SameTexts
    BY <1>1, <2>1, LibraryStays DEF LibraryShape, SameTexts
  <2> QED BY <2>1, <2>2, <2>3
<1>11. CASE Refresh
  <2>1. /\ command.at = "refresh" /\ UNCHANGED folder
        /\ \/ /\ library' = [library EXCEPT !.queue = Ids]
              /\ command' = [command EXCEPT !.at = "settle", !.texts = library.text]
           \/ Done /\ UNCHANGED library
    BY <1>11 DEF Refresh, Refuse
  <2>2. Early
    BY <1>1, <2>1, DoneRests DEF Before, CommandShape
  <2>3. SameTexts
    BY <1>1, <2>1, LibraryStays DEF LibraryShape, SameTexts
  <2> QED BY <2>1, <2>2, <2>3
<1>12. CASE SettleState
  <2>1. /\ command.at = "settle" /\ UNCHANGED <<library, folder>>
        /\ \/ Done
           \/ \E settled : command' = [command EXCEPT !.at = "reverify", !.texts = NoTexts, !.settled = settled]
    BY <1>12 DEF SettleState, Refuse, Still
  <2>2. Early
    BY <1>1, <2>1, DoneRests DEF Before, CommandShape
  <2> QED BY <2>1, <2>2, LibraryStays
<1>13. CASE Status
  <2>1. command.at = "status" /\ UNCHANGED <<library, folder>> /\ (Done \/ Proceed("open"))
    BY <1>13 DEF Status, Refuse, Still
  <2>2. Early
    BY <1>1, <2>1, DoneRests, StepFacts DEF Before
  <2> QED BY <2>1, <2>2, LibraryStays
<1> QED BY <1>3, <1>4, <1>5, <1>6, <1>7, <1>8, <1>9, <1>10, <1>11, <1>12, <1>13

(* A text that is extracted or synced in is none there was.                *)
LEMMA TakesKeep ==
  ASSUME FixtureInv, UNCHANGED <<command, folder>>, NEW d, NEW t, Takes(d, t),
         \/ t = NoText \/ t = library.text[d]
         \/ t.take = library.takes + 1 /\ t.version \in {0, library.takes + 1}
  PROVE  FixtureInv'
<1>1. /\ LibraryShape /\ TextsNumbered /\ CaptureInv /\ FolderInv /\ library.declared \subseteq Ids
      /\ command' = command /\ folder' = folder
  BY DEF FixtureInv
<1>2. /\ LibraryShape' /\ library'.declared = library.declared /\ library'.takes = library.takes + 1
      /\ library'.text = [library.text EXCEPT ![d] = t]
  BY <1>1 DEF Takes, LibraryShape
<1>3. /\ DOMAIN library'.text = Ids /\ (d \in Ids => library'.text[d] = t) /\ library.takes \in Nat
      /\ \A e \in Ids : e # d => library'.text[e] = library.text[e]
      /\ \A e \in Ids : TextOf(library.text[e], library.takes)
  BY <1>1, <1>2 DEF TextsNumbered
<1>4. \A u : TextOf(u, library.takes) => TextOf(u, library'.takes)
  BY <1>2, <1>3 DEF TextOf
<1>5. TextsNumbered'
  <2>1. d \in Ids => TextOf(t, library'.takes)
    BY <1>2, <1>3, <1>4 DEF TextOf, NoText
  <2> QED BY <2>1, <1>2, <1>3, <1>4 DEF TextsNumbered
<1>6. RowsStand => RowsStand'
  <2> SUFFICES ASSUME RowsStand, NEW e \in Ids, command.rows[e].of # "none"
               PROVE  /\ TextOf(command.rows[e], library'.takes) /\ command.rows[e].version = command.texts[e].version
                      /\ library'.text[e].take = command.rows[e].take => library'.text[e] = command.rows[e]
    BY <1>1 DEF RowsStand
  <2>1. /\ TextOf(command.rows[e], library.takes) /\ command.rows[e].version = command.texts[e].version
        /\ library.text[e].take = command.rows[e].take => library.text[e] = command.rows[e]
    BY DEF RowsStand
  <2>2. command.rows[e].take \in 1..library.takes
    BY <2>1, <1>3 DEF TextOf
  <2> QED BY <2>1, <2>2, <1>3, <1>4 DEF NoText
<1>7. RowsStand /\ MomentStands => MomentStands'
  <2> SUFFICES ASSUME RowsStand, MomentStands, NEW e \in Ids, command.rows[e].of # "none",
                      command.moment[e] # command.rows[e]
               PROVE  library'.text[e] # command.rows[e] /\ (e \in ReadTwice => e \in ToSet(command.todo))
    BY <1>1 DEF MomentStands, ReadTwice
  <2>1. command.rows[e].take \in 1..library.takes
    BY <1>3 DEF TextOf, RowsStand
  <2> QED BY <2>1, <1>3 DEF MomentStands, NoText
<1>8. CaptureInv'
  BY <1>1, <1>2, <1>6, <1>7 DEF CaptureInv, RowsRead, ControlEmpty, OfMoment
<1>9. FolderInv'
  BY <1>1, <1>2 DEF FolderInv, OfMoment
<1> QED BY <1>1, <1>2, <1>5, <1>8, <1>9 DEF FixtureInv, CommandShape

(* A library whose texts are kept is the same to a command that rests on   *)
(* its own fields.                                                         *)
LEMMA OthersAlone ==
  ASSUME FixtureInv, SameTexts, UNCHANGED <<command, folder>>
  PROVE  FixtureInv'
<1>1. command' = command /\ folder' = folder
  OBVIOUS
<1> QED BY <1>1 DEF FixtureInv, SameTexts, TextsNumbered, CaptureInv, FolderInv, CommandShape, RowsStand, RowsRead,
                    ControlEmpty, MomentStands, ReadTwice, OfMoment

(* Zotero extracts, and people change what they like.                      *)
LEMMA OthersKeep ==
  ASSUME FixtureInv, Extract \/ Others
  PROVE  FixtureInv'
<1>1. UNCHANGED <<command, folder>>
  BY DEF Extract, Others
<1>2. \A d : \/ Extracted(d) = NoText \/ Extracted(d) = library.text[d]
             \/ Extracted(d).take = library.takes + 1 /\ Extracted(d).version \in {0, library.takes + 1}
  BY DEF Extracted
<1>3. ASSUME NEW d, Takes(d, Extracted(d)) PROVE FixtureInv'
  BY <1>1, <1>2, <1>3, TakesKeep
<1>4. CASE Extract
  BY <1>4, <1>3 DEF Extract
<1>5. CASE Reextracts
  BY <1>5, <1>3 DEF Reextracts
<1>6. CASE Syncs
  BY <1>6, <1>1, TakesKeep DEF Syncs, Synced
<1>7. CASE Drifts
  <2>1. PICK d \in Ids, p \in Parts :
          library' = [library EXCEPT !.version = @ + 1,
                                     !.item[d][p] = [is |-> "drifted", version |-> library.version + 1]]
    BY <1>7 DEF Drifts
  <2>2. SameTexts
    BY <2>1 DEF FixtureInv, LibraryShape, SameTexts
  <2> QED BY <2>2, <1>1, OthersAlone
<1>8. CASE Strays
  <2>1. SameTexts
    BY <1>8 DEF Strays, FixtureInv, LibraryShape, SameTexts
  <2> QED BY <2>1, <1>1, OthersAlone
<1>9. CASE SourceChanges
  <2>1. SameTexts
    BY <1>9, LibraryStays DEF SourceChanges
  <2> QED BY <2>1, <1>1, OthersAlone
<1> QED BY <1>4, <1>5, <1>6, <1>7, <1>8, <1>9 DEF Others

-----------------------------------------------------------------------------
(* A document that is read leaves the list, and every other stays.         *)
LEMMA NextOfList ==
  ASSUME NEW list \in Seq(Ids), list # <<>>
  PROVE  /\ Head(list) \in Ids /\ Tail(list) \in Seq(Ids)
         /\ \A d \in ToSet(list) : d = Head(list) \/ d \in ToSet(Tail(list))
<1>1. Head(list) = list[1] /\ Len(list) \in Nat \ {0} /\ Tail(list) \in Seq(Ids) /\ list[1] \in Ids
  OBVIOUS
<1>2. ASSUME NEW i \in 1..Len(list), i # 1 PROVE list[i] \in ToSet(Tail(list))
  <2>1. i - 1 \in 1..Len(Tail(list)) /\ Tail(list)[i - 1] = list[i]
    BY <1>2
  <2>2. DOMAIN Tail(list) = 1..Len(Tail(list))
    BY <1>1
  <2> QED BY <2>1, <2>2 DEF ToSet
<1>3. \A d \in ToSet(list) : \E i \in 1..Len(list) : d = list[i]
  BY DEF ToSet
<1> QED BY <1>1, <1>2, <1>3

(* The recipe is read from its first document.                             *)
LEMMA RecipeIsList == Docs \in Seq(Ids) /\ Ids = ToSet(Docs)
BY DocsAssumption DEF Ids

(* A list that is at its end has no document left.                         *)
LEMMA EndOfList == \A d : d \notin ToSet(<<>>)
BY DEF ToSet

(* The list of items opens the reading: nothing is read yet.               *)
LEMMA ListItemsKeeps ==
  ASSUME FixtureInv, ListItems
  PROVE  FixtureInv'
<1>1. /\ LibraryShape /\ CommandShape /\ TextsNumbered /\ CaptureInv /\ FolderInv /\ library.declared \subseteq Ids
      /\ command.at = "open" /\ UNCHANGED <<library, folder>>
  BY DEF FixtureInv, ListItems, Still
<1>2. command.rows = NoTexts
  BY <1>1 DEF CaptureInv, Before
<1>3. CommandShape' /\ command'.at = "item" /\ command'.todo = Docs /\ command'.rows = NoTexts
  BY <1>1, <1>2 DEF ListItems, CommandShape
<1>4. DOMAIN NoTexts = Ids /\ \A d \in Ids : NoTexts[d].of = "none"
  BY DEF NoTexts, NoText
<1>5. CaptureInv'
  BY <1>3, <1>4, RecipeIsList DEF CaptureInv, Before, FirstPass, After, RowsStand, RowsRead
<1> QED BY <1>1, <1>3, <1>5
        DEF FixtureInv, LibraryShape, TextsNumbered, FolderInv, OfMoment, Before, FirstPass, After

(* The items of a document are as they were, or the export is refused.     *)
LEMMA ChildrenKeeps ==
  ASSUME FixtureInv, Children
  PROVE  FixtureInv'
<1>1. /\ LibraryShape /\ CommandShape /\ TextsNumbered /\ CaptureInv /\ FolderInv /\ library.declared \subseteq Ids
      /\ command.at = "item" /\ command.todo # <<>> /\ UNCHANGED <<library, folder>> /\ library' = library
      /\ folder' = folder
  BY DEF FixtureInv, Children, Still
<1>2. CASE Done
  BY <1>1, <1>2, DoneRests, LibraryStays, FolderStays, EarlyKeeps
<1>3. CASE Proceed("text")
  <2>1. /\ CommandShape' /\ command'.at = "text" /\ command'.todo = command.todo /\ command'.rows = command.rows
        /\ command'.texts = command.texts
    BY <1>3, StepFacts
  <2>2. CaptureInv'
    BY <1>1, <2>1 DEF CaptureInv, Before, FirstPass, After, RowsStand, RowsRead, ControlEmpty
  <2> QED BY <1>1, <2>1, <2>2
          DEF FixtureInv, LibraryShape, TextsNumbered, FolderInv, OfMoment, Before, FirstPass, After
<1> QED BY <1>2, <1>3 DEF Children, Refuse

(* What is read is what the library has, at the version that was listed.   *)
LEMMA TextKeeps ==
  ASSUME FixtureInv, Text
  PROVE  FixtureInv'
<1> DEFINE d == Head(command.todo)
<1>1. /\ LibraryShape /\ CommandShape /\ TextsNumbered /\ CaptureInv /\ FolderInv /\ library.declared \subseteq Ids
      /\ command.at = "text" /\ UNCHANGED <<library, folder>> /\ library' = library /\ folder' = folder
  BY DEF FixtureInv, Text, Still
<1>2. /\ DOMAIN command.rows = Ids /\ command.todo \in Seq(Ids) /\ command.todo # <<>> /\ RowsStand /\ RowsRead
  BY <1>1 DEF CaptureInv, FirstPass
<1>3. CASE Done
  BY <1>1, <1>3, DoneRests, LibraryStays, FolderStays, EarlyKeeps
<1>4. CASE Servable(d) /\ command' = [Next1 EXCEPT !.at = "item", !.rows[d] = library.text[d]]
  <2>1. /\ CommandShape' /\ command'.at = "item" /\ command'.todo = Tail(command.todo)
        /\ command'.rows = [command.rows EXCEPT ![d] = library.text[d]] /\ command'.texts = command.texts
    BY <1>1, <1>4 DEF CommandShape, Next1
  <2>2. /\ d \in Ids /\ Tail(command.todo) \in Seq(Ids)
        /\ \A e \in ToSet(command.todo) : e = d \/ e \in ToSet(Tail(command.todo))
    BY <1>2, NextOfList
  <2>3. /\ DOMAIN command'.rows = Ids /\ command'.rows[d] = library.text[d]
        /\ \A e \in Ids : e # d => command'.rows[e] = command.rows[e]
    BY <1>2, <2>1, <2>2
  <2>4. RowsStand'
    <3>1. TextOf(library.text[d], library.takes)
      BY <1>1, <2>2 DEF TextsNumbered
    <3>2. library.text[d].of # "none" => library.text[d].version = command.texts[d].version
      BY <1>4 DEF Servable
    <3> QED BY <1>1, <1>2, <2>1, <2>3, <3>1, <3>2 DEF RowsStand
  <2>5. RowsRead'
    <3>1. library.text[d].of = "none" <=> d \in library.declared
      BY <1>4 DEF Servable
    <3> QED BY <1>1, <1>2, <2>1, <2>2, <2>3, <3>1 DEF RowsRead, ControlEmpty
  <2>6. CaptureInv'
    BY <2>1, <2>2, <2>3, <2>4, <2>5 DEF CaptureInv, Before, FirstPass, After
  <2> QED BY <1>1, <2>1, <2>6
          DEF FixtureInv, LibraryShape, TextsNumbered, FolderInv, OfMoment, Before, FirstPass, After
<1> QED BY <1>3, <1>4 DEF Text, Refuse

(* The first pass ends: from here on, the moment is the one it ended at.   *)
LEMMA FirstPassKeeps ==
  ASSUME FixtureInv, FirstPassEnds
  PROVE  FixtureInv'
<1>1. /\ LibraryShape /\ CommandShape /\ TextsNumbered /\ CaptureInv /\ FolderInv /\ library.declared \subseteq Ids
      /\ command.at = "item" /\ command.todo = <<>> /\ UNCHANGED <<library, folder>> /\ library' = library
      /\ folder' = folder
  BY DEF FixtureInv, FirstPassEnds, Still
<1>2. DOMAIN command.rows = Ids /\ RowsStand /\ RowsRead
  BY <1>1 DEF CaptureInv, FirstPass
<1>3. /\ CommandShape' /\ command'.at = "again" /\ command'.todo = Docs /\ command'.rows = command.rows
      /\ command'.texts = command.texts /\ command'.moment = library.text
  BY <1>1 DEF FirstPassEnds, CommandShape
<1>4. \A d \in Ids : ControlEmpty(d)'
  BY <1>1, <1>2, <1>3, EndOfList DEF RowsRead, ControlEmpty
<1>5. RowsStand' /\ MomentStands'
  BY <1>1, <1>2, <1>3, RecipeIsList DEF RowsStand, MomentStands, ReadTwice
<1>6. CaptureInv'
  BY <1>1, <1>2, <1>3, <1>4, <1>5, RecipeIsList DEF CaptureInv, Before, FirstPass, After
<1> QED BY <1>1, <1>3, <1>6
          DEF FixtureInv, LibraryShape, TextsNumbered, FolderInv, OfMoment, Before, FirstPass, After

(* A body that is read again is the one that was read.                     *)
LEMMA AgainKeeps ==
  ASSUME FixtureInv, Again
  PROVE  FixtureInv'
<1> DEFINE d == Head(command.todo)
<1>1. /\ LibraryShape /\ CommandShape /\ TextsNumbered /\ CaptureInv /\ FolderInv /\ library.declared \subseteq Ids
      /\ command.at = "again" /\ command.todo # <<>> /\ UNCHANGED <<library, folder>> /\ library' = library
      /\ folder' = folder
  BY DEF FixtureInv, Again, Still
<1>2. /\ DOMAIN command.rows = Ids /\ command.todo \in Seq(Ids) /\ RowsStand /\ MomentStands
      /\ \A e \in Ids : ControlEmpty(e)
  BY <1>1 DEF CaptureInv, FirstPass
<1>3. CASE Done
  BY <1>1, <1>3, DoneRests, LibraryStays, FolderStays, EarlyKeeps
<1>4. CASE (d \in ReadTwice => library.text[d] = command.rows[d]) /\ command' = Next1
  <2>1. /\ CommandShape' /\ command'.at = "again" /\ command'.todo = Tail(command.todo)
        /\ command'.rows = command.rows /\ command'.texts = command.texts /\ command'.moment = command.moment
    BY <1>1, <1>4, StepFacts
  <2>2. /\ d \in Ids /\ Tail(command.todo) \in Seq(Ids)
        /\ \A e \in ToSet(command.todo) : e = d \/ e \in ToSet(Tail(command.todo))
    BY <1>1, <1>2, NextOfList
  <2>3. MomentStands'
    BY <1>1, <1>2, <1>4, <2>1, <2>2 DEF MomentStands, ReadTwice
  <2>4. RowsStand' /\ \A e \in Ids : ControlEmpty(e)'
    BY <1>1, <1>2, <2>1 DEF RowsStand, ControlEmpty
  <2>5. CaptureInv'
    BY <1>2, <2>1, <2>2, <2>3, <2>4 DEF CaptureInv, Before, FirstPass, After
  <2> QED BY <1>1, <2>1, <2>5
          DEF FixtureInv, LibraryShape, TextsNumbered, FolderInv, OfMoment, Before, FirstPass, After
<1> QED BY <1>3, <1>4 DEF Again, Refuse

(* The versions are those that were listed, so what is above 0 never       *)
(* moved; what is of version 0 was read again.                             *)
LEMMA EndingKeeps ==
  ASSUME FixtureInv, Ending
  PROVE  FixtureInv'
<1>1. /\ LibraryShape /\ CommandShape /\ TextsNumbered /\ CaptureInv /\ FolderInv /\ library.declared \subseteq Ids
      /\ command.at = "again" /\ command.todo = <<>> /\ UNCHANGED <<library, folder>> /\ library' = library
      /\ folder' = folder
  BY DEF FixtureInv, Ending, Still
<1>2. /\ RowsStand /\ MomentStands /\ \A d \in Ids : ControlEmpty(d)
  BY <1>1 DEF CaptureInv, FirstPass
<1>3. CASE Done
  BY <1>1, <1>3, DoneRests, LibraryStays, FolderStays, EarlyKeeps
<1>4. CASE Versions(library.text) = Versions(command.texts) /\ Proceed("lastverify")
  <2>1. /\ CommandShape' /\ command'.at = "lastverify" /\ command'.rows = command.rows
        /\ command'.moment = command.moment
    BY <1>4, StepFacts
  <2>2. \A d \in Ids : library.text[d].version = command.texts[d].version
    BY <1>4 DEF Versions
  <2>3. ASSUME NEW d \in Ids, command.rows[d].of # "none" PROVE command.rows[d] = command.moment[d]
    <3>1. /\ TextOf(command.rows[d], library.takes) /\ command.rows[d].version = command.texts[d].version
          /\ library.text[d].take = command.rows[d].take => library.text[d] = command.rows[d]
          /\ TextOf(library.text[d], library.takes) /\ library.takes \in Nat
      BY <1>1, <1>2, <2>3 DEF RowsStand, TextsNumbered
    <3>2. CASE command.texts[d].version = 0
      BY <3>2, <1>1, <1>2, <2>3, EndOfList DEF MomentStands, ReadTwice
    <3>3. CASE command.texts[d].version # 0
      <4>1. library.text[d].take = command.rows[d].take
        BY <3>1, <3>3, <2>2 DEF TextOf
      <4> QED BY <4>1, <3>1, <1>2, <2>3 DEF MomentStands
    <3> QED BY <3>2, <3>3
  <2>4. CaptureInv'
    BY <1>1, <1>2, <2>1, <2>3 DEF CaptureInv, Before, FirstPass, After, OfMoment, ControlEmpty
  <2> QED BY <1>1, <2>1, <2>4
          DEF FixtureInv, LibraryShape, TextsNumbered, FolderInv, OfMoment, Before, FirstPass, After
<1> QED BY <1>3, <1>4 DEF Ending, Refuse

(* The sources are verified a last time and the snapshot is put in place   *)
(* of the one there was, which comes back on an error.                     *)
LEMMA SwapKeeps ==
  ASSUME FixtureInv, (VerifySources /\ command.at = "lastverify") \/ Swap \/ Place \/ Clear
  PROVE  FixtureInv'
<1>1. /\ LibraryShape /\ CommandShape /\ TextsNumbered /\ CaptureInv /\ FolderInv /\ library.declared \subseteq Ids
  BY DEF FixtureInv
<1>2. UNCHANGED library /\ library' = library
  BY DEF VerifySources, Still, Swap, Place, Clear
<1>3. /\ folder = [now |-> folder.now, aside |-> folder.aside] /\ ~NoSnapshot.whole
      /\ folder.now.whole => OfMoment(folder.now.rows, folder.now.moment)
      /\ folder.aside.whole => OfMoment(folder.aside.rows, folder.aside.moment)
  BY <1>1 DEF FolderInv, NoSnapshot
<1>4. ASSUME Done, FolderInv' PROVE FixtureInv'
  BY <1>2, <1>4, DoneRests, LibraryStays, EarlyKeeps
<1>5. ASSUME NEW at \in {"swap", "place", "clear"}, Proceed(at), FolderInv', command.at \in After
      PROVE  FixtureInv'
  <2>1. /\ CommandShape' /\ command'.at = at /\ command'.rows = command.rows /\ command'.moment = command.moment
    BY <1>5, StepFacts
  <2>2. OfMoment(command.rows, command.moment)
    BY <1>1, <1>5 DEF CaptureInv
  <2>3. CaptureInv'
    BY <1>2, <2>1, <2>2 DEF CaptureInv, Before, FirstPass, After, OfMoment
  <2> QED BY <1>1, <1>2, <1>5, <2>1, <2>3
          DEF FixtureInv, LibraryShape, TextsNumbered, Before, FirstPass, After
<1>6. CASE VerifySources /\ command.at = "lastverify"
  <2>1. (Proceed("swap") \/ Done) /\ UNCHANGED folder /\ command.at \in After
    BY <1>6 DEF VerifySources, AfterVerify, Still, Refuse, After
  <2>2. FolderInv'
    BY <1>2, <1>3, <2>1 DEF FolderInv, OfMoment
  <2> QED BY <2>1, <2>2, <1>4, <1>5
<1>7. CASE Swap
  <2>1. command.at \in After
    BY <1>7 DEF Swap, After
  <2>2. CASE Done /\ UNCHANGED folder
    <3>1. FolderInv'
      BY <1>2, <1>3, <2>2 DEF FolderInv, OfMoment
    <3> QED BY <2>2, <3>1, <1>4
  <2>3. CASE Proceed("place") /\ folder' = [now |-> NoSnapshot, aside |-> folder.now]
    <3>1. FolderInv'
      BY <1>2, <1>3, <2>3 DEF FolderInv, OfMoment
    <3> QED BY <2>1, <2>3, <3>1, <1>5
  <2> QED BY <1>7, <2>2, <2>3 DEF Swap, Refuse
<1>8. CASE Place
  <2>1. command.at \in After /\ OfMoment(command.rows, command.moment)
    BY <1>1, <1>8 DEF Place, After, CaptureInv
  <2>2. CASE Done /\ folder' = [now |-> folder.aside, aside |-> NoSnapshot]
    <3>1. FolderInv'
      BY <1>2, <1>3, <2>2 DEF FolderInv, OfMoment
    <3> QED BY <2>2, <3>1, <1>4
  <2>3. CASE Proceed("clear") /\ folder' = [folder EXCEPT !.now = Taken]
    <3>1. folder' = [now |-> Taken, aside |-> folder.aside]
      BY <1>3, <2>3
    <3>2. FolderInv'
      BY <1>2, <1>3, <2>1, <3>1 DEF FolderInv, OfMoment, Taken
    <3> QED BY <2>1, <2>3, <3>2, <1>5
  <2> QED BY <1>8, <2>2, <2>3 DEF Place, Refuse
<1>9. CASE Clear
  <2>1. Done
    BY <1>9 DEF Clear
  <2>2. CASE folder' = [folder EXCEPT !.aside = NoSnapshot]
    <3>1. folder' = [now |-> folder.now, aside |-> NoSnapshot]
      BY <1>3, <2>2
    <3>2. FolderInv'
      BY <1>2, <1>3, <3>1 DEF FolderInv, OfMoment
    <3> QED BY <2>1, <3>2, <1>4
  <2>3. CASE folder' = [now |-> [folder.aside EXCEPT !.whole = FALSE], aside |-> NoSnapshot]
    <3>1. folder' = [now |-> folder'.now, aside |-> NoSnapshot] /\ folder'.now = [folder.aside EXCEPT !.whole = FALSE]
      BY <2>3
    <3>2. folder'.now.whole => folder.aside.whole /\ folder'.now = folder.aside
      BY <3>1
    <3>3. FolderInv'
      BY <1>2, <1>3, <3>1, <3>2 DEF FolderInv, OfMoment
    <3> QED BY <2>1, <3>3, <1>4
  <2> QED BY <1>9, <2>2, <2>3 DEF Clear
<1> QED BY <1>6, <1>7, <1>8, <1>9

(* Whatever others do meanwhile, the texts of a snapshot are those of one  *)
(* moment and it lacks exactly the declared controls' (_snapshot_rows,     *)
(* export_snapshot).                                                       *)
THEOREM SnapshotsAreOfOneMoment == FixtureSpec => []SnapshotOfOneMoment
<1>1. FixtureInit => FixtureInv
  <2> SUFFICES ASSUME FixtureInit PROVE FixtureInv
    OBVIOUS
  <2>1. PICK kind \in {"user", "group"}, there \in BOOLEAN, without \in SUBSET Ids, readable \in SUBSET Ids :
          library = [kind |-> kind, declared |-> without, readable |-> readable,
                     item |-> [d \in Ids |-> [p \in Parts |-> IF there THEN Ours(1) ELSE NoItem]],
                     stored |-> [d \in Ids |-> IF there THEN "old" ELSE "none"],
                     text |-> NoTexts, takes |-> 0, queue |-> {}, version |-> 1, foreign |-> FALSE]
    BY DEF FixtureInit
  <2>2. LibraryShape /\ library.declared \subseteq Ids /\ TextsNumbered
    BY <2>1 DEF LibraryShape, TextsNumbered, TextOf, NoTexts, NoText
  <2>3. CommandShape /\ command.at = "idle" /\ command.rows = NoTexts
    BY DEF FixtureInit, Resting, CommandShape
  <2>4. FolderInv
    BY DEF FixtureInit, FolderInv, NoSnapshot
  <2> QED BY <2>2, <2>3, <2>4 DEF FixtureInv, CaptureInv, Before, FirstPass, After
<1>2. FixtureInv /\ [FixtureNext]_fixtureVars => FixtureInv'
  <2> SUFFICES ASSUME FixtureInv, [FixtureNext]_fixtureVars PROVE FixtureInv'
    OBVIOUS
  <2>1. CASE UNCHANGED fixtureVars
    <3>1. UNCHANGED <<command, folder>> /\ UNCHANGED library
      BY <2>1 DEF fixtureVars
    <3> QED BY <3>1, LibraryStays, OthersAlone
  <2>2. CASE FixtureNext
    BY <2>2, OthersKeep, EarlyActions, ListItemsKeeps, ChildrenKeeps, TextKeeps, FirstPassKeeps, AgainKeeps,
       EndingKeeps, SwapKeeps DEF FixtureNext
  <2> QED BY <2>1, <2>2
<1>3. FixtureInv => SnapshotOfOneMoment
  BY DEF FixtureInv, FolderInv, OfMoment, SnapshotOfOneMoment
<1> QED BY <1>1, <1>2, <1>3, PTL DEF FixtureSpec

-----------------------------------------------------------------------------
(* SitterRungs: segments judged one by one add up to the whole window.     *)

(* The records that are updated field by field.                            *)
DriverShape == drv = [at |-> drv.at, raised |-> drv.raised, problems |-> drv.problems, retried |-> drv.retried,
                      mark |-> drv.mark, victim |-> drv.victim, before |-> drv.before, exit |-> drv.exit]
LedgerShape == ledger = [started |-> ledger.started, last |-> ledger.last, reading |-> ledger.reading,
                         now |-> ledger.now, before |-> ledger.before, whole |-> ledger.whole]
DiskShape == disk = [alien |-> disk.alien, tables |-> disk.tables, packs |-> disk.packs]

(* Rows are counted with integers, on disk and in every snapshot.          *)
Counts == /\ disk.tables \in Int /\ ledger.now.tables \in Int /\ ledger.last.tables \in Int
          /\ DOMAIN ledger.now = ToSet(Stores) /\ declared.rows \in Int /\ baseline.tables \in Int

(* So far a rung has found nothing it does not permit.                     *)
Unspoiled == drv.raised = None /\ (rung = "clone" => ~drv.problems)
Accounted == Clean(baseline, ledger.last, declared)

RungsInv ==
  /\ DriverShape /\ LedgerShape /\ DiskShape /\ Counts
  /\ ledger.reading \in 0..3 /\ rung \in DOMAIN Scripts /\ drv.problems \in BOOLEAN
  /\ drv.exit # Running => AtStep = "close"
  /\ drv.exit = 0 => Unspoiled
  /\ Unspoiled => Accounted

-----------------------------------------------------------------------------
(* Two clean segments in a row are a clean segment of both edits.          *)
LEMMA CleanAddsUp ==
  ASSUME NEW a, NEW b, NEW c, NEW e, NEW f, NEW g, Clean(a, b, e), Clean(b, c, f),
         a.tables \in Int, b.tables \in Int, c.tables \in Int, e.rows \in Int, f.rows \in Int,
         g = [rows |-> e.rows + f.rows, erased |-> e.erased \union f.erased]
  PROVE  Clean(a, c, g)
<1>1. c.tables - a.tables = g.rows
  BY DEF Clean
<1>2. a.packs \ c.packs \subseteq g.erased
  BY DEF Clean
<1> QED BY <1>1, <1>2 DEF Clean

(* What a segment declares is a number of rows.                            *)
LEMMA EditCounts == Edit.rows \in Int
<1>1. Cardinality(Imported) \in Nat
  BY ImportedAssumption, FS_CardinalityType
<1>2. Cardinality({drv.victim}) = 1
  BY FS_Singleton
<1> QED BY <1>1, <1>2 DEF Edit, ImportEdit, EraseEdit, AttachEdit, NoEdit

(* What every step of the driver leaves as it is.                          *)
DriverSteps == /\ DriverShape' /\ drv'.exit = drv.exit
               /\ drv'.problems \in BOOLEAN /\ (drv.problems => drv'.problems)
(* A step goes on or raises.                                              *)
LEMMA StepsOnly ==
  ASSUME RungsInv
  PROVE  Go \/ (\E what : Raise(what)) => DriverSteps
BY DEF RungsInv, DriverShape, DriverSteps, Go, Raise

(* A run that has a step to take has not ended.                            *)
LEMMA NotClosed ==
  ASSUME RungsInv, AtStep # "close"
  PROVE  drv.raised = None /\ drv.exit = Running /\ drv.exit # 0
BY DEF RungsInv, AtStep, Running

(* A step that judges no segment leaves the account as it is.              *)
LEMMA PlainStepKeeps ==
  ASSUME RungsInv, AtStep # "close", DriverSteps, UNCHANGED <<rung, declared, baseline>>,
         LedgerShape', ledger'.last = ledger.last, ledger'.reading \in 0..3,
         ledger'.now.tables \in Int, DOMAIN ledger'.now = ToSet(Stores), DiskShape', disk'.tables \in Int
  PROVE  RungsInv'
<1>1. drv.raised = None /\ drv.exit = Running /\ drv'.exit # 0 /\ drv'.exit = Running
  BY NotClosed DEF DriverSteps, Running
<1>2. Unspoiled' => Unspoiled
  BY <1>1 DEF Unspoiled, DriverSteps, RungsInv
<1>3. Accounted' <=> Accounted
  BY DEF Accounted, Clean
<1> QED BY <1>1, <1>2, <1>3 DEF RungsInv, Counts, DriverSteps

(* The host writes as it likes: only a snapshot is judged.                 *)
LEMMA HostKeeps ==
  ASSUME RungsInv, Host
  PROVE  RungsInv'
<1>1. UNCHANGED <<rung, defect, drv, declared, baseline, ledger>> /\ DiskShape /\ disk.tables \in Int
  BY DEF Host, RungsInv, Counts
<1>2. \/ UNCHANGED disk \/ \E packs : disk' = [disk EXCEPT !.packs = packs]
      \/ disk' = [disk EXCEPT !.alien = 1] \/ disk' = [disk EXCEPT !.tables = @ + 1]
  BY DEF Host, Arms, Censuses, Admits, Prepares, StorageGoes, GateOpens, WritesElsewhere, CleansUp, ZoteroDies
<1>3. DiskShape' /\ disk'.tables \in Int
  BY <1>1, <1>2 DEF DiskShape
<1>4. AtStep' = AtStep /\ (Unspoiled' <=> Unspoiled) /\ (Accounted' <=> Accounted)
  BY <1>1 DEF AtStep, Unspoiled, Accounted, Clean
<1> QED BY <1>1, <1>3, <1>4 DEF RungsInv, Counts, DriverShape, LedgerShape

(* A step that only reads, and one that only moves the host.               *)
Looks == \/ HostGone \/ Misused \/ Pinned \/ Preflight \/ Payload \/ Profile \/ ReachZotero \/ Ready \/ Overdue \/ NoTranslator
         \/ StillWorking \/ Armed \/ Census \/ ForcedRetry \/ Refused \/ Prepared \/ MenagerieSettles
         \/ CloneSettles \/ Mark \/ Held \/ Account \/ CheckPacks \/ Pick \/ Gone \/ Back \/ Residue
Moves == Launch \/ Install \/ SwitchOff \/ SwitchOn \/ Uninstall \/ Quit
Edits == Import \/ Erase \/ Attach

(* The steps of the driver that read no snapshot.                          *)
LEMMA PlainActions ==
  ASSUME RungsInv, Unmoved, Looks \/ Moves \/ Edits
  PROVE  RungsInv'
<1>1. /\ DriverShape /\ LedgerShape /\ DiskShape /\ Counts /\ ledger.reading \in 0..3
      /\ drv.problems \in BOOLEAN /\ UNCHANGED <<rung, declared, baseline>>
  BY DEF RungsInv, Unmoved
<1>2. CASE Looks
  <2>1. UNCHANGED <<disk, ledger>>
    BY <1>2 DEF Looks, Apart, HostGone, Fails, Misused, Pinned, Preflight, Payload, Profile, ReachZotero, Ready, Overdue,
                NoTranslator, StillWorking, Armed, Census, ForcedRetry, Refused, Prepared, MenagerieSettles,
                CloneSettles, Mark, Held, Account, CheckPacks, Pick, Gone, Back, Residue
  <2>2. AtStep # "close"
    BY <1>2 DEF Looks, Evaluates, Guarded, HostGone, Misused, Pinned, Preflight, Payload, Profile, ReachZotero, Ready,
                Overdue, NoTranslator, StillWorking, Armed, Census, ForcedRetry, Refused, Prepared,
                MenagerieSettles, CloneSettles, Mark, Held, Account, CheckPacks, Pick, Gone, Back, Residue
  <2>3. \/ Go \/ \E what : Raise(what)
        \/ \E mark : drv' = [drv EXCEPT !.at = @ + 1, !.mark = mark]
        \/ \E retried : drv' = [drv EXCEPT !.retried = retried]
        \/ \E k, n : drv' = [drv EXCEPT !.at = @ + 1, !.victim = k, !.before = n]
        \/ drv' = [drv EXCEPT !.at = @ + 1, !.problems = TRUE]
    BY <1>2 DEF Looks, HostGone, Fails, Misused, Pinned, Preflight, Payload, Profile, ReachZotero, Ready, Overdue,
                NoTranslator, StillWorking, Armed, Census, ForcedRetry, Refused, Prepared, MenagerieSettles,
                CloneSettles, Mark, Held, Account, CheckPacks, Pick, Gone, Back, Residue
  <2>4. DriverSteps
    BY <1>1, <2>3, StepsOnly DEF DriverShape, DriverSteps
  <2> QED BY <1>1, <2>1, <2>2, <2>4, PlainStepKeeps DEF LedgerShape, DiskShape, Counts
<1>3. CASE Moves
  <2>1. UNCHANGED <<disk, ledger>> /\ AtStep # "close" /\ (Go \/ \E what : Raise(what))
    BY <1>3 DEF Moves, Launch, Install, SwitchOff, SwitchOn, Uninstall, Quit
  <2>2. DriverSteps
    BY <2>1, StepsOnly
  <2> QED BY <1>1, <2>1, <2>2, PlainStepKeeps DEF LedgerShape, DiskShape, Counts
<1>4. CASE Edits
  <2>1. UNCHANGED ledger /\ AtStep # "close" /\ Go
    BY <1>4 DEF Edits, Import, Erase, Attach
  <2>2. \/ disk' = [disk EXCEPT !.tables = @ + Cardinality(Imported)]
        \/ disk' = [disk EXCEPT !.tables = @ - 1] \/ disk' = [disk EXCEPT !.tables = @ + 1]
    BY <1>4 DEF Edits, Import, Erase, Attach
  <2>3. Cardinality(Imported) \in Nat
    BY ImportedAssumption, FS_CardinalityType
  <2>4. DiskShape' /\ disk'.tables \in Int
    BY <1>1, <2>2, <2>3 DEF DiskShape, Counts
  <2>5. DriverSteps
    BY <2>1, StepsOnly
  <2> QED BY <1>1, <2>1, <2>4, <2>5, PlainStepKeeps DEF LedgerShape, Counts
<1> QED BY <1>2, <1>3, <1>4

(* A snapshot is read store by store, and read again.                      *)
LEMMA ReadingKeeps ==
  ASSUME RungsInv, Reading
  PROVE  RungsInv'
<1>1. /\ DriverShape /\ LedgerShape /\ DiskShape /\ Counts /\ ledger.reading \in 0..3 /\ drv.problems \in BOOLEAN
      /\ UNCHANGED <<rung, disk, drv, declared, baseline>> /\ AtStep # "close" /\ (Read \/ ReadAgain)
  BY DEF RungsInv, Reading, Segments
<1>2. DriverSteps
  BY <1>1 DEF DriverSteps, DriverShape
<1>3. Len(Stores) = 3 /\ ToSet(Stores) = {"alien", "tables", "packs"}
      /\ \A n \in 0..2 : Stores[n + 1] \in ToSet(Stores)
  BY DEF Stores, ToSet
<1>4. CASE Read
  <2> DEFINE s == Stores[ledger.reading + 1]
  <2>1. /\ ledger.reading < 3 /\ s \in ToSet(Stores)
        /\ ledger' = [ledger EXCEPT !.reading = @ + 1, !.now = [@ EXCEPT ![s] = disk[s]]]
    BY <1>1, <1>3, <1>4 DEF Read, ContentOf
  <2> HIDE DEF s
  <2>2. /\ LedgerShape' /\ ledger'.last = ledger.last /\ ledger'.reading = ledger.reading + 1
        /\ ledger'.now = [ledger.now EXCEPT ![s] = disk[s]]
    BY <1>1, <2>1 DEF LedgerShape
  <2>3. ledger'.now.tables \in Int /\ DOMAIN ledger'.now = ToSet(Stores)
    BY <1>1, <2>1, <2>2 DEF Counts
  <2> QED BY <1>1, <1>2, <2>1, <2>2, <2>3, PlainStepKeeps DEF DiskShape, Counts
<1>5. CASE ReadAgain
  <2>1. ledger' = [ledger EXCEPT !.before = ledger.now, !.whole = TRUE, !.reading = 0]
    BY <1>5 DEF ReadAgain
  <2>2. /\ LedgerShape' /\ ledger'.last = ledger.last /\ ledger'.reading = 0 /\ ledger'.now = ledger.now
    BY <1>1, <2>1 DEF LedgerShape
  <2> QED BY <1>1, <1>2, <2>2, PlainStepKeeps DEF DiskShape, Counts
<1> QED BY <1>1, <1>4, <1>5

(* What is kept is a snapshot, and the next one starts from nothing.       *)
LEMMA KeptFacts ==
  ASSUME NEW after, Keep(after)
  PROVE  /\ LedgerShape' /\ ledger'.last = after /\ ledger'.reading = 0
         /\ ledger'.now.tables \in Int /\ DOMAIN ledger'.now = ToSet(Stores)
<1>1. ledger' = [LedgerInit EXCEPT !.started = TRUE, !.last = after]
  BY DEF Keep
<1>2. Blank.tables = 0 /\ DOMAIN Blank = ToSet(Stores)
  BY DEF Blank, Stores, ToSet
<1>3. ledger' = [started |-> TRUE, last |-> after, reading |-> 0, now |-> Blank, before |-> Blank, whole |-> FALSE]
  BY <1>1 DEF LedgerInit
<1> QED BY <1>2, <1>3 DEF LedgerShape

(* The ledger starts with the baseline, which differs from itself in       *)
(* nothing.                                                                *)
LEMMA BaselineKeeps ==
  ASSUME RungsInv, Baseline
  PROVE  RungsInv'
<1>1. /\ DiskShape /\ Counts /\ rung \in DOMAIN Scripts /\ AtStep = "baseline" /\ Keep(ledger.now) /\ Go
      /\ baseline' = ledger.now /\ declared' = NoEdit /\ UNCHANGED <<rung, defect, host, disk>>
  BY DEF RungsInv, Baseline
<1>2. /\ LedgerShape' /\ ledger'.last = ledger.now /\ ledger'.reading = 0
      /\ ledger'.now.tables \in Int /\ DOMAIN ledger'.now = ToSet(Stores)
  BY <1>1, KeptFacts
<1>3. DriverSteps /\ drv.exit = Running
  BY <1>1, StepsOnly, NotClosed
<1>4. Clean(ledger.now, ledger.now, NoEdit)
  BY <1>1 DEF Clean, NoEdit, Counts
<1>5. Accounted'
  BY <1>1, <1>2, <1>4 DEF Accounted
<1>6. Counts' /\ DiskShape'
  BY <1>1, <1>2 DEF Counts, DiskShape, NoEdit
<1> QED BY <1>1, <1>2, <1>3, <1>5, <1>6 DEF RungsInv, DriverSteps, Running

(* A segment that is clean continues a window that was.                    *)
LEMMA SegmentKeeps ==
  ASSUME RungsInv, Segment
  PROVE  RungsInv'
<1> DEFINE sum == [rows |-> declared.rows + Edit.rows, erased |-> declared.erased \union Edit.erased]
<1>1. /\ DriverShape /\ DiskShape /\ Counts /\ rung \in DOMAIN Scripts /\ AtStep \in Segments /\ Keep(ledger.now)
      /\ declared' = sum /\ UNCHANGED <<rung, defect, host, disk, baseline>> /\ (Unspoiled => Accounted)
      /\ IF SegmentIs(Edit) THEN Go ELSE Problem
  BY DEF RungsInv, Segment
<1>2. /\ LedgerShape' /\ ledger'.last = ledger.now /\ ledger'.reading = 0
      /\ ledger'.now.tables \in Int /\ DOMAIN ledger'.now = ToSet(Stores)
  BY <1>1, KeptFacts
<1>3. AtStep # "close" /\ drv.raised = None /\ drv.exit = Running
  BY <1>1, NotClosed DEF Segments
<1>4. /\ DriverSteps
      /\ Unspoiled' => Unspoiled /\ SegmentIs(Edit)
  <2>1. CASE SegmentIs(Edit)
    <3>1. Go
      BY <1>1, <2>1
    <3>2. DriverSteps
      BY <3>1, StepsOnly
    <3> QED BY <3>2, <1>1, <1>3, <2>1 DEF Unspoiled, DriverSteps, RungsInv
  <2>2. CASE ~SegmentIs(Edit) /\ rung = "clone"
    <3>1. drv' = [drv EXCEPT !.at = @ + 1, !.problems = TRUE]
      BY <1>1, <2>2 DEF Problem
    <3> QED BY <3>1, <1>1, <2>2 DEF DriverShape, DriverSteps, Unspoiled
  <2>3. CASE ~SegmentIs(Edit) /\ rung # "clone"
    <3>1. Raise("fail")
      BY <1>1, <2>3 DEF Problem
    <3> QED BY <3>1, <1>1, StepsOnly DEF Raise, DriverShape, Unspoiled, None
  <2> QED BY <2>1, <2>2, <2>3
<1>5. Unspoiled' => Accounted'
  <2> SUFFICES ASSUME Unspoiled' PROVE Accounted'
    OBVIOUS
  <2>1. Clean(baseline, ledger.last, declared) /\ Clean(ledger.last, ledger.now, Edit)
    BY <1>1, <1>4 DEF Accounted, SegmentIs, Since
  <2>2. Clean(baseline, ledger.now, sum)
    BY <2>1, <1>1, EditCounts, CleanAddsUp DEF Counts
  <2> QED BY <2>2, <1>1, <1>2 DEF Accounted
<1>6. Counts' /\ DiskShape'
  BY <1>1, <1>2, EditCounts DEF Counts, DiskShape
<1> QED BY <1>1, <1>2, <1>3, <1>4, <1>5, <1>6 DEF RungsInv, DriverSteps, Running

(* A directory that does not come to rest is a problem.                    *)
LEMMA NotQuiescedKeeps ==
  ASSUME RungsInv, Unmoved, NotQuiesced
  PROVE  RungsInv'
<1>1. /\ DriverShape /\ DiskShape /\ Counts /\ AtStep \in Segments /\ Problem /\ drv.problems \in BOOLEAN
      /\ ledger' = [LedgerInit EXCEPT !.started = TRUE, !.last = ledger.last] /\ UNCHANGED <<rung, disk, declared, baseline>>
  BY DEF RungsInv, NotQuiesced, Unmoved
<1>2. /\ LedgerShape' /\ ledger'.last = ledger.last /\ ledger'.reading = 0
      /\ ledger'.now.tables \in Int /\ DOMAIN ledger'.now = ToSet(Stores)
  BY <1>1, KeptFacts DEF Keep
<1>3. AtStep # "close"
  BY <1>1 DEF Segments
<1>4. DriverSteps
  BY <1>1, StepsOnly DEF Problem, DriverShape, DriverSteps
<1> QED BY <1>1, <1>2, <1>3, <1>4, PlainStepKeeps DEF DiskShape, Counts

(* The last diff of the clone rung is over the directory at rest.          *)
LEMMA QuitSegmentKeeps ==
  ASSUME RungsInv, Unmoved, QuitSegment
  PROVE  RungsInv'
<1>1. /\ DriverShape /\ DiskShape /\ Counts /\ rung \in DOMAIN Scripts /\ AtStep = "quit-segment" /\ Keep(disk)
      /\ drv' = [drv EXCEPT !.at = @ + 1, !.problems = @ \/ ~Clean(ledger.last, disk, NoEdit)]
      /\ UNCHANGED <<rung, disk, declared, baseline>> /\ (Unspoiled => Accounted) /\ drv.problems \in BOOLEAN
  BY DEF RungsInv, QuitSegment, Unmoved
<1>2. /\ LedgerShape' /\ ledger'.last = disk /\ ledger'.reading = 0
      /\ ledger'.now.tables \in Int /\ DOMAIN ledger'.now = ToSet(Stores)
  BY <1>1, KeptFacts
<1>3. drv.raised = None /\ drv.exit = Running
  BY <1>1, NotClosed
<1>4. DriverShape' /\ drv'.exit = drv.exit /\ drv'.raised = drv.raised
      /\ drv'.problems = (drv.problems \/ ~Clean(ledger.last, disk, NoEdit))
  BY <1>1 DEF DriverShape
<1>5. rung = "clone"
  BY DEF QuitSegment
<1>6. Unspoiled' => Accounted'
  <2> SUFFICES ASSUME Unspoiled' PROVE Accounted'
    OBVIOUS
  <2>1. Clean(baseline, ledger.last, declared) /\ Clean(ledger.last, disk, NoEdit)
    BY <1>1, <1>4, <1>5 DEF Accounted, Unspoiled
  <2>2. Clean(baseline, disk, declared)
    BY <2>1, <1>1 DEF Clean, NoEdit, Counts
  <2> QED BY <2>2, <1>1, <1>2 DEF Accounted
<1>7. Counts' /\ DiskShape'
  BY <1>1, <1>2 DEF Counts, DiskShape
<1> QED BY <1>1, <1>2, <1>3, <1>4, <1>6, <1>7 DEF RungsInv, Running

(* Only a run without a problem exits with 0.                              *)
LEMMA CloseKeeps ==
  ASSUME RungsInv, Unmoved, Close
  PROVE  RungsInv'
<1>1. /\ DriverShape /\ LedgerShape /\ DiskShape /\ Counts /\ rung \in DOMAIN Scripts /\ AtStep = "close"
      /\ drv' = [drv EXCEPT !.exit = Code[rung]]
      /\ UNCHANGED <<rung, disk, ledger, declared, baseline>> /\ (Unspoiled => Accounted)
  BY DEF RungsInv, Close, Unmoved
<1>2. /\ DriverShape' /\ drv'.exit = Code[rung] /\ drv'.raised = drv.raised /\ drv'.problems = drv.problems
      /\ drv'.at = drv.at
  BY <1>1 DEF DriverShape
<1>3. Code[rung] = 0 => Unspoiled
  BY <1>1 DEF Code, Scripts, SmokeCode, CloneCode, MenagerieCode, Unspoiled, None
<1>4. AtStep' = AtStep /\ (Unspoiled' <=> Unspoiled) /\ (Accounted' <=> Accounted)
  BY <1>1, <1>2 DEF AtStep, Unspoiled, Accounted, Clean
<1> QED BY <1>1, <1>2, <1>3, <1>4 DEF RungsInv, LedgerShape, DiskShape, Counts

(* A rung starts with nothing found, and every step keeps the account.     *)
LEMMA RungsStart == RungsInit => RungsInv
<1> SUFFICES ASSUME RungsInit PROVE RungsInv
  OBVIOUS
<1>1. DriverShape /\ drv.exit = 9 /\ drv.problems = FALSE
  BY DEF RungsInit, DriverShape, Running
<1>2. Blank.tables = 0 /\ DOMAIN Blank = ToSet(Stores)
  BY DEF Blank, Stores, ToSet
<1>3. LedgerShape /\ ledger.reading = 0 /\ ledger.now = Blank /\ ledger.last = Blank
  BY DEF RungsInit, LedgerInit, LedgerShape
<1>4. DiskShape /\ disk.tables \in Int
  <2>1. disk.tables = Cardinality(host.docs) /\ host.docs \in {Imported, {}} /\ DiskShape
    BY DEF RungsInit, DiskShape
  <2>2. Cardinality(Imported) \in Nat /\ Cardinality({}) = 0
    BY ImportedAssumption, FS_CardinalityType, FS_EmptySet
  <2> QED BY <2>1, <2>2
<1>5. Counts
  BY <1>2, <1>3, <1>4 DEF RungsInit, Counts, NoEdit
<1>6. Accounted
  BY <1>2, <1>3 DEF RungsInit, Accounted, Clean, NoEdit
<1> QED BY <1>1, <1>3, <1>4, <1>5, <1>6 DEF RungsInv, RungsInit, Running

LEMMA RungsKeep == RungsInv /\ [RungsNext]_rungVars => RungsInv'
<1> SUFFICES ASSUME RungsInv, [RungsNext]_rungVars PROVE RungsInv'
  OBVIOUS
<1>1. CASE UNCHANGED rungVars
  <2>1. UNCHANGED <<rung, drv, disk, ledger, declared, baseline>>
    BY <1>1 DEF rungVars
  <2>2. AtStep' = AtStep /\ (Unspoiled' <=> Unspoiled) /\ (Accounted' <=> Accounted)
    BY <2>1 DEF AtStep, Unspoiled, Accounted, Clean
  <2> QED BY <2>1, <2>2 DEF RungsInv, DriverShape, LedgerShape, DiskShape, Counts
<1>2. CASE RungsNext
  BY <1>2, HostKeeps, PlainActions, ReadingKeeps, BaselineKeeps, SegmentKeeps, NotQuiescedKeeps, QuitSegmentKeeps,
     CloseKeeps DEF RungsNext, Drive, Looks, Moves, Edits
<1> QED BY <1>1, <1>2

(* A rung that passes has seen nothing, from its baseline to its last      *)
(* snapshot, but what is permitted and what its segments declared in all   *)
(* (sitter_integrity.py, Ledger.segment).                                  *)
THEOREM PassesAccount == RungsSpec => []PassAccountsForStores
<1>1. RungsInv => PassAccountsForStores
  BY DEF RungsInv, PassAccountsForStores, Accounted
<1> QED BY <1>1, RungsStart, RungsKeep, PTL DEF RungsSpec

-----------------------------------------------------------------------------
(* SitterRungs: a Menagerie rung that passes has accounted for everything. *)

(* A Menagerie rung that has not raised, and where its script stands when  *)
(* an attachment is erased, and when another is put back.                  *)
Onward == rung = "menagerie" /\ drv.raised = None
Erasing == {22, 30}
Going == {23, 31}
Attaching == {24, 25, 32, 33}
Returning == {26, 34}
HostShape == host = [zotero |-> host.zotero, sitter |-> host.sitter, enabled |-> host.enabled, gate |-> host.gate,
                     busy |-> host.busy, docs |-> host.docs, odd |-> host.odd, scanned |-> host.scanned,
                     cache |-> host.cache]

(* Packs are of attachments that are there, but for one being erased, and  *)
(* none is of an attachment with a reason not to have one.                 *)
PacksOfDocs ==
  /\ IsFiniteSet(disk.packs) /\ disk.packs \intersect host.odd = {}
  /\ host.busy # None => host.busy \notin host.odd
  /\ disk.packs \subseteq host.docs \union (IF drv.at \in Going THEN {drv.victim} ELSE {})
  /\ IF drv.at > 13 THEN host.odd \subseteq host.docs ELSE host.docs = {} /\ host.odd \subseteq Imported
  /\ drv.at \in Erasing => drv.victim \notin host.odd

(* Once the account is given nothing is pending but the attachment that is *)
(* put back, and while that one is, a pack is missing.                     *)
AccountStands ==
  /\ drv.at \in Erasing \union Going \union Attaching \union Returning => drv.before \in Nat
  /\ drv.at \in Attaching => Cardinality(disk.packs) = drv.before - 1
  /\ drv.at > 18 /\ Pending # {} =>
       /\ drv.at \in Returning /\ Cardinality(disk.packs) = drv.before - 1
       /\ \A k, l \in Pending : k = l

(* Once uninstalled the add-on does not come back, nor does its directory. *)
StaysRemoved ==
  /\ drv.at > 37 => host.sitter \in {"removed", "absent"}
  /\ drv.at > 38 => ~host.cache

OnwardSound == drv.at \in 1..40 /\ PacksOfDocs /\ AccountStands /\ StaysRemoved
MenagerieInv ==
  /\ HostShape /\ drv.at \in Nat
  /\ Onward => OnwardSound
  /\ drv.exit # Running => host.zotero = "off"
  /\ drv.exit = 0 /\ rung = "menagerie" => drv.raised = None /\ drv.at = 40

(* Where the steps stand that the account turns on.                        *)
Turns == {"import", "account", "pick", "erase", "gone", "attach-file", "back", "uninstall", "residue"}
LEMMA MenagerieSteps ==
  ASSUME Onward, drv.at \in 1..40
  PROVE  /\ AtStep = "close" <=> drv.at = 40
         /\ AtStep = "install" => drv.at = 9
         /\ AtStep = "import" <=> drv.at = 13
         /\ AtStep = "account" <=> drv.at = 18
         /\ AtStep = "pick" <=> drv.at \in {21, 29}
         /\ AtStep = "erase" <=> drv.at \in Erasing
         /\ AtStep = "gone" <=> drv.at \in Going
         /\ AtStep = "attach-file" <=> drv.at \in {25, 33}
         /\ AtStep = "back" <=> drv.at \in Returning
         /\ AtStep = "uninstall" <=> drv.at = 37
         /\ AtStep = "residue" <=> drv.at = 38
<1>1. Len(MenagerieScript) = 39
  BY DEF MenagerieScript
<1>2. Scripts[rung] = MenagerieScript
  BY DEF Scripts, Onward
<1>3. AtStep = IF drv.at <= 39 THEN MenagerieScript[drv.at] ELSE "close"
  BY <1>1, <1>2 DEF AtStep, Onward
<1>4. ASSUME NEW at \in 1..39
      PROVE  /\ MenagerieScript[at] # "close"
             /\ MenagerieScript[at] = "install" => at = 9
             /\ MenagerieScript[at] = "import" <=> at = 13
             /\ MenagerieScript[at] = "account" <=> at = 18
             /\ MenagerieScript[at] = "pick" <=> at \in {21, 29}
             /\ MenagerieScript[at] = "erase" <=> at \in {22, 30}
             /\ MenagerieScript[at] = "gone" <=> at \in {23, 31}
             /\ MenagerieScript[at] = "attach-file" <=> at \in {25, 33}
             /\ MenagerieScript[at] = "back" <=> at \in {26, 34}
             /\ MenagerieScript[at] = "uninstall" <=> at = 37
             /\ MenagerieScript[at] = "residue" <=> at = 38
  BY DEF MenagerieScript
<1>5. CASE drv.at = 40
  BY <1>3, <1>5 DEF Erasing, Going, Returning
<1>6. CASE drv.at \in 1..39
  <2>1. AtStep = MenagerieScript[drv.at]
    BY <1>3, <1>6
  <2> QED BY <1>4, <1>6, <2>1 DEF Erasing, Going, Returning
<1> QED BY <1>5, <1>6

(* What the host does to the packs, to what it works on and to the add-on. *)
LEMMA HostFacts ==
  ASSUME RungsInv, MenagerieInv, Host
  PROVE  /\ UNCHANGED <<rung, drv>> /\ HostShape' /\ host.zotero = "up"
         /\ host'.docs = host.docs /\ host'.odd = host.odd
         /\ host'.busy \in {host.busy, None} \union Pending
         /\ \/ disk'.packs = disk.packs
            \/ host.busy # None /\ host.busy \in host.docs /\ disk'.packs = disk.packs \union {host.busy}
            \/ \E k \in disk.packs \ host.docs : disk'.packs = disk.packs \ {k}
         /\ \/ host'.sitter = host.sitter
            \/ host.sitter = "installed" /\ host'.sitter = "armed"
            \/ host.sitter = "removed" /\ host'.sitter = "absent"
         /\ host'.cache => host.cache \/ host.sitter = "installed"
<1>1. HostShape /\ DiskShape /\ UNCHANGED <<rung, drv>> /\ host.zotero = "up"
  BY DEF RungsInv, MenagerieInv, Host
<1>2. CASE Arms \/ Censuses \/ GateOpens \/ CleansUp \/ ZoteroDies
  BY <1>1, <1>2 DEF HostShape, Arms, Censuses, GateOpens, CleansUp, ZoteroDies
<1>3. CASE Admits
  <2>1. PICK k \in Pending : host' = [host EXCEPT !.busy = k]
    BY <1>3 DEF Admits
  <2> QED BY <1>1, <1>3, <2>1 DEF HostShape, Admits
<1>4. CASE Prepares
  BY <1>1, <1>4 DEF HostShape, DiskShape, Prepares
<1>5. CASE StorageGoes
  BY <1>1, <1>5 DEF HostShape, DiskShape, StorageGoes
<1>6. CASE WritesElsewhere
  BY <1>1, <1>6 DEF HostShape, DiskShape, WritesElsewhere
<1> QED BY <1>2, <1>3, <1>4, <1>5, <1>6 DEF Host

(* Nothing the host does makes an attachment pending.                      *)
LEMMA HostKeepsAccount ==
  ASSUME RungsInv, MenagerieInv, Host
  PROVE  MenagerieInv'
<1>1. /\ UNCHANGED <<rung, drv>> /\ HostShape' /\ host.zotero = "up" /\ drv.exit = Running
      /\ host'.docs = host.docs /\ host'.odd = host.odd
  BY HostFacts DEF MenagerieInv
<1>2. ASSUME Onward PROVE OnwardSound'
  <2>1. OnwardSound
    BY <1>2 DEF MenagerieInv
  <2>2. StaysRemoved'
    BY <1>1, <2>1, HostFacts DEF OnwardSound, StaysRemoved
  <2>3. host'.busy # None => host'.busy \notin host.odd
    BY <2>1, HostFacts DEF OnwardSound, PacksOfDocs, Pending
  <2>4. CASE disk'.packs = disk.packs
    <3>1. Pending' = Pending
      BY <1>1, <2>4 DEF Pending
    <3> QED BY <1>1, <2>1, <2>2, <2>3, <2>4, <3>1 DEF OnwardSound, PacksOfDocs, AccountStands
  <2>5. CASE host.busy # None /\ host.busy \in host.docs /\ host.busy \notin disk.packs
             /\ disk'.packs = disk.packs \union {host.busy}
    <3>1. host.busy \in Pending
      BY <2>1, <2>5 DEF OnwardSound, PacksOfDocs, Pending
    <3>2. drv.at > 18 => (drv.at \in Returning /\ Pending' = {})
      BY <1>1, <2>1, <2>5, <3>1 DEF OnwardSound, AccountStands, Pending
    <3>3. drv.at \notin Attaching
      BY <2>1, <3>2 DEF OnwardSound, Attaching, Returning
    <3>4. IsFiniteSet(disk'.packs)
      BY <2>1, <2>5, FS_AddElement DEF OnwardSound, PacksOfDocs
    <3>5. PacksOfDocs'
      BY <1>1, <2>1, <2>3, <2>5, <3>4 DEF OnwardSound, PacksOfDocs
    <3>6. AccountStands'
      BY <1>1, <2>1, <3>2, <3>3 DEF OnwardSound, AccountStands
    <3> QED BY <1>1, <2>1, <2>2, <3>5, <3>6 DEF OnwardSound
  <2>6. ASSUME NEW k \in disk.packs \ host.docs, disk'.packs = disk.packs \ {k} PROVE OnwardSound'
    <3>1. drv.at \in Going
      BY <2>1, <2>6 DEF OnwardSound, PacksOfDocs
    <3>2. Pending = {} /\ Pending' = Pending
      BY <1>1, <2>1, <2>6, <3>1 DEF OnwardSound, AccountStands, Pending, Going, Returning
    <3>3. IsFiniteSet(disk'.packs)
      BY <2>1, <2>6, FS_RemoveElement DEF OnwardSound, PacksOfDocs
    <3>4. PacksOfDocs'
      BY <1>1, <2>1, <2>3, <2>6, <3>3 DEF OnwardSound, PacksOfDocs
    <3>5. AccountStands'
      BY <1>1, <2>1, <3>1, <3>2 DEF OnwardSound, AccountStands, Going, Attaching
    <3> QED BY <1>1, <2>1, <2>2, <3>4, <3>5 DEF OnwardSound
  <2>7. host.busy \in disk.packs => disk.packs \union {host.busy} = disk.packs
    OBVIOUS
  <2> QED BY <2>4, <2>5, <2>6, <2>7, HostFacts
<1> QED BY <1>1, <1>2 DEF MenagerieInv, Onward, Running

(* The step that leads on is what is to be looked at.                      *)
LEMMA OnlyOnward ==
  ASSUME RungsInv, MenagerieInv, AtStep # "close", rung' = rung, HostShape', drv'.exit = drv.exit,
         drv'.at \in {drv.at, drv.at + 1},
         OnwardSound /\ drv.at <= 39 /\ Onward /\ Onward' => OnwardSound'
  PROVE  MenagerieInv'
<1>1. drv.raised = None /\ drv.exit = Running /\ drv.exit # 0
  BY NotClosed
<1>2. ASSUME Onward' PROVE OnwardSound'
  <2>1. Onward /\ OnwardSound
    BY <1>1, <1>2 DEF Onward, MenagerieInv
  <2>2. drv.at \in 1..40 /\ drv.at # 40
    BY <2>1, MenagerieSteps DEF OnwardSound
  <2> QED BY <1>2, <2>1, <2>2
<1> QED BY <1>1, <1>2 DEF MenagerieInv

(* A step that is none of those leaves the account as it is.               *)
Elsewhere == /\ HostShape' /\ disk'.packs = disk.packs
             /\ host'.docs = host.docs /\ host'.odd = host.odd /\ host'.busy = host.busy /\ host'.cache = host.cache
             /\ host'.sitter = host.sitter \/ AtStep = "install"
StepsOn == /\ drv'.exit = drv.exit /\ drv'.at \in {drv.at, drv.at + 1}
           /\ \/ drv'.raised # None
              \/ /\ drv'.victim = drv.victim /\ drv'.before = drv.before
                 /\ drv'.at = drv.at \/ AtStep \notin Turns

LEMMA PlainOnward ==
  ASSUME RungsInv, MenagerieInv, AtStep # "close", rung' = rung, Elsewhere, StepsOn
  PROVE  MenagerieInv'
<1>1. ASSUME OnwardSound, drv.at <= 39, Onward, Onward' PROVE OnwardSound'
  <2>1. /\ drv'.victim = drv.victim /\ drv'.before = drv.before /\ drv'.at \in {drv.at, drv.at + 1}
        /\ drv'.at = drv.at \/ AtStep \notin Turns
    BY <1>1 DEF StepsOn, Onward
  <2>2. Pending' = Pending
    BY DEF Elsewhere, Pending
  <2>3. host'.sitter = host.sitter \/ drv.at = 9
    BY <1>1, MenagerieSteps DEF Elsewhere, OnwardSound
  <2>4. CASE drv'.at = drv.at
    BY <1>1, <2>1, <2>2, <2>3, <2>4 DEF Elsewhere, OnwardSound, PacksOfDocs, AccountStands, StaysRemoved
  <2>5. CASE drv'.at = drv.at + 1 /\ AtStep \notin Turns
    <3>1. drv.at \in 1..39 /\ drv.at \notin {13, 18, 21, 22, 23, 25, 26, 29, 30, 31, 33, 34, 37, 38}
      BY <1>1, <2>5, MenagerieSteps DEF OnwardSound, Turns, Erasing, Going, Returning
    <3>2. /\ drv'.at \in 1..40 /\ (drv'.at > 13 <=> drv.at > 13) /\ (drv'.at > 18 => drv.at > 18)
          /\ (drv'.at > 37 => drv.at > 37) /\ (drv'.at > 38 => drv.at > 38)
          /\ drv'.at \notin Erasing \union Going \union Returning /\ drv.at \notin Going \union Returning
          /\ drv'.at \in Attaching => drv.at \in Attaching
      BY <2>5, <3>1 DEF Erasing, Going, Attaching, Returning
    <3>3. PacksOfDocs' /\ StaysRemoved'
      BY <1>1, <2>1, <2>3, <3>2 DEF Elsewhere, OnwardSound, PacksOfDocs, StaysRemoved
    <3>4. AccountStands'
      BY <1>1, <2>1, <2>2, <3>2 DEF Elsewhere, OnwardSound, AccountStands
    <3> QED BY <3>2, <3>3, <3>4 DEF OnwardSound
  <2> QED BY <2>1, <2>4, <2>5
<1> QED BY <1>1, OnlyOnward DEF Elsewhere, StepsOn

(* The steps the account does not turn on.                                 *)
Glances == \/ HostGone \/ Misused \/ Pinned \/ Preflight \/ Payload \/ Profile \/ ReachZotero \/ Ready \/ Overdue \/ NoTranslator
           \/ StillWorking \/ Armed \/ Census \/ ForcedRetry \/ Refused \/ Prepared \/ MenagerieSettles
           \/ CloneSettles \/ Mark \/ Held \/ CheckPacks
Pushes == Launch \/ Install \/ SwitchOff \/ SwitchOn \/ Quit
Judges == Reading \/ Baseline \/ Segment \/ (Unmoved /\ NotQuiesced) \/ (Unmoved /\ QuitSegment)

LEMMA GlancesKeep ==
  ASSUME RungsInv, MenagerieInv, Unmoved, Glances
  PROVE  MenagerieInv'
<1>1. UNCHANGED <<rung, host, disk>> /\ HostShape /\ DriverShape /\ drv.at \in Nat
  BY DEF RungsInv, MenagerieInv, Unmoved, Apart, Glances, HostGone, Fails, Misused, Pinned, Preflight, Payload, Profile,
         ReachZotero, Ready, Overdue, NoTranslator, StillWorking, Armed, Census, ForcedRetry, Refused, Prepared,
         MenagerieSettles, CloneSettles, Mark, Held, CheckPacks
<1>2. AtStep # "close"
  BY DEF Glances, Evaluates, Guarded, HostGone, Misused, Pinned, Preflight, Payload, Profile, ReachZotero, Ready,
         Overdue, NoTranslator, StillWorking, Armed, Census, ForcedRetry, Refused, Prepared, MenagerieSettles,
         CloneSettles, Mark, Held, CheckPacks
<1>3. \/ \E what \in {"fail", "error", "not-run", "timeout", "usage"} : Raise(what)
      \/ \E retried : drv' = [drv EXCEPT !.retried = retried]
      \/ /\ AtStep \notin Turns
         /\ \/ Go \/ \E mark : drv' = [drv EXCEPT !.at = @ + 1, !.mark = mark]
            \/ drv' = [drv EXCEPT !.at = @ + 1, !.problems = TRUE]
  BY DEF Glances, Turns, HostGone, Fails, Misused, Pinned, Preflight, Payload, Profile, ReachZotero, Ready, Overdue,
         NoTranslator, StillWorking, Armed, Census, ForcedRetry, Refused, Prepared, MenagerieSettles,
         CloneSettles, Mark, Held, CheckPacks
<1>4. StepsOn
  <2>1. ASSUME NEW what \in {"fail", "error", "not-run", "timeout", "usage"}, Raise(what) PROVE StepsOn
    BY <1>1, <2>1 DEF Raise, DriverShape, StepsOn, None
  <2>2. ASSUME NEW retried, drv' = [drv EXCEPT !.retried = retried] PROVE StepsOn
    BY <1>1, <2>2 DEF DriverShape, StepsOn
  <2>3. ASSUME AtStep \notin Turns, NEW mark, drv' = [drv EXCEPT !.at = @ + 1, !.mark = mark] PROVE StepsOn
    BY <1>1, <2>3 DEF DriverShape, StepsOn
  <2>4. ASSUME AtStep \notin Turns, Go \/ drv' = [drv EXCEPT !.at = @ + 1, !.problems = TRUE] PROVE StepsOn
    BY <1>1, <2>4 DEF DriverShape, StepsOn, Go
  <2> QED BY <1>3, <2>1, <2>2, <2>3, <2>4
<1>5. Elsewhere
  BY <1>1 DEF Elsewhere, HostShape
<1> QED BY <1>1, <1>2, <1>4, <1>5, PlainOnward

LEMMA PushesKeep ==
  ASSUME RungsInv, MenagerieInv, Unmoved, Pushes
  PROVE  MenagerieInv'
<1>1. UNCHANGED <<rung, disk>> /\ HostShape /\ DriverShape /\ drv.at \in Nat
  BY DEF RungsInv, MenagerieInv, Unmoved, Pushes, Launch, Install, SwitchOff, SwitchOn, Quit
<1>2. AtStep # "close" /\ AtStep \notin Turns /\ (Go \/ Raise("not-run"))
  BY DEF Pushes, Turns, Launch, Install, SwitchOff, SwitchOn, Quit
<1>3. StepsOn
  BY <1>1, <1>2 DEF Go, Raise, DriverShape, StepsOn, None
<1>4. Elsewhere
  BY <1>1 DEF Elsewhere, HostShape, Pushes, Launch, Install, SwitchOff, SwitchOn, Quit
<1> QED BY <1>1, <1>2, <1>3, <1>4, PlainOnward

LEMMA JudgesKeep ==
  ASSUME RungsInv, MenagerieInv, Judges
  PROVE  MenagerieInv'
<1>1. UNCHANGED <<rung, host, disk>> /\ HostShape /\ DriverShape /\ drv.at \in Nat
  BY DEF RungsInv, MenagerieInv, Unmoved, Judges, Reading, Baseline, Segment, NotQuiesced, QuitSegment
<1>2. AtStep # "close" /\ AtStep \notin Turns
  BY DEF Judges, Turns, Segments, Reading, Baseline, Segment, NotQuiesced, QuitSegment
<1>3. \/ UNCHANGED drv \/ Go \/ Raise("fail") \/ \E problems : drv' = [drv EXCEPT !.at = @ + 1, !.problems = problems]
  BY DEF Judges, Reading, Baseline, Segment, NotQuiesced, QuitSegment, Problem
<1>4. StepsOn
  BY <1>1, <1>2, <1>3 DEF Go, Raise, DriverShape, StepsOn, None
<1>5. Elsewhere
  BY <1>1 DEF Elsewhere, HostShape
<1> QED BY <1>1, <1>2, <1>4, <1>5, PlainOnward

(* A step the account turns on raises, or leads on.                        *)
LEMMA TurnsOnward ==
  ASSUME RungsInv, MenagerieInv, AtStep # "close", rung' = rung, HostShape', drv'.exit = drv.exit,
         \/ drv'.raised # None /\ drv'.at = drv.at
         \/ drv'.at = drv.at + 1 /\ (OnwardSound /\ drv.at <= 39 /\ Onward => OnwardSound')
  PROVE  MenagerieInv'
BY OnlyOnward DEF Onward

LEMMA ImportKeepsAccount ==
  ASSUME RungsInv, MenagerieInv, Unmoved, Import
  PROVE  MenagerieInv'
<1>1. /\ rung' = rung /\ HostShape' /\ AtStep = "import" /\ drv'.exit = drv.exit /\ drv'.at = drv.at + 1
      /\ host'.docs = Imported /\ host'.odd = host.odd /\ host'.busy = host.busy /\ disk'.packs = disk.packs
  BY DEF RungsInv, MenagerieInv, Import, Unmoved, Go, HostShape, DiskShape, DriverShape
<1>2. ASSUME OnwardSound, Onward PROVE OnwardSound'
  <2>1. drv.at = 13 /\ drv'.at = 14
    BY <1>1, <1>2, MenagerieSteps DEF OnwardSound
  <2> QED BY <1>1, <1>2, <2>1 DEF OnwardSound, PacksOfDocs, AccountStands, StaysRemoved, Erasing, Going,
                                  Attaching, Returning
<1> QED BY <1>1, <1>2, TurnsOnward

(* The account is given over what is pending, which is then nothing.       *)
LEMMA AccountKeeps ==
  ASSUME RungsInv, MenagerieInv, Unmoved, Account
  PROVE  MenagerieInv'
<1>1. /\ UNCHANGED <<rung, host, disk>> /\ HostShape' /\ AtStep = "account" /\ drv'.exit = drv.exit
      /\ \/ drv'.raised # None /\ drv'.at = drv.at
         \/ drv'.at = drv.at + 1 /\ Pending = {}
  BY DEF RungsInv, MenagerieInv, Account, Queued, Unmoved, Apart, Go, Raise, HostShape, DriverShape, None
<1>2. ASSUME OnwardSound, Onward, drv'.at = drv.at + 1, Pending = {} PROVE OnwardSound'
  <2>1. drv.at = 18 /\ drv'.at = 19 /\ Pending' = {}
    BY <1>1, <1>2, MenagerieSteps DEF OnwardSound, Pending
  <2> QED BY <1>1, <1>2, <2>1 DEF OnwardSound, PacksOfDocs, AccountStands, StaysRemoved, Erasing, Going,
                                  Attaching, Returning
<1> QED BY <1>1, <1>2, TurnsOnward

LEMMA PickKeeps ==
  ASSUME RungsInv, MenagerieInv, Unmoved, Pick
  PROVE  MenagerieInv'
<1>1. /\ UNCHANGED <<rung, host, disk>> /\ HostShape' /\ AtStep = "pick" /\ drv'.exit = drv.exit
      /\ \/ drv'.raised # None /\ drv'.at = drv.at
         \/ /\ drv'.at = drv.at + 1 /\ drv'.victim \in host.docs \intersect disk.packs
            /\ drv'.before = Cardinality(disk.packs)
  BY DEF RungsInv, MenagerieInv, Pick, Unmoved, Apart, Raise, HostShape, DriverShape, None
<1>2. ASSUME OnwardSound, Onward, drv'.at = drv.at + 1, drv'.victim \in host.docs \intersect disk.packs,
             drv'.before = Cardinality(disk.packs)
      PROVE  OnwardSound'
  <2>1. drv.at \in {21, 29} /\ drv'.at \in Erasing /\ Pending' = Pending
    BY <1>1, <1>2, MenagerieSteps DEF OnwardSound, Pending, Erasing
  <2>2. drv'.before \in Nat
    BY <1>2, FS_CardinalityType DEF OnwardSound, PacksOfDocs
  <2> QED BY <1>1, <1>2, <2>1, <2>2 DEF OnwardSound, PacksOfDocs, AccountStands, StaysRemoved, Erasing, Going,
                                        Attaching, Returning
<1> QED BY <1>1, <1>2, TurnsOnward

LEMMA EraseKeepsAccount ==
  ASSUME RungsInv, MenagerieInv, Unmoved, Erase
  PROVE  MenagerieInv'
<1>1. /\ rung' = rung /\ HostShape' /\ AtStep = "erase" /\ drv'.exit = drv.exit /\ drv'.at = drv.at + 1
      /\ drv'.victim = drv.victim /\ drv'.before = drv.before
      /\ host'.docs = host.docs \ {drv.victim} /\ host'.odd = host.odd /\ host'.busy = host.busy
      /\ disk'.packs = disk.packs
  BY DEF RungsInv, MenagerieInv, Erase, Unmoved, Go, HostShape, DiskShape, DriverShape
<1>2. ASSUME OnwardSound, Onward PROVE OnwardSound'
  <2>1. drv.at \in Erasing /\ drv.at > 18 /\ drv.at \notin Returning /\ drv.at \notin Going
    BY <1>1, <1>2, MenagerieSteps DEF OnwardSound, Erasing, Returning, Going
  <2>2. drv'.at \in 19..37 /\ drv'.at \in Going /\ drv'.at \notin Erasing \union Attaching \union Returning
    BY <1>1, <2>1 DEF Erasing, Going, Attaching, Returning
  <2>3. Pending' = {}
    BY <1>1, <1>2, <2>1 DEF OnwardSound, AccountStands, Pending
  <2>4. PacksOfDocs'
    BY <1>1, <1>2, <2>1, <2>2 DEF OnwardSound, PacksOfDocs
  <2> QED BY <1>1, <1>2, <2>1, <2>2, <2>3, <2>4 DEF OnwardSound, AccountStands, StaysRemoved
<1> QED BY <1>1, <1>2, TurnsOnward

(* The pack that is gone is the one of what was erased.                    *)
LEMMA GoneKeeps ==
  ASSUME RungsInv, MenagerieInv, Unmoved, Gone
  PROVE  MenagerieInv'
<1>1. /\ UNCHANGED <<rung, host, disk>> /\ HostShape' /\ AtStep = "gone" /\ drv'.exit = drv.exit
      /\ Cardinality(disk.packs) = drv.before - 1
      /\ \/ drv'.raised # None /\ drv'.at = drv.at
         \/ /\ drv'.at = drv.at + 1 /\ drv.victim \notin disk.packs
            /\ drv'.victim = drv.victim /\ drv'.before = drv.before
  BY DEF RungsInv, MenagerieInv, Gone, Unmoved, Apart, Go, Raise, HostShape, DriverShape, None
<1>2. ASSUME OnwardSound, Onward, drv'.at = drv.at + 1, drv.victim \notin disk.packs, drv'.before = drv.before
      PROVE  OnwardSound'
  <2>1. drv.at \in Going /\ drv.at > 18 /\ drv.at \notin Returning
    BY <1>1, <1>2, MenagerieSteps DEF OnwardSound, Returning, Going
  <2>2. drv'.at \in 19..37 /\ drv'.at \in Attaching /\ drv'.at \notin Erasing \union Going \union Returning
    BY <1>2, <2>1 DEF Erasing, Going, Attaching, Returning
  <2>3. Pending' = {}
    BY <1>1, <1>2, <2>1 DEF OnwardSound, AccountStands, Pending
  <2>4. PacksOfDocs'
    BY <1>1, <1>2, <2>1, <2>2 DEF OnwardSound, PacksOfDocs
  <2> QED BY <1>1, <1>2, <2>1, <2>2, <2>3, <2>4 DEF OnwardSound, AccountStands, StaysRemoved
<1> QED BY <1>1, <1>2, TurnsOnward

(* What is put back is all that is pending.                                *)
LEMMA AttachKeepsAccount ==
  ASSUME RungsInv, MenagerieInv, Unmoved, Attach
  PROVE  MenagerieInv'
<1> DEFINE back == CHOOSE k \in Restored : k \notin host.docs \union disk.packs
<1>1. /\ rung' = rung /\ HostShape' /\ AtStep = "attach-file" /\ drv'.exit = drv.exit /\ drv'.at = drv.at + 1
      /\ drv'.before = drv.before
      /\ host'.docs = host.docs \union {back} /\ host'.odd = host.odd /\ host'.busy = host.busy
      /\ disk'.packs = disk.packs
  BY DEF RungsInv, MenagerieInv, Attach, Unmoved, Go, HostShape, DiskShape, DriverShape
<1> HIDE DEF back
<1>2. ASSUME OnwardSound, Onward PROVE OnwardSound'
  <2>1. drv.at \in {25, 33} /\ drv.at \notin Returning /\ drv.at \notin Going /\ drv.at \in Attaching
    BY <1>1, <1>2, MenagerieSteps DEF OnwardSound, Returning, Going, Attaching
  <2>2. drv'.at \in 19..37 /\ drv'.at \in Returning /\ drv'.at \notin Erasing \union Going \union Attaching
    BY <1>1, <2>1 DEF Erasing, Going, Attaching, Returning
  <2>3. Pending' \subseteq {back} /\ Cardinality(disk'.packs) = drv'.before - 1 /\ drv'.before \in Nat
    BY <1>1, <1>2, <2>1 DEF OnwardSound, AccountStands, Pending
  <2>4. PacksOfDocs'
    BY <1>1, <1>2, <2>1, <2>2 DEF OnwardSound, PacksOfDocs
  <2> QED BY <1>1, <1>2, <2>1, <2>2, <2>3, <2>4 DEF OnwardSound, AccountStands, StaysRemoved
<1> QED BY <1>1, <1>2, TurnsOnward

(* With as many packs as there were, nothing is pending.                   *)
LEMMA BackKeeps ==
  ASSUME RungsInv, MenagerieInv, Unmoved, Back
  PROVE  MenagerieInv'
<1>1. /\ UNCHANGED <<rung, host, disk>> /\ HostShape' /\ AtStep = "back" /\ drv'.exit = drv.exit
      /\ Cardinality(disk.packs) = drv.before /\ drv'.at = drv.at + 1
  BY DEF RungsInv, MenagerieInv, Back, Unmoved, Apart, Go, HostShape, DriverShape
<1>2. ASSUME OnwardSound, Onward PROVE OnwardSound'
  <2>1. drv.at \in Returning /\ drv.at > 18 /\ drv.at \notin Going
    BY <1>1, <1>2, MenagerieSteps DEF OnwardSound, Returning, Going
  <2>2. drv'.at \in 19..37 /\ drv'.at \notin Erasing \union Going \union Attaching \union Returning
    BY <1>1, <2>1 DEF Erasing, Going, Attaching, Returning
  <2>3. drv.before \in Nat /\ drv.before # drv.before - 1
    BY <1>2, <2>1 DEF OnwardSound, AccountStands
  <2>4. Pending' = {}
    BY <1>1, <1>2, <2>1, <2>3 DEF OnwardSound, AccountStands, Pending
  <2>5. PacksOfDocs'
    BY <1>1, <1>2, <2>1, <2>2 DEF OnwardSound, PacksOfDocs
  <2> QED BY <1>1, <1>2, <2>1, <2>2, <2>4, <2>5 DEF OnwardSound, AccountStands, StaysRemoved
<1> QED BY <1>1, <1>2, TurnsOnward

LEMMA RemovalKeepsAccount ==
  ASSUME RungsInv, MenagerieInv, Unmoved, Uninstall \/ Residue
  PROVE  MenagerieInv'
<1>1. /\ rung' = rung /\ HostShape' /\ drv'.exit = drv.exit /\ drv'.at = drv.at + 1 /\ disk'.packs = disk.packs
      /\ host'.docs = host.docs /\ host'.odd = host.odd /\ host'.busy \in {host.busy, None}
      /\ host'.cache = host.cache
      /\ \/ AtStep = "uninstall" /\ host'.sitter = "removed"
         \/ AtStep = "residue" /\ ~host.cache /\ host'.sitter = host.sitter
  BY DEF RungsInv, MenagerieInv, Uninstall, Residue, Unmoved, Apart, Go, HostShape, DiskShape, DriverShape
<1>2. ASSUME OnwardSound, Onward PROVE OnwardSound'
  <2>1. (drv.at = 37 /\ host'.sitter = "removed") \/ (drv.at = 38 /\ ~host'.cache /\ host'.sitter = host.sitter)
    BY <1>1, <1>2, MenagerieSteps DEF OnwardSound
  <2>2. Pending' = Pending
    BY <1>1 DEF Pending
  <2>3. StaysRemoved'
    BY <1>1, <1>2, <2>1 DEF OnwardSound, StaysRemoved
  <2> QED BY <1>1, <1>2, <2>1, <2>2, <2>3 DEF OnwardSound, PacksOfDocs, AccountStands, Erasing, Going, Attaching,
                                              Returning
<1> QED BY <1>1, <1>2, TurnsOnward

(* The rung closes at the end of its script, and the host with it.         *)
LEMMA CloseKeepsAccount ==
  ASSUME RungsInv, MenagerieInv, Unmoved, Close
  PROVE  MenagerieInv'
<1>1. /\ UNCHANGED <<rung, disk>> /\ HostShape' /\ host'.zotero = "off" /\ drv'.exit = Code[rung]
      /\ drv'.at = drv.at /\ drv'.raised = drv.raised /\ drv'.victim = drv.victim /\ drv'.before = drv.before
      /\ host'.docs = host.docs /\ host'.odd = host.odd /\ host'.busy = host.busy /\ host'.sitter = host.sitter
      /\ host'.cache = host.cache /\ AtStep = "close" /\ drv.at \in Nat
  BY DEF RungsInv, MenagerieInv, Close, StopZotero, Unmoved, HostShape, DriverShape
<1>2. Pending' = Pending
  BY <1>1 DEF Pending
<1>3. OnwardSound => OnwardSound'
  BY <1>1, <1>2 DEF OnwardSound, PacksOfDocs, AccountStands, StaysRemoved
<1>4. rung = "menagerie" /\ Code[rung] = 0 => Onward
  BY DEF Code, MenagerieCode, Onward, None
<1>5. Onward => drv.at = 40
  BY <1>1, MenagerieSteps DEF MenagerieInv, OnwardSound
<1> QED BY <1>1, <1>3, <1>4, <1>5 DEF MenagerieInv, Onward

(* The Menagerie rung passes only when every attachment it imported or put *)
(* back ended with a pack or a reason not to have one, and the add-on left *)
(* nothing behind (sitter_menagerie_test.py, account, phase_invalidation,  *)
(* phase_uninstall).                                                       *)
THEOREM PassesAccountForAll == RungsSpec => []MenagerieComplete
<1>1. RungsInit => RungsInv /\ MenagerieInv
  <2> SUFFICES ASSUME RungsInit PROVE MenagerieInv
    BY RungsStart
  <2>1. /\ HostShape /\ drv.at = 1 /\ drv.exit = Running /\ host.odd \subseteq Imported /\ host.busy = None
        /\ host.zotero = "off" /\ ~host.cache
    BY DEF RungsInit, HostShape
  <2>2. /\ disk.packs \subseteq host.docs \ host.odd /\ host.docs \in {Imported, {}}
        /\ Onward => host.docs = {}
    BY DEF RungsInit, Onward
  <2>3. IsFiniteSet(disk.packs)
    BY <2>2, ImportedAssumption, FS_Subset, FS_EmptySet
  <2>4. ASSUME Onward PROVE OnwardSound
    <3>1. PacksOfDocs
      BY <2>1, <2>2, <2>3, <2>4 DEF PacksOfDocs, Erasing, Going
    <3>2. AccountStands /\ StaysRemoved
      BY <2>1 DEF AccountStands, StaysRemoved, Erasing, Going, Attaching, Returning
    <3> QED BY <2>1, <3>1, <3>2 DEF OnwardSound
  <2> QED BY <2>1, <2>4 DEF MenagerieInv, Running
<1>2. RungsInv /\ MenagerieInv /\ [RungsNext]_rungVars => RungsInv' /\ MenagerieInv'
  <2> SUFFICES ASSUME RungsInv, MenagerieInv, [RungsNext]_rungVars PROVE MenagerieInv'
    BY RungsKeep
  <2>1. CASE UNCHANGED rungVars
    <3>1. UNCHANGED <<rung, drv, disk, host>> /\ Pending' = Pending /\ Onward' = Onward
      BY <2>1 DEF rungVars, Pending, Onward
    <3> QED BY <3>1 DEF MenagerieInv, HostShape, OnwardSound, PacksOfDocs, AccountStands, StaysRemoved
  <2>2. CASE RungsNext
    BY <2>2, HostKeepsAccount, GlancesKeep, PushesKeep, JudgesKeep, ImportKeepsAccount, AccountKeeps, PickKeeps,
       EraseKeepsAccount, GoneKeeps, AttachKeepsAccount, BackKeeps, RemovalKeepsAccount, CloseKeepsAccount
    DEF RungsNext, Drive, Glances, Pushes, Judges
  <2> QED BY <2>1, <2>2
<1>3. MenagerieInv => MenagerieComplete
  <2> SUFFICES ASSUME MenagerieInv, rung = "menagerie", drv.exit = 0
               PROVE  host.docs \ host.odd \subseteq disk.packs /\ ~host.cache
    BY DEF MenagerieComplete
  <2>1. OnwardSound /\ drv.at = 40
    BY DEF MenagerieInv, Onward
  <2> QED BY <2>1 DEF OnwardSound, AccountStands, StaysRemoved, Pending, Returning
<1> QED BY <1>1, <1>2, <1>3, PTL DEF RungsSpec

(* What an exit of 0 may be relied on for, whatever the host does between  *)
(* two steps of a rung.                                                    *)
THEOREM RungsAreSound == RungsSpec => []RungsSound
<1>1. PassAccountsForStores /\ MenagerieComplete => RungsSound
  BY DEF RungsSound
<1> QED BY <1>1, PassesAccount, PassesAccountForAll, PTL

-----------------------------------------------------------------------------
(* FetchRecipe: what stands under a cache name passed its checks.          *)

(* The run, and what is left of its two loops: documents and sources of a  *)
(* recipe that was validated.                                              *)
FetcherShape == fetcher = [step |-> fetcher.step, docs |-> fetcher.docs, doc |-> fetcher.doc, todo |-> fetcher.todo,
                           only |-> fetcher.only, rows |-> fetcher.rows, exit |-> fetcher.exit]
SoundDocuments == UNION {ToSet(r) : r \in {r \in Recipes : validate(r) = {}}}
LoopsSound == fetcher.docs \in Seq(SoundDocuments) /\ fetcher.todo \in Seq(SoundSources)
FetchInv ==
  /\ FetcherShape /\ LoopsSound
  /\ DOMAIN cached = {Dest(a) : a \in Sources}
  /\ CheckedUnderItsName

(* The source at hand is of a validated recipe, and what is accepted of it *)
(* would be of any source with the same file.                              *)
LEMMA AtSourceSound ==
  ASSUME LoopsSound, fetcher.todo # <<>>
  PROVE  /\ AtSource \in SoundSources /\ Tail(fetcher.todo) \in Seq(SoundSources)
         /\ Dest(AtSource) \in {Dest(a) : a \in Sources}
         /\ \A a : Dest(a) = Dest(AtSource) => Accepted(a) = Accepted(AtSource)
<1>1. AtSource \in SoundSources /\ Tail(fetcher.todo) \in Seq(SoundSources)
  BY DEF LoopsSound, AtSource
<1>2. SoundSources \subseteq Sources
  BY DEF SoundSources, Sources
<1>3. \A a : Dest(a) = Dest(AtSource) => a.text = AtSource.text
  BY DEF Dest
<1> QED BY <1>1, <1>2, <1>3 DEF Accepted

(* What is left of a validated recipe is its documents ...                 *)
LEMMA RecipeSound ==
  ASSUME NEW r \in Recipes, validate(r) = {}
  PROVE  r \in Seq(SoundDocuments)
<1>1. r \in Seq(ToSet(r)) /\ ToSet(r) \subseteq SoundDocuments
  BY RecipesAssumption DEF SoundDocuments
<1> QED BY <1>1
(* ... and its sources.                                                    *)
LEMMA DocumentSound ==
  ASSUME NEW d \in SoundDocuments
  PROVE  d.attachments \in Seq(SoundSources)
<1>1. PICK r \in Recipes : validate(r) = {} /\ d \in ToSet(r)
  BY DEF SoundDocuments
<1>2. d.attachments \in Seq(ToSet(d.attachments))
  BY <1>1, RecipesAssumption
<1>3. ToSet(d.attachments) \subseteq SoundSources
  BY <1>1 DEF SoundSources, SourcesOf
<1> QED BY <1>2, <1>3

(* A step that fetches nothing moves the loops or the step only.           *)
LEMMA LoopsMove ==
  ASSUME FetchInv, UNCHANGED cached, FetcherShape',
         fetcher'.docs = fetcher.docs \/ fetcher'.docs = <<>>,
         \/ fetcher'.todo = fetcher.todo \/ fetcher'.todo = <<>>
         \/ fetcher.todo # <<>> /\ fetcher'.todo = Tail(fetcher.todo)
  PROVE  FetchInv'
<1>1. fetcher'.docs \in Seq(SoundDocuments)
  <2>1. <<>> \in Seq(SoundDocuments)
    OBVIOUS
  <2> QED BY <2>1 DEF FetchInv, LoopsSound
<1>2. fetcher'.todo \in Seq(SoundSources)
  <2>1. <<>> \in Seq(SoundSources)
    OBVIOUS
  <2>2. CASE fetcher.todo # <<>> /\ fetcher'.todo = Tail(fetcher.todo)
    BY <2>2, AtSourceSound DEF FetchInv
  <2> QED BY <2>1, <2>2 DEF FetchInv, LoopsSound
<1> QED BY <1>1, <1>2 DEF FetchInv, LoopsSound, CheckedUnderItsName

(* run(), download_atomic(): the name is given only to the bytes that came *)
(* when the checks accepted them.                                          *)
LEMMA ReplaceKeeps == ASSUME FetchInv, Replace PROVE FetchInv'
<1>1. /\ fetcher.todo # <<>> /\ fetcher.step \in Accepted(AtSource) /\ partial[Dest(AtSource)] = fetcher.step
  BY DEF Replace, Landed, UnderWay
<1>2. cached' = [cached EXCEPT ![Dest(AtSource)] = fetcher.step]
  BY <1>1 DEF Replace
<1>3. FetcherShape' /\ LoopsSound'
  BY DEF Replace, FetchInv, FetcherShape, LoopsSound
<1>4. CheckedUnderItsName'
  <2> SUFFICES ASSUME NEW a \in SoundSources PROVE cached'[Dest(a)] \in {NoBytes} \cup Accepted(a)
    BY DEF CheckedUnderItsName
  <2>1. Dest(a) \in DOMAIN cached
    BY DEF FetchInv, SoundSources, Sources
  <2>2. CASE Dest(a) = Dest(AtSource)
    BY <1>1, <1>2, <2>1, <2>2, AtSourceSound DEF FetchInv
  <2>3. CASE Dest(a) # Dest(AtSource)
    BY <1>2, <2>1, <2>3 DEF FetchInv, CheckedUnderItsName
  <2> QED BY <2>2, <2>3
<1> QED BY <1>2, <1>3, <1>4 DEF FetchInv

(* Whatever broke or was killed, a file under its cache name passed the    *)
(* checks of its own source's size, first bytes and format; what was cut   *)
(* short above the least size passes them too (download_atomic, fetch_one).*)
THEOREM NamesAreChecked == FetchSpec => []CheckedUnderItsName
<1>1. FetchInit => FetchInv
  BY DEF FetchInit, FetchInv, FetcherShape, LoopsSound, NoRun, CheckedUnderItsName, SoundSources, Sources
<1>2. FetchInv /\ [FetchNext]_fetchVars => FetchInv'
  <2> SUFFICES ASSUME FetchInv, [FetchNext]_fetchVars PROVE FetchInv'
    OBVIOUS
  <2>1. CASE Load
    <3>1. UNCHANGED cached
      BY <2>1 DEF Load
    <3>2. PICK r \in Recipes, only \in SUBSET SourceIds :
            fetcher' = IF validate(r) # {} THEN [NoRun EXCEPT !.step = "over", !.exit = "refused"]
                       ELSE [NoRun EXCEPT !.step = "source", !.docs = r, !.only = only]
      BY <2>1 DEF Load
    <3>3. <<>> \in Seq(SoundDocuments) /\ <<>> \in Seq(SoundSources)
      OBVIOUS
    <3>4. CASE validate(r) # {}
      <4>1. fetcher' = [NoRun EXCEPT !.step = "over", !.exit = "refused"]
        BY <3>2, <3>4
      <4>2. FetcherShape' /\ fetcher'.todo = <<>> /\ fetcher'.docs = <<>>
        BY <4>1 DEF FetcherShape, NoRun
      <4> QED BY <3>1, <3>3, <4>2 DEF FetchInv, LoopsSound, CheckedUnderItsName
    <3>5. CASE validate(r) = {}
      <4>1. fetcher' = [NoRun EXCEPT !.step = "source", !.docs = r, !.only = only]
        BY <3>2, <3>5
      <4>2. FetcherShape' /\ fetcher'.todo = <<>> /\ fetcher'.docs \in Seq(SoundDocuments)
        BY <3>5, <4>1, RecipeSound DEF FetcherShape, NoRun
      <4> QED BY <3>1, <3>3, <4>2 DEF FetchInv, LoopsSound, CheckedUnderItsName
    <3> QED BY <3>4, <3>5
  <2>2. CASE NextDocument
    <3>1. /\ UNCHANGED cached /\ FetcherShape' /\ fetcher.docs # <<>>
          /\ fetcher'.docs = Tail(fetcher.docs) /\ fetcher'.todo = Head(fetcher.docs).attachments
      BY <2>2 DEF NextDocument, AtLoops, FetchInv, FetcherShape
    <3>2. Head(fetcher.docs) \in SoundDocuments /\ Tail(fetcher.docs) \in Seq(SoundDocuments)
      BY <3>1 DEF FetchInv, LoopsSound
    <3> QED BY <3>1, <3>2, DocumentSound DEF FetchInv, LoopsSound, CheckedUnderItsName
  <2>3. CASE NotAsked
    BY <2>3, LoopsMove DEF NotAsked, AtLoops, FetchInv, FetcherShape
  <2>4. CASE NoAddress \/ InHand \/ DroppedArchive
    BY <2>4, LoopsMove DEF NoAddress, InHand, DroppedArchive, Wanting, UnderWay, FailedRow, Row, FetchInv, FetcherShape
  <2>5. CASE OpenConnection
    BY <2>5, LoopsMove DEF OpenConnection, Wanting, UnderWay, Row, FetchInv, FetcherShape
  <2>6. CASE ConnectionBreaks \/ BodyEnds \/ Rejects
    BY <2>6, LoopsMove DEF ConnectionBreaks, BodyEnds, Rejects, Landed, UnderWay, FailedRow, Row, FetchInv, FetcherShape
  <2>7. CASE Replace
    BY <2>7, ReplaceKeeps
  <2>8. CASE Hash
    BY <2>8, LoopsMove DEF Hash, UnderWay, Row, FetchInv, FetcherShape
  <2>9. CASE ReportRows
    <3>1. FetcherShape' /\ UNCHANGED cached /\ UNCHANGED <<fetcher.docs, fetcher.todo>>
      BY <2>9 DEF ReportRows, AtLoops, FetchInv, FetcherShape
    <3> QED BY <3>1, LoopsMove
  <2>10. CASE FetchKilled
    <3>1. fetcher' = NoRun /\ UNCHANGED cached
      BY <2>10 DEF FetchKilled
    <3>2. FetcherShape' /\ fetcher'.docs = <<>> /\ fetcher'.todo = <<>>
      BY <3>1 DEF FetcherShape, NoRun
    <3> QED BY <3>1, <3>2, LoopsMove
  <2>11. CASE UNCHANGED fetchVars
    BY <2>11, LoopsMove DEF fetchVars, FetchInv, FetcherShape
  <2> QED BY <2>1, <2>2, <2>3, <2>4, <2>5, <2>6, <2>7, <2>8, <2>9, <2>11, <2>10 DEF FetchNext
<1>3. FetchInv => CheckedUnderItsName
  BY DEF FetchInv
<1> QED BY <1>1, <1>2, <1>3, PTL DEF FetchSpec

-----------------------------------------------------------------------------
(* GoldenScore: the run on the stack is scored reply by reply, and nothing *)
(* a gated reading looks at comes from the evidence of a result.           *)

(* Each reply of the run is an entry, in its place, or left to score; the  *)
(* stamps the quotes are located by are not written meanwhile.             *)
ScoredSoFar ==
  /\ gate.bundle \in Bundles /\ ListOf(gate.entries) /\ ListOf(gate.left)
  /\ Len(gate.entries) + Len(gate.left) = Len(gate.bundle.replies)
  /\ \A i \in 1..Len(gate.entries) : gate.entries[i] = Entry(gate.export, gate.bundle.replies[i])
  /\ \A i \in 1..Len(gate.left) : gate.left[i] = gate.bundle.replies[Len(gate.entries) + i]
ScoreInv ==
  /\ DOMAIN gate = DOMAIN NoGate
  /\ gate.at \in {"score", "report"} => ScoredSoFar
  /\ gate.at = "report" => gate.left = <<>> /\ gate.state = Gate(gate.bundle, gate.entries)

(* A list has a length, and stays one where it grows or is used up.        *)
LEMMA ListIsSeq ==
  ASSUME NEW s, ListOf(s)
  PROVE  Len(s) \in Nat /\ DOMAIN s = 1..Len(s) /\ s = [i \in 1..Len(s) |-> s[i]]
BY DEF ListOf

LEMMA SeqIsList ==
  ASSUME NEW S, NEW s \in Seq(S) PROVE ListOf(s)
<1>1. s \in [1..Len(s) -> {s[i] : i \in 1..Len(s)}] /\ Len(s) \in Nat
  OBVIOUS
<1> QED BY <1>1 DEF ListOf

LEMMA ListAppend ==
  ASSUME NEW s, ListOf(s), NEW x
  PROVE  /\ ListOf(Append(s, x)) /\ Len(Append(s, x)) = Len(s) + 1
         /\ \A i \in 1..Len(s) : Append(s, x)[i] = s[i]
         /\ Append(s, x)[Len(s) + 1] = x
<1> DEFINE S == {s[i] : i \in DOMAIN s} \cup {x}
<1>1. s \in Seq(S) /\ x \in S
  BY DEF ListOf
<1> HIDE DEF S
<1>2. /\ Append(s, x) \in Seq(S) /\ Len(Append(s, x)) = Len(s) + 1
      /\ \A i \in 1..Len(s) : Append(s, x)[i] = s[i]
      /\ Append(s, x)[Len(s) + 1] = x
  BY <1>1, AppendProperties
<1>3. ListOf(Append(s, x))
  BY <1>2, SeqIsList
<1> QED BY <1>2, <1>3

LEMMA ListTail ==
  ASSUME NEW s, ListOf(s), s # <<>>
  PROVE  /\ ListOf(Tail(s)) /\ Len(Tail(s)) = Len(s) - 1 /\ Len(s) \in Nat \ {0} /\ Head(s) = s[1]
         /\ \A i \in 1..Len(s) - 1 : Tail(s)[i] = s[i + 1]
<1> DEFINE S == {s[i] : i \in DOMAIN s}
<1>1. s \in Seq(S)
  BY DEF ListOf
<1> HIDE DEF S
<1>2. /\ Tail(s) \in Seq(S) /\ Len(Tail(s)) = Len(s) - 1 /\ Len(s) \in Nat \ {0} /\ Head(s) = s[1]
      /\ \A i \in 1..Len(s) - 1 : Tail(s)[i] = s[i + 1]
  BY <1>1, HeadTailProperties, EmptySeq
<1>3. ListOf(Tail(s))
  BY <1>2, SeqIsList
<1> QED BY <1>2, <1>3

(* A reply is scored by the stamps of its bank.                            *)
LEMMA LocateKept ==
  ASSUME UNCHANGED stamps, NEW e, NEW q, NEW r, NEW result
  PROVE  AccommodatingPage(e, q, r, result)' <=> AccommodatingPage(e, q, r, result)
BY DEF AccommodatingPage, LocateQuote, Offset

LEMMA RowsKept ==
  ASSUME UNCHANGED stamps, NEW e, NEW q, NEW hits
  PROVE  PrimaryRows(e, q, hits)' = PrimaryRows(e, q, hits)
<1>1. ASSUME NEW r PROVE ScoreRow(e, q, r, hits)' = ScoreRow(e, q, r, hits)
  BY LocateKept DEF ScoreRow
<1> QED BY <1>1 DEF PrimaryRows

LEMMA EntryKept ==
  ASSUME UNCHANGED stamps, NEW export, NEW reply
  PROVE  Entry(export, reply)' = Entry(export, reply)
<1>1. ASSUME NEW e, NEW q PROVE ScoreReply(e, q, reply)' = ScoreReply(e, q, reply)
  BY RowsKept DEF ScoreReply
<1> QED BY <1>1 DEF Entry

LEMMA ScoreInvStep ==
  ASSUME ScoreInv, [ScoreNext]_scoreVars PROVE ScoreInv'
<1>1. CASE Validate
  <2>1. DOMAIN gate' = DOMAIN NoGate /\ gate'.at \notin {"score", "report"}
    BY <1>1 DEF Validate, StampBank, CheckBank, RefuseBank, NoGate
  <2> QED BY <2>1 DEF ScoreInv, NoGate
<1>2. CASE LoadReplies
  <2> PICK name \in DOMAIN Exports, bundle \in Bundles :
           \/ gate' = [NoGate EXCEPT !.at = "score", !.export = name, !.bundle = bundle, !.left = bundle.replies]
           \/ gate' = [NoGate EXCEPT !.exit = 2]
    BY <1>2 DEF LoadReplies
  <2>1. CASE gate' = [NoGate EXCEPT !.exit = 2]
    <3>1. DOMAIN gate' = DOMAIN NoGate /\ gate'.at \notin {"score", "report"}
      BY <2>1 DEF NoGate
    <3> QED BY <3>1 DEF ScoreInv, NoGate
  <2>2. CASE gate' = [NoGate EXCEPT !.at = "score", !.export = name, !.bundle = bundle, !.left = bundle.replies]
    <3>1. /\ gate'.bundle = bundle /\ gate'.left = bundle.replies /\ gate'.entries = <<>> /\ gate'.at = "score"
          /\ DOMAIN gate' = DOMAIN NoGate
      BY <2>2 DEF NoGate
    <3>2. ListOf(bundle.replies) /\ ListOf(<<>>)
      <4>1. <<>> \in Seq({})
        OBVIOUS
      <4> QED BY <4>1, BundlesAssumption, SeqIsList
    <3>3. Len(bundle.replies) \in Nat
      BY <3>2, ListIsSeq
    <3> QED BY <3>1, <3>2, <3>3 DEF ScoreInv, ScoredSoFar, NoGate
  <2> QED BY <2>1, <2>2
<1>3. CASE NextReply
  <2>1. CASE Question(Head(gate.left)) = {}
    <3>1. DOMAIN gate' = DOMAIN NoGate /\ gate'.at \notin {"score", "report"}
      BY <1>3, <2>1 DEF NextReply, NoGate
    <3> QED BY <3>1 DEF ScoreInv, NoGate
  <2>2. CASE Question(Head(gate.left)) # {}
    <3> DEFINE n == Len(gate.entries)
               one == Entry(gate.export, Head(gate.left))
    <3>1. /\ gate.at = "score" /\ gate.left # <<>> /\ DOMAIN gate = DOMAIN NoGate /\ UNCHANGED stamps
          /\ gate' = [gate EXCEPT !.left = Tail(gate.left), !.entries = Append(gate.entries, one)]
          /\ ScoredSoFar
      BY <1>3, <2>2 DEF NextReply, ScoreInv
    <3>2. /\ gate'.at = "score" /\ gate'.bundle = gate.bundle /\ gate'.export = gate.export
          /\ gate'.left = Tail(gate.left) /\ gate'.entries = Append(gate.entries, one)
          /\ DOMAIN gate' = DOMAIN NoGate
      BY <3>1 DEF NoGate
    <3>3. /\ ListOf(gate'.left) /\ Len(gate'.left) = Len(gate.left) - 1 /\ Len(gate.left) \in Nat \ {0}
          /\ Head(gate.left) = gate.left[1]
          /\ \A i \in 1..Len(gate.left) - 1 : gate'.left[i] = gate.left[i + 1]
      BY <3>1, <3>2, ListTail DEF ScoredSoFar
    <3>4. /\ ListOf(gate'.entries) /\ Len(gate'.entries) = n + 1 /\ n \in Nat
          /\ \A i \in 1..n : gate'.entries[i] = gate.entries[i]
          /\ gate'.entries[n + 1] = one
      BY <3>1, <3>2, ListAppend, ListIsSeq DEF ScoredSoFar
    <3>5. Head(gate.left) = gate.bundle.replies[n + 1]
      BY <3>1, <3>3 DEF ScoredSoFar
    <3>6. \A i \in 1..n + 1 : gate'.entries[i] = Entry(gate.export, gate.bundle.replies[i])
      BY <3>1, <3>4, <3>5 DEF ScoredSoFar
    <3>7. \A i \in 1..n + 1 : gate'.entries[i] = Entry(gate.export, gate.bundle.replies[i])'
      BY <3>1, <3>2, <3>6, EntryKept
    <3>8. ASSUME NEW i \in 1..Len(gate'.left) PROVE gate'.left[i] = gate.bundle.replies[n + 1 + i]
      <4>1. i + 1 \in 1..Len(gate.left) /\ i \in 1..Len(gate.left) - 1 /\ n + (i + 1) = n + 1 + i
        <5> DEFINE l == Len(gate.left)
                   m == Len(gate'.left)
        <5>1. l \in Nat \ {0} /\ m = l - 1 /\ n \in Nat /\ i \in 1..m
          BY <3>3, <3>4
        <5> HIDE DEF l, m, n
        <5>2. i + 1 \in 1..l /\ i \in 1..l - 1 /\ n + (i + 1) = n + 1 + i
          BY <5>1
        <5> QED BY <5>2 DEF l
      <4>2. gate.left[i + 1] = gate.bundle.replies[n + (i + 1)]
        BY <3>1, <4>1 DEF ScoredSoFar
      <4> QED BY <3>3, <4>1, <4>2
    <3>9. Len(gate'.entries) + Len(gate'.left) = Len(gate'.bundle.replies)
      <4> DEFINE l == Len(gate.left)
                 all == Len(gate.bundle.replies)
      <4>1. l \in Nat /\ n \in Nat /\ n + l = all /\ Len(gate'.entries) = n + 1 /\ Len(gate'.left) = l - 1
        BY <3>1, <3>3, <3>4 DEF ScoredSoFar
      <4>2. Len(gate'.bundle.replies) = all
        BY <3>2
      <4> HIDE DEF l, n, all
      <4> QED BY <4>1, <4>2
    <3>10. ScoredSoFar'
      <4> HIDE DEF n, one
      <4> QED BY <3>1, <3>2, <3>3, <3>4, <3>7, <3>8, <3>9 DEF ScoredSoFar
    <3> QED BY <3>2, <3>10 DEF ScoreInv, NoGate
  <2> QED BY <2>1, <2>2
<1>4. CASE Evaluate
  <2>1. /\ gate.at = "score" /\ gate.left = <<>> /\ ScoredSoFar /\ UNCHANGED stamps
        /\ gate'.at = "report" /\ gate'.state = Gate(gate.bundle, gate.entries)
        /\ gate'.bundle = gate.bundle /\ gate'.entries = gate.entries /\ gate'.left = gate.left
        /\ gate'.export = gate.export /\ DOMAIN gate' = DOMAIN NoGate
    BY <1>4 DEF Evaluate, ScoreInv, NoGate
  <2>2. \A i \in 1..Len(gate.entries) : gate.entries[i] = Entry(gate.export, gate.bundle.replies[i])'
    BY <2>1, EntryKept DEF ScoredSoFar
  <2>3. ScoredSoFar'
    BY <2>1, <2>2 DEF ScoredSoFar
  <2> QED BY <2>1, <2>3 DEF ScoreInv, NoGate
<1>5. CASE Exits
  <2>1. DOMAIN gate' = DOMAIN NoGate /\ gate'.at \notin {"score", "report"}
    BY <1>5 DEF Exits, NoGate
  <2> QED BY <2>1 DEF ScoreInv, NoGate
<1>6. CASE UNCHANGED scoreVars
  <2>1. gate' = gate /\ UNCHANGED stamps
    BY <1>6 DEF scoreVars
  <2>2. \A i \in 1..Len(gate.entries) : Entry(gate.export, gate.bundle.replies[i])' = Entry(gate.export, gate.bundle.replies[i])
    BY <2>1, EntryKept
  <2>3. ScoredSoFar => ScoredSoFar'
    BY <2>1, <2>2 DEF ScoredSoFar
  <2> QED BY <2>1, <2>3 DEF ScoreInv, NoGate
<1> QED BY <1>1, <1>2, <1>3, <1>4, <1>5, <1>6 DEF ScoreNext

(* A result without its quote is of the same item and the same page.       *)
LEMMA UnquotedSame ==
  ASSUME NEW e, NEW row, NEW result
  PROVE  /\ SameItem(e, Unquoted(result), row) <=> SameItem(e, result, row)
         /\ OfficialPage(Unquoted(result), row) <=> OfficialPage(result, row)
         /\ Candidate(e, Unquoted(result), row) \in {0, 1, 2} /\ Candidate(e, result, row) \in {0, 1, 2}
         /\ Candidate(e, Unquoted(result), row) = 0 <=> Candidate(e, result, row) = 0
BY DEF Unquoted, SameItem, OfficialPage, Candidate, Twin

(* So a row is missed by the blind reply where it is by the reply, and the *)
(* official page is found by both.                                         *)
LEMMA BlindRow ==
  ASSUME NEW e, NEW q, NEW r, NEW hits, NEW blind, Len(hits) \in Nat,
         Len(blind) = Len(hits), \A i \in 1..Len(hits) : blind[i] = Unquoted(hits[i])
  PROVE  /\ ScoreRow(e, q, r, blind).official = ScoreRow(e, q, r, hits).official
         /\ ScoreRow(e, q, r, blind).level = 0 <=> ScoreRow(e, q, r, hits).level = 0
<1> DEFINE row == q.rows[r]
           n == IF Len(hits) < K THEN Len(hits) ELSE K
           firstK == 1..n
           same(s) == {i \in firstK : SameItem(e, s[i], row)}
           page(s) == {i \in same(s) : OfficialPage(s[i], row)}
           at(s, level) == {i \in firstK : Candidate(e, s[i], row) = level}
<1>1. \A i \in firstK : blind[i] = Unquoted(hits[i])
  <2>1. firstK \subseteq 1..Len(hits)
    BY ThresholdsAssumption DEF load_thresholds
  <2> HIDE DEF firstK
  <2> QED BY <2>1
<1>2. same(blind) = same(hits) /\ page(blind) = page(hits)
  BY <1>1, UnquotedSame
<1>3. at(blind, 1) = {} /\ at(blind, 2) = {} <=> at(hits, 1) = {} /\ at(hits, 2) = {}
  BY <1>1, UnquotedSame
<1>4. /\ ScoreRow(e, q, r, blind).official = FirstVerdict(same(blind), page(blind))
      /\ ScoreRow(e, q, r, hits).official = FirstVerdict(same(hits), page(hits))
  BY DEF ScoreRow
<1>5. /\ ScoreRow(e, q, r, blind).level = 0 <=> at(blind, 1) = {} /\ at(blind, 2) = {}
      /\ ScoreRow(e, q, r, hits).level = 0 <=> at(hits, 1) = {} /\ at(hits, 2) = {}
  BY DEF ScoreRow
<1> QED BY <1>2, <1>3, <1>4, <1>5

(* So is a reply's entry: what a gated reading looks at is the same.       *)
Alike(a, b) ==
  /\ a.id = b.id /\ a.mode = b.mode /\ a.state = b.state /\ a.top = b.top /\ a.official = b.official
  /\ a.outcome = "pass" <=> b.outcome = "pass"

LEMMA BlindRows ==
  ASSUME NEW e, NEW q, NEW reply, ListOf(reply.results)
  PROVE  LET seen == PrimaryRows(e, q, reply.results)
             blind == PrimaryRows(e, q, Blind(reply).results)
         IN  /\ DOMAIN blind = DOMAIN seen
             /\ \A r \in DOMAIN seen : /\ blind[r].official = seen[r].official
                                       /\ blind[r].level = 0 <=> seen[r].level = 0
<1> DEFINE hits == reply.results
           quiet == Blind(reply).results
<1>1. Len(hits) \in Nat
  BY ListIsSeq
<1>2. quiet = [i \in 1..Len(hits) |-> Unquoted(hits[i])]
  BY DEF Blind
<1>3. Len(quiet) = Len(hits) /\ \A i \in 1..Len(hits) : quiet[i] = Unquoted(hits[i])
  BY <1>1, <1>2
<1> HIDE DEF hits, quiet
<1>4. ASSUME NEW r
      PROVE  /\ ScoreRow(e, q, r, quiet).official = ScoreRow(e, q, r, hits).official
             /\ ScoreRow(e, q, r, quiet).level = 0 <=> ScoreRow(e, q, r, hits).level = 0
  BY <1>1, <1>3, BlindRow
<1> QED BY <1>4 DEF PrimaryRows, hits, quiet

LEMMA BlindTop ==
  ASSUME NEW reply, ListOf(reply.results)
  PROVE  {Blind(reply).results[i].item : i \in {j \in 1..Len(Blind(reply).results) : reply.ran /\ j <= K}}
           = {reply.results[i].item : i \in {j \in 1..Len(reply.results) : reply.ran /\ j <= K}}
<1> DEFINE quiet == Blind(reply).results
<1>1. Len(reply.results) \in Nat
  BY ListIsSeq
<1>2. quiet = [i \in 1..Len(reply.results) |-> Unquoted(reply.results[i])]
  BY DEF Blind
<1>3. Len(quiet) = Len(reply.results) /\ \A i \in 1..Len(reply.results) : quiet[i].item = reply.results[i].item
  BY <1>1, <1>2 DEF Unquoted
<1> HIDE DEF quiet
<1>4. {quiet[i].item : i \in {j \in 1..Len(quiet) : reply.ran /\ j <= K}}
        = {reply.results[i].item : i \in {j \in 1..Len(reply.results) : reply.ran /\ j <= K}}
  BY <1>3
<1> QED BY <1>4 DEF quiet

LEMMA BlindScored ==
  ASSUME NEW e, NEW q, NEW reply, ListOf(reply.results)
  PROVE  Alike(ScoreReply(e, q, Blind(reply)), ScoreReply(e, q, reply))
<1> DEFINE seen == PrimaryRows(e, q, reply.results)
           blind == PrimaryRows(e, q, Blind(reply).results)
           a == ScoreReply(e, q, Blind(reply))
           b == ScoreReply(e, q, reply)
           won(rows) == {r \in DOMAIN rows : rows[r].official = "satisfied"}
<1>1. /\ DOMAIN blind = DOMAIN seen
      /\ \A r \in DOMAIN seen : blind[r].official = seen[r].official
      /\ \A r \in DOMAIN seen : blind[r].level = 0 <=> seen[r].level = 0
  BY BlindRows
<1>2. Blind(reply).id = reply.id /\ Blind(reply).mode = reply.mode /\ Blind(reply).ran = reply.ran
  BY DEF Blind
<1>3. won(blind) = won(seen) /\ Outcome(blind) = Outcome(seen)
  <2> HIDE DEF blind, seen
  <2> QED BY <1>1 DEF Outcome
<1>4. a.id = b.id /\ a.mode = b.mode /\ a.state = b.state
  BY <1>2 DEF ScoreReply
<1>5. a.top = b.top
  <2> DEFINE top(one) == {one.results[i].item : i \in {j \in 1..Len(one.results) : one.ran /\ j <= K}}
  <2>1. a.top = top(Blind(reply)) /\ b.top = top(reply)
    BY DEF ScoreReply
  <2>2. top(Blind(reply)) = {Blind(reply).results[i].item :
                               i \in {j \in 1..Len(Blind(reply).results) : reply.ran /\ j <= K}}
    BY <1>2
  <2> HIDE DEF top
  <2>3. top(Blind(reply)) = top(reply)
    BY <2>2, BlindTop DEF top
  <2> QED BY <2>1, <2>3
<1>6. a.official = b.official
  <2>1. a.official = OverRows(q, won(blind)) /\ b.official = OverRows(q, won(seen))
    BY DEF ScoreReply
  <2> HIDE DEF won
  <2> QED BY <1>3, <2>1
<1>7. a.outcome = b.outcome
  <2>1. /\ a.outcome = IF a.state = "expected-miss" THEN Outcome(blind) ELSE "none"
        /\ b.outcome = IF b.state = "expected-miss" THEN Outcome(seen) ELSE "none"
    BY DEF ScoreReply
  <2> HIDE DEF a, b, blind, seen
  <2> QED BY <1>3, <1>4, <2>1
<1> HIDE DEF a, b
<1>8. Alike(a, b)
  BY <1>4, <1>5, <1>6, <1>7 DEF Alike
<1> QED BY <1>8 DEF a, b

(* Two lists of like entries make the same three readings.                 *)
LEMMA LikeEntries ==
  ASSUME NEW bundle, NEW E, NEW F, DOMAIN E = DOMAIN F, \A i \in DOMAIN F : Alike(E[i], F[i])
  PROVE  Gate(bundle, E) = Gate(bundle, F)
<1>1. \A state : Of(E, state) = Of(F, state)
  BY DEF Of, Alike
<1>2. \A i \in DOMAIN F : /\ E[i].official = F[i].official
                          /\ E[i].outcome = "pass" <=> F[i].outcome = "pass"
  BY DEF Alike
<1>3. \A state : Of(F, state) \subseteq DOMAIN F
  BY DEF Of
<1>4. R34Reading(E) = R34Reading(F)
  BY <1>1, <1>2, <1>3 DEF R34Reading
<1>5. NegativeControls(E) = NegativeControls(F)
  BY <1>1, <1>2, <1>3 DEF NegativeControls
<1>6. Retrieved(E) = Retrieved(F)
  BY DEF Retrieved, Alike
<1> QED BY <1>4, <1>5, <1>6 DEF Gate

(* A question is asked by its name and mode, which a blind reply keeps.    *)
LEMMA BlindEntries ==
  ASSUME ScoredSoFar, gate.left = <<>>
  PROVE  LET replies == gate.bundle.replies
             blind == [i \in 1..Len(replies) |-> Blind(replies[i])]
         IN  Gate(gate.bundle, Scored(gate.export, blind)) = Gate(gate.bundle, gate.entries)
<1> DEFINE replies == gate.bundle.replies
           blind == [i \in 1..Len(replies) |-> Blind(replies[i])]
           E == Scored(gate.export, blind)
<1>1. ListOf(replies) /\ \A i \in DOMAIN replies : ListOf(replies[i].results)
  BY BundlesAssumption DEF ScoredSoFar
<1>2. Len(replies) \in Nat /\ DOMAIN replies = 1..Len(replies)
  BY <1>1, ListIsSeq
<1>3. Len(gate.entries) \in Nat /\ DOMAIN gate.entries = 1..Len(gate.entries)
  BY ListIsSeq DEF ScoredSoFar
<1>4. Len(gate.entries) = Len(replies)
  <2>1. Len(gate.left) = 0
    OBVIOUS
  <2> QED BY <2>1, <1>3 DEF ScoredSoFar
<1>5. Len(blind) = Len(replies) /\ \A i \in 1..Len(replies) : blind[i] = Blind(replies[i])
  BY <1>2
<1>6. DOMAIN E = 1..Len(replies) /\ \A i \in 1..Len(replies) : E[i] = Entry(gate.export, Blind(replies[i]))
  <2> HIDE DEF blind
  <2> QED BY <1>5 DEF Scored
<1>7. \A i \in 1..Len(replies) : gate.entries[i] = Entry(gate.export, replies[i])
  BY <1>4 DEF ScoredSoFar
<1>8. ASSUME NEW i \in 1..Len(replies) PROVE Alike(E[i], gate.entries[i])
  <2> DEFINE reply == replies[i]
  <2>1. Question(Blind(reply)) = Question(reply)
    BY DEF Question, Blind
  <2>2. ListOf(reply.results)
    BY <1>1, <1>2
  <2> HIDE DEF reply
  <2>3. Alike(Entry(gate.export, Blind(reply)), Entry(gate.export, reply))
    BY <2>1, <2>2, BlindScored DEF Entry
  <2> HIDE DEF E
  <2> QED BY <1>6, <1>7, <2>3 DEF reply
<1> HIDE DEF E
<1>9. Gate(gate.bundle, E) = Gate(gate.bundle, gate.entries)
  BY <1>3, <1>4, <1>6, <1>8, LikeEntries
<1> QED BY <1>9 DEF E

LEMMA ScoreStarts == ScoreInit => ScoreInv
BY DEF ScoreInit, ScoreInv, NoGate

LEMMA ScoreInvariant == ScoreSpec => []ScoreInv
<1>1. ScoreInv /\ [ScoreNext]_scoreVars => ScoreInv'
  BY ScoreInvStep
<1> QED BY <1>1, ScoreStarts, PTL DEF ScoreSpec

(* In every state the gate's verdict is the one it would give to the same  *)
(* replies with all their evidence blanked.                                *)
THEOREM EvidenceIsUngated == ScoreSpec => []EvidenceGatesNothing
<1>1. ScoreInv => EvidenceGatesNothing
  BY BlindEntries DEF ScoreInv, EvidenceGatesNothing
<1> QED BY <1>1, ScoreInvariant, PTL

-----------------------------------------------------------------------------
(* SitterInstall: the copy of a data directory that Zotero may start to    *)
(* write at any step, and the two arms on a host of any fault.             *)

(* What the two records are made of.                                       *)
CopyUnderway == {"prepare", "copying", "ps after", "locks after"}
ZoteroShape ==
  /\ zotero = [run |-> zotero.run, listed |-> zotero.listed, lock |-> zotero.lock, launches |-> zotero.launches,
               writes |-> zotero.writes, library |-> zotero.library]
  /\ zotero.library = [f \in Files |-> zotero.library[f]]
  /\ zotero.run = "on" => zotero.lock = "live"
CopyShape ==
  /\ copy = [pc |-> copy.pc, dest |-> copy.dest, kept |-> copy.kept, taken |-> copy.taken,
             left |-> copy.left, invocations |-> copy.invocations]
  /\ copy.pc \in {"idle", "ps before", "locks before"} \cup CopyUnderway
  /\ copy.dest = [f \in DOMAIN copy.dest |-> copy.dest[f]]
  /\ copy.pc \in {"ps before", "locks before", "prepare"} => DOMAIN copy.dest = {}
  /\ copy.pc \in CopyUnderway => copy.taken = [f \in Files |-> copy.taken[f]]
  /\ copy.pc \in {"ps after", "locks after"} => DOMAIN copy.dest = Files
  /\ DOMAIN copy.dest \subseteq Files
  /\ copy.kept = "copied" => copy.pc = "idle"

(* Until Zotero has come and gone, a copy under way that differs from what *)
(* was there at the first look does so with Zotero still running.          *)
CopyTracksSource ==
  copy.pc \in CopyUnderway /\ ~copy.left /\ zotero.run # "on" =>
    /\ zotero.library = copy.taken
    /\ \A f \in DOMAIN copy.dest : copy.dest[f] = copy.taken[f]
CloneInv == ZoteroShape /\ CopyShape /\ CopyTracksSource /\ KeptCopyIsWhole

LEMMA CloneStarts == CloneInit => CloneInv
BY DEF CloneInit, CloneInv, ZoteroShape, CopyShape, CopyTracksSource, KeptCopyIsWhole, CopyUnderway

(* Zotero's own steps. *)
LEMMA ZoteroKeeps ==
  ASSUME CloneInv, ZoteroStarts \/ ZoteroLocks \/ (\E lock \in {"none", "stale"} : ZoteroQuits(lock))
                   \/ (\E f \in Files : ZoteroWrites(f))
  PROVE  CloneInv'
<1> USE DEF CloneInv, ZoteroShape, CopyShape, CopyTracksSource, KeptCopyIsWhole
<1>1. CASE ZoteroStarts
  BY <1>1 DEF ZoteroStarts
<1>2. CASE ZoteroLocks
  BY <1>2 DEF ZoteroLocks
<1>3. CASE \E lock \in {"none", "stale"} : ZoteroQuits(lock)
  <2>1. PICK lock \in {"none", "stale"} : ZoteroQuits(lock)
    BY <1>3
  <2>2. /\ zotero'.run = "off" /\ zotero'.lock = lock /\ zotero'.library = zotero.library
        /\ zotero' = [run |-> "off", listed |-> zotero'.listed, lock |-> lock, launches |-> zotero'.launches,
                      writes |-> zotero'.writes, library |-> zotero'.library]
    BY <2>1 DEF ZoteroQuits
  <2>3. /\ copy'.left /\ copy'.pc = copy.pc /\ copy'.dest = copy.dest /\ copy'.taken = copy.taken
        /\ copy'.kept = copy.kept
        /\ copy' = [pc |-> copy'.pc, dest |-> copy'.dest, kept |-> copy'.kept, taken |-> copy'.taken,
                    left |-> copy'.left, invocations |-> copy'.invocations]
    BY <2>1 DEF ZoteroQuits
  <2> QED BY <2>2, <2>3
<1>4. CASE \E f \in Files : ZoteroWrites(f)
  <2>1. PICK f \in Files : ZoteroWrites(f)
    BY <1>4
  <2>2. /\ zotero.run = "on" /\ zotero'.run = "on" /\ zotero'.lock = zotero.lock
        /\ zotero'.library = [zotero.library EXCEPT ![f] = @ + 1]
        /\ zotero' = [run |-> zotero'.run, listed |-> zotero'.listed, lock |-> zotero'.lock,
                      launches |-> zotero'.launches, writes |-> zotero'.writes, library |-> zotero'.library]
        /\ copy' = copy
    BY <2>1 DEF ZoteroWrites
  <2>3. zotero'.library = [g \in Files |-> zotero'.library[g]]
    BY <2>2
  <2> QED BY <2>2, <2>3, ZenonT(60)
<1> QED BY <1>1, <1>2, <1>3, <1>4

(* A step of the recipe that ends an invocation, keeping part of what it   *)
(* copied or all of it, records nothing.                                   *)
LEMMA EndsUnrecorded ==
  ASSUME CloneInv, UNCHANGED zotero, Declined \/ RemoveCopy, copy.kept # "copied"
  PROVE  CloneInv'
<1> USE DEF CloneInv, ZoteroShape, CopyShape, CopyTracksSource, KeptCopyIsWhole, CopyUnderway
<1>1. CASE Declined
  BY <1>1 DEF Declined
<1>2. CASE RemoveCopy
  <2>1. PICK kept \in SUBSET DOMAIN copy.dest :
          copy' = [copy EXCEPT !.pc = "idle", !.dest = [f \in kept |-> copy.dest[f]]]
    BY <1>2 DEF RemoveCopy
  <2>2. /\ copy'.pc = "idle" /\ copy'.dest = [f \in kept |-> copy.dest[f]] /\ copy'.kept = copy.kept
        /\ copy' = [pc |-> copy'.pc, dest |-> copy'.dest, kept |-> copy'.kept, taken |-> copy'.taken,
                    left |-> copy'.left, invocations |-> copy'.invocations]
    BY <2>1
  <2>3. DOMAIN copy'.dest = kept /\ copy'.dest = [f \in DOMAIN copy'.dest |-> copy'.dest[f]]
    BY <2>2
  <2> QED BY <2>2, <2>3
<1> QED BY <1>1, <1>2

LEMMA RecipeKeeps ==
  ASSUME CloneInv, (\E f \in Files : CopyFile(f)) \/ Clone \/ ReadProcesses \/ ReadLocks \/ Prepare
                   \/ CopyEnds \/ CopyKilled
  PROVE  CloneInv'
<1> USE DEF CloneInv, ZoteroShape, CopyShape, CopyTracksSource, KeptCopyIsWhole, CopyUnderway
<1>1. CASE \E f \in Files : CopyFile(f)
  <2>1. PICK f \in Files : CopyFile(f)
    BY <1>1
  <2> DEFINE D == DOMAIN copy.dest \cup {f}
  <2>2. /\ copy.pc = "copying" /\ copy'.pc = "copying" /\ copy'.kept = copy.kept /\ copy'.taken = copy.taken
        /\ copy'.left = copy.left /\ zotero' = zotero
        /\ copy'.dest = [g \in D |-> IF g = f THEN zotero.library[f] ELSE copy.dest[g]]
        /\ copy' = [pc |-> copy'.pc, dest |-> copy'.dest, kept |-> copy'.kept, taken |-> copy'.taken,
                    left |-> copy'.left, invocations |-> copy'.invocations]
    BY <2>1 DEF CopyFile
  <2>3. /\ DOMAIN copy'.dest = D /\ copy'.dest = [g \in DOMAIN copy'.dest |-> copy'.dest[g]]
        /\ \A g \in D : copy'.dest[g] = IF g = f THEN zotero.library[f] ELSE copy.dest[g]
    BY <2>2
  <2>4. ASSUME ~copy.left, zotero.run # "on"
        PROVE  \A g \in D : copy'.dest[g] = copy.taken[g]
    BY <2>2, <2>3, <2>4
  <2> QED BY <2>2, <2>3, <2>4
<1>2. CASE Clone
  BY <1>2 DEF Clone
<1>3. CASE ReadProcesses
  BY <1>3, EndsUnrecorded, ZenonT(60) DEF ReadProcesses
<1>4. CASE ReadLocks
  <2>1. CASE zotero.lock = "live"
    BY <1>4, <2>1, EndsUnrecorded DEF ReadLocks
  <2>2. CASE zotero.lock # "live" /\ copy.pc = "locks before"
    BY <1>4, <2>2, ZenonT(60) DEF ReadLocks
  <2>3. CASE zotero.lock # "live" /\ copy.pc = "locks after"
    <3>1. /\ copy'.pc = "idle" /\ copy'.dest = copy.dest /\ copy'.taken = copy.taken /\ copy'.left = copy.left
          /\ copy' = [pc |-> copy'.pc, dest |-> copy'.dest, kept |-> copy'.kept, taken |-> copy'.taken,
                      left |-> copy'.left, invocations |-> copy'.invocations]
          /\ zotero' = zotero
      BY <1>4, <2>3 DEF ReadLocks
    <3>2. ASSUME ~copy.left PROVE copy.dest = copy.taken
      BY <2>3, <3>2
    <3> QED BY <2>3, <3>1, <3>2
  <2> QED BY <1>4, <2>1, <2>2, <2>3 DEF ReadLocks
<1>5. CASE Prepare
  BY <1>5, EndsUnrecorded DEF Prepare
<1>6. CASE CopyEnds
  BY <1>6, EndsUnrecorded, ZenonT(60) DEF CopyEnds
<1>7. CASE CopyKilled
  BY <1>7, EndsUnrecorded DEF CopyKilled
<1> QED BY <1>1, <1>2, <1>3, <1>4, <1>5, <1>6, <1>7

-----------------------------------------------------------------------------
(* What the host of an arm holds at each step, by the steps of the arm     *)
(* that failed, and what was seen after its restart.                       *)
HostFaults == {"none", "replacement", "queue"}
RigShape ==
  /\ profile = [fault |-> profile.fault, addon |-> profile.addon, queued |-> profile.queued,
                replaced |-> profile.replaced]
  /\ profile.fault \in HostFaults
  /\ rig = [pc |-> rig.pc, arm |-> rig.arm, looks |-> rig.looks, shown |-> rig.shown, verdict |-> rig.verdict]
  /\ rig.arm \in {1, 2} /\ rig.shown = [a \in {1, 2} |-> rig.shown[a]]
  /\ \A a \in {1, 2} : rig.shown[a] = [present |-> rig.shown[a].present, failed |-> rig.shown[a].failed]
Fresh == ~profile.addon /\ ~profile.queued /\ ~profile.replaced
Took(step) == step \notin rig.shown[rig.arm].failed
HostHolds ==
  /\ rig.pc = "install 1" => Fresh
  /\ rig.pc = "stage" => rig.arm = 2
  /\ rig.pc = "install 2" => /\ rig.arm = 1 /\ rig.shown[rig.arm].failed = {} => profile.addon
                             /\ rig.arm = 2 /\ Took("stage") => profile.queued
  /\ rig.pc \in {"dwell", "restart"} =>
       /\ rig.arm = 1 /\ rig.shown[rig.arm].failed = {} => profile.replaced
       /\ rig.arm = 2 /\ Took("install 2") /\ profile.fault # "queue" => profile.addon /\ ~profile.queued
       /\ rig.arm = 2 /\ Took("stage") /\ profile.fault = "queue" => profile.queued \/ ~profile.addon
  /\ rig.pc = "after" =>
       /\ rig.arm = 1 /\ rig.shown[rig.arm].failed = {} /\ profile.fault = "replacement" => ~profile.addon
       /\ rig.arm = 2 /\ Took("install 2") /\ profile.fault = "none" => profile.addon
       /\ rig.arm = 2 /\ Took("stage") /\ profile.fault = "queue" => ~profile.addon
Witnessed ==
  /\ rig.shown[1].present = "yes" /\ profile.fault = "replacement" => rig.shown[1].failed # {}
  /\ rig.shown[2].present = "no" /\ profile.fault = "none" => "install 2" \in rig.shown[2].failed
  /\ rig.shown[2].present = "yes" /\ profile.fault = "queue" => "stage" \in rig.shown[2].failed
  /\ \A a \in {1, 2} : rig.shown[a].present \in {"yes", "no", "unread"}
ArmInv == RigShape /\ HostHolds /\ Witnessed /\ BlamesTheFault /\ (rig.verdict # "none" => rig.pc = "done")

LEMMA ArmStarts == ArmInit => ArmInv
<1> SUFFICES ASSUME ArmInit PROVE ArmInv
  OBVIOUS
<1>1. PICK fault \in HostFaults :
        profile = [fault |-> fault, addon |-> FALSE, queued |-> FALSE, replaced |-> FALSE]
  BY DEF ArmInit, HostFaults
<1>2. rig = [pc |-> "seed", arm |-> 1, looks |-> 0, shown |-> [a \in {1, 2} |-> NoArm], verdict |-> "none"]
  <2>1. 1..2 = {1, 2}
    OBVIOUS
  <2> QED BY <2>1, Zenon DEF ArmInit
<1>3. \A a \in {1, 2} : rig.shown[a] = NoArm
  BY <1>2
<1>4. RigShape
  BY <1>1, <1>2, <1>3 DEF RigShape, NoArm
<1>5. HostHolds /\ BlamesTheFault /\ (rig.verdict # "none" => rig.pc = "done")
  BY <1>2 DEF HostHolds, BlamesTheFault
<1>6. Witnessed
  <2>1. \A a \in {1, 2} : rig.shown[a].present = "unread"
    BY <1>3 DEF NoArm
  <2>2. rig.shown[1].present = "unread" /\ rig.shown[2].present = "unread"
    BY <2>1
  <2> QED BY <2>1, <2>2 DEF Witnessed
<1> QED BY <1>4, <1>5, <1>6 DEF ArmInv

(* The two arms of the host's steps and of the rig's, by what of the two   *)
(* records they change.                                                    *)
LEMMA MutationsKeep ==
  ASSUME ArmInv, Seed \/ Erases \/ Restart
  PROVE  ArmInv'
<1> USE DEF ArmInv, RigShape, HostHolds, Witnessed, BlamesTheFault, HostFaults, Fresh, Took
<1>1. CASE Seed
  BY <1>1 DEF Seed, To
<1>2. CASE Erases
  BY <1>2 DEF Erases
<1>3. CASE Restart
  BY <1>3 DEF Restart, To
<1> QED BY <1>1, <1>2, <1>3

LEMMA LabelIsArm == ASSUME RigShape PROVE (rig.arm = 1 => Label # "arm") /\ (rig.arm = 2 => Label = "arm")
<1>1. Labels[1] = "control" /\ Labels[2] = "arm"
  BY DEF Labels
<1> QED BY <1>1 DEF Label, RigShape

LEMMA FailureAdds ==
  ASSUME NEW look, NEW step, look = [present |-> look.present, failed |-> look.failed]
  PROVE  [look EXCEPT !.failed = @ \cup {step}] = [present |-> look.present, failed |-> look.failed \cup {step}]
<1>1. \A p, f : [[present |-> p, failed |-> f] EXCEPT !.failed = @ \cup {step}] = [present |-> p, failed |-> f \cup {step}]
  OBVIOUS
<1> QED BY <1>1, Zenon

LEMMA LookAdds ==
  ASSUME NEW look, NEW seen, look = [present |-> look.present, failed |-> look.failed]
  PROVE  [look EXCEPT !.present = seen] = [present |-> seen, failed |-> look.failed]
<1>1. \A p, f : [[present |-> p, failed |-> f] EXCEPT !.present = seen] = [present |-> seen, failed |-> f]
  OBVIOUS
<1> QED BY <1>1, Zenon

LEMMA LookSeen ==
  ASSUME ArmInv, NEW seen
  PROVE  [rig.shown[rig.arm] EXCEPT !.present = seen] = [present |-> seen, failed |-> rig.shown[rig.arm].failed]
<1>1. rig.shown[rig.arm] = [present |-> rig.shown[rig.arm].present, failed |-> rig.shown[rig.arm].failed]
  BY DEF ArmInv, RigShape
<1> QED BY <1>1, LookAdds

(* A step that fails says so, and leaves the host as it was.               *)
FailsTo(step, next) ==
  \/ step = "install 1" /\ rig.arm = 1 /\ next = "install 2"
  \/ step = "install 1" /\ rig.arm = 2 /\ next = "stage"
  \/ step = "stage" /\ next = "install 2"
  \/ step = "install 2" /\ next = "dwell"
LEMMA FailureKeeps ==
  ASSUME ArmInv, NEW step, NEW next, step = rig.pc, FailsTo(step, next), GoesOn(step, next), UNCHANGED profile
  PROVE  ArmInv'
<1> DEFINE a == rig.arm
           was == rig.shown[a]
           now == [present |-> was.present, failed |-> was.failed \cup {step}]
<1>1. a \in {1, 2} /\ was = [present |-> was.present, failed |-> was.failed] /\ rig.verdict = "none"
  BY DEF ArmInv, RigShape, FailsTo
<1>2. rig' = [pc |-> next, arm |-> rig.arm, looks |-> rig.looks, shown |-> [rig.shown EXCEPT ![a] = now],
              verdict |-> rig.verdict]
  <2>1. [was EXCEPT !.failed = @ \cup {step}] = now
    BY <1>1, FailureAdds
  <2>2. rig' = [rig EXCEPT !.pc = next, !.shown = [@ EXCEPT ![a] = [was EXCEPT !.failed = @ \cup {step}]]]
    BY DEF GoesOn
  <2> QED BY <2>1, <2>2 DEF ArmInv, RigShape
<1>3. rig'.shown = [rig.shown EXCEPT ![a] = now] /\ rig'.verdict = "none" /\ rig'.arm = a /\ rig'.pc = next
  BY <1>1, <1>2
<1>4. rig'.shown = [b \in {1, 2} |-> IF b = a THEN now ELSE rig.shown[b]]
  BY <1>1, <1>3 DEF ArmInv, RigShape
<1>5. rig'.shown[a] = now /\ now.failed # {} /\ now.present = was.present
  BY <1>1, <1>4
<1>6. \A b \in {1, 2} : b # a => rig'.shown[b] = rig.shown[b]
  BY <1>4
<1> HIDE DEF now, was
<1>7. \A b \in {1, 2} : /\ rig'.shown[b].failed = {} => rig'.shown[b] = rig.shown[b]
                        /\ rig'.shown[b].present = rig.shown[b].present
                        /\ rig'.shown[b] = [present |-> rig'.shown[b].present, failed |-> rig'.shown[b].failed]
  BY <1>5, <1>6 DEF now, was, ArmInv, RigShape
<1>8. RigShape'
  BY <1>1, <1>2, <1>3, <1>4, <1>7 DEF ArmInv, RigShape
<1>9. \A b \in {1, 2} : rig.shown[b].failed \subseteq rig'.shown[b].failed
  BY <1>5, <1>6 DEF now, was
<1>10. rig'.shown[a].failed = rig.shown[a].failed \cup {step}
  BY <1>5 DEF now, was
<1>11. HostHolds'
  <2>1. rig'.shown[rig'.arm].failed # {} /\ step \in rig'.shown[rig'.arm].failed
    BY <1>3, <1>5, <1>10
  <2>2. Took("stage")' => Took("stage")
    BY <1>3, <1>10 DEF Took
  <2>3. next \in {"stage", "install 2", "dwell"} /\ (next = "stage" => a = 2)
        /\ (next = "install 2" /\ a = 2 => step = "stage") /\ (next = "dwell" => step = "install 2")
    <3>1. step = "stage" => rig.arm = 2
      BY DEF ArmInv, HostHolds
    <3>2. \/ step = "install 1" /\ a = 1 /\ next = "install 2"
          \/ step = "install 1" /\ a = 2 /\ next = "stage"
          \/ step = "stage" /\ a = 2 /\ next = "install 2"
          \/ step = "install 2" /\ next = "dwell"
      BY <3>1 DEF FailsTo
    <3>3. 1 # 2
      OBVIOUS
    <3> HIDE DEF a
    <3> QED BY <3>2, <3>3, Zenon
  <2>4. profile' = profile
    OBVIOUS
  <2>5. next = "dwell" /\ a = 2 /\ Took("stage") => profile.queued
    BY <2>3 DEF ArmInv, HostHolds
  <2> QED BY <1>3, <2>1, <2>2, <2>3, <2>4, <2>5 DEF HostHolds, Took
<1>12. Witnessed'
  BY <1>3, <1>5, <1>7, <1>9 DEF ArmInv, Witnessed
<1>13. BlamesTheFault' /\ (rig'.verdict # "none" => rig'.pc = "done")
  BY <1>3 DEF BlamesTheFault
<1> QED BY <1>8, <1>11, <1>12, <1>13 DEF ArmInv

LEMMA InstallKeeps ==
  ASSUME ArmInv, InstallOrReplace \/ StageUninstall
  PROVE  ArmInv'
<1>1. CASE /\ InstallOrReplace /\ To(AfterInstall)
           /\ profile' = [profile EXCEPT !.addon = TRUE, !.replaced = profile.addon,
                                         !.queued = @ /\ profile.fault = "queue"]
  <2>1. /\ profile' = [fault |-> profile.fault, addon |-> TRUE, replaced |-> profile.addon,
                       queued |-> profile.queued /\ profile.fault = "queue"]
        /\ rig.pc \in {"install 1", "install 2"}
        /\ rig' = [rig EXCEPT !.pc = AfterInstall]
    BY <1>1 DEF InstallOrReplace, To, ArmInv, RigShape
  <2> USE DEF ArmInv, RigShape
  <2>2. /\ rig'.shown = rig.shown /\ rig'.arm = rig.arm /\ rig'.verdict = "none" /\ rig'.pc = AfterInstall
        /\ RigShape'
    BY <2>1
  <2>3. /\ rig.pc = "install 2" => AfterInstall = "dwell"
        /\ rig.pc = "install 1" /\ rig.arm = 2 => AfterInstall = "stage"
        /\ rig.pc = "install 1" /\ rig.arm = 1 => AfterInstall = "install 2"
    BY LabelIsArm DEF AfterInstall
  <2>4. HostHolds'
    BY <2>1, <2>2, <2>3 DEF HostHolds, Fresh, Took
  <2>5. Witnessed' /\ BlamesTheFault'
    BY <2>1, <2>2 DEF Witnessed, BlamesTheFault
  <2> QED BY <2>2, <2>4, <2>5
<1>2. CASE StageUninstall /\ profile.addon /\ profile' = [profile EXCEPT !.queued = TRUE] /\ To("install 2")
  <2>1. /\ profile' = [fault |-> profile.fault, addon |-> profile.addon, replaced |-> profile.replaced, queued |-> TRUE]
        /\ rig.pc = "stage" /\ rig' = [rig EXCEPT !.pc = "install 2"]
    BY <1>2 DEF StageUninstall, To, ArmInv, RigShape
  <2> USE DEF ArmInv, RigShape
  <2>2. /\ rig'.shown = rig.shown /\ rig'.arm = rig.arm /\ rig'.verdict = "none" /\ rig'.pc = "install 2"
        /\ RigShape'
    BY <2>1
  <2>3. /\ profile'.addon <=> profile.addon
        /\ profile'.replaced <=> profile.replaced
        /\ profile'.queued
        /\ rig.pc = "stage"
    BY <2>1
  <2> HIDE DEF RigShape
  <2>4. HostHolds'
    <3>1. rig.arm = 2
      BY <2>3 DEF HostHolds
    <3>2. rig'.arm # 1 /\ rig'.pc = "install 2"
      <4>1. 2 # 1
        OBVIOUS
      <4>2. rig'.arm = 2 /\ rig'.pc = "install 2"
        BY <2>2, <3>1, Zenon
      <4> QED BY <4>1, <4>2, Zenon
    <3> QED BY <2>3, <3>2 DEF HostHolds
  <2>5. Witnessed' /\ BlamesTheFault'
    BY <2>1, <2>2 DEF Witnessed, BlamesTheFault
  <2> QED BY <2>2, <2>4, <2>5
<1>3. ASSUME rig.pc \in {"install 1", "install 2"} PROVE FailsTo(rig.pc, AfterInstall)
  <2>1. rig.arm \in {1, 2}
    BY DEF ArmInv, RigShape
  <2> QED BY <1>3, <2>1, LabelIsArm DEF AfterInstall, FailsTo, ArmInv
<1>4. FailsTo("stage", "install 2")
  BY DEF FailsTo
<1> QED BY <1>1, <1>2, <1>3, <1>4, FailureKeeps DEF InstallOrReplace, StageUninstall

LEMMA LooksKeep ==
  ASSUME ArmInv, LookDwelling \/ LookAfter \/ ArmRaises
  PROVE  ArmInv'
<1> USE DEF ArmInv, RigShape, HostHolds, Witnessed, BlamesTheFault, HostFaults, Fresh, Took
<1>1. CASE LookDwelling
  BY <1>1, ZenonT(60) DEF LookDwelling
<1>2. CASE LookAfter
  <2>1. PICK seen \in {Seen, "unread"} :
          rig' = [rig EXCEPT !.shown[rig.arm].present = seen, !.looks = 0, !.arm = IF @ = 1 THEN 2 ELSE @,
                             !.pc = IF rig.arm = 1 THEN "seed" ELSE "verdict"]
    BY <1>2 DEF LookAfter
  <2> DEFINE a == rig.arm
             now == [present |-> seen, failed |-> rig.shown[a].failed]
  <2>2. /\ rig.pc = "after" /\ profile' = profile /\ rig.verdict = "none" /\ a \in {1, 2}
        /\ profile.addon => seen \in {"yes", "unread"}
        /\ ~profile.addon => seen \in {"no", "unread"}
    BY <1>2, <2>1 DEF LookAfter, Seen
  <2>3. rig' = [pc |-> IF a = 1 THEN "seed" ELSE "verdict", arm |-> 2, looks |-> 0,
                shown |-> [rig.shown EXCEPT ![a] = now], verdict |-> "none"]
    <3>1. [rig.shown[a] EXCEPT !.present = seen] = now
      BY LookSeen, Zenon
    <3>2. rig' = [rig EXCEPT !.shown = [@ EXCEPT ![a] = [rig.shown[a] EXCEPT !.present = seen]], !.looks = 0,
                             !.arm = IF a = 1 THEN 2 ELSE a, !.pc = IF a = 1 THEN "seed" ELSE "verdict"]
      BY <2>1
    <3> QED BY <2>2, <3>1, <3>2
  <2>4. /\ rig'.shown = [b \in {1, 2} |-> IF b = a THEN now ELSE rig.shown[b]]
        /\ rig'.pc \in {"seed", "verdict"} /\ rig'.arm = 2 /\ rig'.verdict = "none"
    BY <2>2, <2>3
  <2>5. /\ rig'.shown[a] = now /\ now.present = seen /\ now.failed = rig.shown[a].failed
        /\ \A b \in {1, 2} : b # a => rig'.shown[b] = rig.shown[b]
    BY <2>2, <2>4
  <2> HIDE DEF now
  <2>6. RigShape'
    BY <2>2, <2>3, <2>4, <2>5 DEF now
  <2>7. HostHolds' /\ BlamesTheFault'
    BY <2>4
  <2>8. seen \in {"yes", "no", "unread"}
    BY <2>2
  <2>9. Witnessed'
    <3>1. CASE a = 1
      BY <2>2, <2>5, <2>8, <3>1
    <3>2. CASE a = 2
      BY <2>2, <2>5, <2>8, <3>2
    <3> QED BY <2>2, <3>1, <3>2
  <2> QED BY <2>4, <2>6, <2>7, <2>9
<1>3. CASE ArmRaises
  BY <1>3 DEF ArmRaises, To
<1> QED BY <1>1, <1>2, <1>3

LEMMA ConcludeKeeps ==
  ASSUME ArmInv, Conclude
  PROVE  ArmInv'
<1>1. /\ profile' = profile /\ rig.pc = "verdict"
      /\ rig' = [rig EXCEPT !.pc = "done", !.verdict = Reproduced]
  BY DEF Conclude
<1>2. /\ rig'.shown = rig.shown /\ rig'.arm = rig.arm /\ rig'.verdict = Reproduced /\ rig'.pc = "done"
      /\ RigShape' /\ Witnessed'
  BY <1>1 DEF ArmInv, RigShape, Witnessed
<1>3. HostHolds'
  BY <1>2 DEF HostHolds
<1>4. /\ Reproduced = "REPRODUCED" => rig.shown[1].present = "yes" /\ rig.shown[2].present = "no"
      /\ Reproduced = "NOT REPRODUCED" => rig.shown[2].present \in {"yes", "unread"}
  BY DEF Reproduced, ArmInv, Witnessed
<1>5. BlamesTheFault'
  BY <1>1, <1>2, <1>4 DEF BlamesTheFault, ArmInv, RigShape, Witnessed, HostFaults
<1> QED BY <1>2, <1>3, <1>5 DEF ArmInv

(* Whatever Zotero does beside the recipe and at whichever step it is      *)
(* killed, a recorded copy is whole or Zotero came and went between the    *)
(* two looks; and the verdict of the rig is the host's, except after the   *)
(* steps BlamesTheFault names, whose failure it does not look at           *)
(* (sitter_clone_data.py, clone_data; sitter_pending_uninstall_arm.py,     *)
(* main).                                                                  *)
THEOREM ExperimentsAreRight == InstallSpec => []ShowsWhatItSays
<1>1. InstallInit => CloneInv /\ ArmInv
  BY CloneStarts, ArmStarts DEF InstallInit
<1>2. CloneInv /\ ArmInv /\ [InstallNext]_<<cloneVars, armVars>> => CloneInv' /\ ArmInv'
  <2> SUFFICES ASSUME CloneInv, ArmInv, [InstallNext]_<<cloneVars, armVars>> PROVE CloneInv' /\ ArmInv'
    OBVIOUS
  <2>1. ASSUME UNCHANGED cloneVars PROVE CloneInv'
    BY <2>1 DEF cloneVars, CloneInv, ZoteroShape, CopyShape, CopyTracksSource, KeptCopyIsWhole
  <2>2. ASSUME UNCHANGED armVars PROVE ArmInv'
    BY <2>2, ZenonT(60) DEF armVars, ArmInv, RigShape, HostHolds, Witnessed, BlamesTheFault, Fresh, Took
  <2>3. CloneNext => CloneInv'
    BY ZoteroKeeps, RecipeKeeps DEF CloneNext
  <2>4. ArmNext => ArmInv'
    BY MutationsKeep, InstallKeeps, LooksKeep, ConcludeKeeps DEF ArmNext
  <2> QED BY <2>1, <2>2, <2>3, <2>4 DEF InstallNext
<1>3. CloneInv /\ ArmInv => ShowsWhatItSays
  BY DEF CloneInv, ArmInv, ShowsWhatItSays
<1> QED BY <1>1, <1>2, <1>3, PTL DEF InstallSpec

-----------------------------------------------------------------------------
(* StallProbe: for any number of threads, any loads, and a journal and a    *)
(* window of any length.                                                   *)

(* Numbers have a least one, which is what stands for induction here.      *)
LEMMA LeastNumber ==
  ASSUME NEW T \in SUBSET Nat, T # {}
  PROVE  \E n \in T : \A m \in T : n <= m
<1> DEFINE Less == {ss \in Nat \X Nat : ss[1] < ss[2]}
<1>1. IsWellFoundedOn(Less, Nat)
  BY NatLessThanWellFounded DEF OpToRel
<1>2. \A x, y \in Nat : y < x => <<y, x>> \in Less
  OBVIOUS
<1> HIDE DEF Less
<1>3. PICK x \in T : \A y \in T : ~(<<y, x>> \in Less)
  BY <1>1, WFMin
<1>4. x \in Nat
  OBVIOUS
<1>5. \A y \in T : y \in Nat /\ ~(y < x)
  BY <1>2, <1>3, <1>4
<1> QED BY <1>4, <1>5

(* A set that holds 0 and what follows each of its numbers holds them all. *)
LEMMA Reached ==
  ASSUME NEW T \in SUBSET Nat, 0 \in T, \A n \in T : n + 1 \in T
  PROVE  T = Nat
<1> DEFINE R == Nat \ T
<1>1. SUFFICES ASSUME R # {} PROVE FALSE
  OBVIOUS
<1>2. PICK n \in R : \A m \in R : n <= m
  BY <1>1, LeastNumber
<1>3. n \in Nat /\ n # 0 /\ n - 1 \in Nat
  BY <1>2
<1>4. n - 1 \in T
  BY <1>2, <1>3
<1> QED BY <1>2, <1>3, <1>4

(* Numbers below a bound have a greatest.                                  *)
LEMMA GreatestIsMax ==
  ASSUME NEW T \in SUBSET Int, T # {}, NEW bound \in Int, \A x \in T : x <= bound
  PROVE  Max(T) \in T /\ \A x \in T : x <= Max(T)
<1> DEFINE R == {bound - x : x \in T}
<1>1. R \in SUBSET Nat /\ R # {}
  <2>1. \A x \in T : x \in Int /\ x <= bound
    OBVIOUS
  <2>2. \A x \in T : bound - x \in Nat
    BY <2>1
  <2>3. PICK x \in T : TRUE
    OBVIOUS
  <2> QED BY <2>2, <2>3
<1>2. PICK n \in R : \A m \in R : n <= m
  BY <1>1, LeastNumber
<1>3. PICK x \in T : n = bound - x
  BY <1>2
<1>4. \A y \in T : x >= y
  <2> TAKE y \in T
  <2>1. n <= bound - y
    BY <1>2
  <2> QED BY <1>3, <2>1
<1>5. Max(T) \in T /\ \A y \in T : Max(T) >= y
  BY <1>4 DEF Max
<1> QED BY <1>5

(* A sum over a finite set is what is added one by one, whatever is taken  *)
(* first.                                                                  *)
One(s) == CHOOSE x \in s : TRUE
AddsUp(f, S, total) == total = [s \in SUBSET S |-> IF s = {} THEN 0 ELSE f[One(s)] + total[s \ {One(s)}]]

LEMMA SumsExist ==
  ASSUME NEW S, IsFiniteSet(S), NEW f \in [S -> Int]
  PROVE  \E total : AddsUp(f, S, total)
<1> DEFINE Upto(n) == {s \in SUBSET S : Cardinality(s) <= n}
           Total(n, g) == \A s \in Upto(n) : g[s] = IF s = {} THEN 0 ELSE f[One(s)] + g[s \ {One(s)}]
           N == {n \in Nat : \E g : Total(n, g)}
<1>1. ASSUME NEW s \in SUBSET S
      PROVE  IsFiniteSet(s) /\ Cardinality(s) \in Nat /\ (Cardinality(s) = 0 <=> s = {})
  BY FS_Subset, FS_CardinalityType, FS_EmptySet
<1>2. ASSUME NEW s \in SUBSET S, s # {}
      PROVE  One(s) \in s /\ s \ {One(s)} \in SUBSET S /\ Cardinality(s \ {One(s)}) = Cardinality(s) - 1
  <2>1. One(s) \in s
    BY <1>2 DEF One
  <2> QED BY <1>1, <2>1, FS_RemoveElement
<1>3. 0 \in N
  <2> DEFINE g == [s \in SUBSET S |-> 0]
  <2>1. \A s \in Upto(0) : s = {}
    BY <1>1
  <2>2. {} \in SUBSET S /\ g[{}] = 0
    OBVIOUS
  <2> HIDE DEF g
  <2>3. Total(0, g)
    BY <2>1, <2>2
  <2> QED BY <2>3
<1>4. ASSUME NEW n \in N PROVE n + 1 \in N
  <2>1. n \in Nat /\ n + 1 \in Nat
    OBVIOUS
  <2>2. PICK g : Total(n, g)
    BY <1>4
  <2> DEFINE h == [s \in SUBSET S |-> IF s = {} THEN 0 ELSE f[One(s)] + g[s \ {One(s)}]]
  <2>3. ASSUME NEW s \in Upto(n) PROVE h[s] = g[s]
    BY <2>2, <2>3
  <2>4. ASSUME NEW s \in Upto(n + 1), s # {} PROVE s \ {One(s)} \in Upto(n)
    BY <1>1, <1>2, <2>1, <2>4
  <2>5. \A s \in SUBSET S : h[s] = IF s = {} THEN 0 ELSE f[One(s)] + g[s \ {One(s)}]
    OBVIOUS
  <2> HIDE DEF h, Upto
  <2>6. Upto(n + 1) \in SUBSET (SUBSET S)
    BY DEF Upto
  <2>7. \A s \in Upto(n + 1) : h[s] = IF s = {} THEN 0 ELSE f[One(s)] + h[s \ {One(s)}]
    BY <2>3, <2>4, <2>5, <2>6
  <2>8. Total(n + 1, h)
    BY <2>7
  <2> QED BY <2>1, <2>8
<1>5. N = Nat
  <2> HIDE DEF N
  <2>1. N \in SUBSET Nat
    BY DEF N
  <2> QED BY <1>3, <1>4, <2>1, Reached
<1>6. Cardinality(S) \in Nat /\ Upto(Cardinality(S)) = SUBSET S
  <2>1. Cardinality(S) \in Nat
    BY FS_CardinalityType
  <2>2. \A s \in SUBSET S : Cardinality(s) <= Cardinality(S)
    BY FS_Subset
  <2> QED BY <2>1, <2>2
<1>7. PICK g : Total(Cardinality(S), g)
  BY <1>5, <1>6
<1>8. \A s \in SUBSET S : g[s] = IF s = {} THEN 0 ELSE f[One(s)] + g[s \ {One(s)}]
  <2> HIDE DEF Upto
  <2> QED BY <1>6, <1>7
<1> DEFINE total == [s \in SUBSET S |-> g[s]]
<1>9. \A s \in SUBSET S : total[s] = IF s = {} THEN 0 ELSE f[One(s)] + total[s \ {One(s)}]
  BY <1>8
<1>10. total = [s \in SUBSET S |-> total[s]]
  OBVIOUS
<1> HIDE DEF total
<1>11. AddsUp(f, S, total)
  BY <1>9, <1>10 DEF AddsUp
<1> QED BY <1>11

LEMMA SumAddsUp ==
  ASSUME NEW S, IsFiniteSet(S), NEW f \in [S -> Int]
  PROVE  \E total : AddsUp(f, S, total) /\ SumOver(f) = total[S]
<1> DEFINE total == CHOOSE g : AddsUp(f, S, g)
<1>1. AddsUp(f, S, total)
  BY SumsExist
<1>2. SumOver(f) = total[S]
  BY DEF SumOver, FoldFunction, FoldFunctionOnSet, MapThenFoldSet, AddsUp, One
<1> QED BY <1>1, <1>2

(* What all have used since has grown by what any one of them has.         *)
LEMMA SumGrows ==
  ASSUME NEW S, IsFiniteSet(S), NEW f \in [S -> Nat], NEW g \in [S -> Nat], \A t \in S : f[t] <= g[t]
  PROVE  /\ SumOver(f) \in Int /\ SumOver(g) \in Int
         /\ \A t \in S : g[t] - f[t] <= SumOver(g) - SumOver(f)
<1>1. f \in [S -> Int] /\ g \in [S -> Int]
  OBVIOUS
<1>2. PICK F : AddsUp(f, S, F) /\ SumOver(f) = F[S]
  BY <1>1, SumAddsUp
<1>3. PICK G : AddsUp(g, S, G) /\ SumOver(g) = G[S]
  BY <1>1, SumAddsUp
<1> DEFINE Grows(s) == /\ F[s] \in Int /\ G[s] \in Int /\ F[s] <= G[s]
                       /\ \A t \in s : g[t] - f[t] <= G[s] - F[s]
           N == {n \in Nat : \A s \in SUBSET S : Cardinality(s) = n => Grows(s)}
<1>4. ASSUME NEW s \in SUBSET S, s # {}
      PROVE  /\ One(s) \in s /\ s \ {One(s)} \in SUBSET S /\ Cardinality(s \ {One(s)}) = Cardinality(s) - 1
             /\ F[s] = f[One(s)] + F[s \ {One(s)}] /\ G[s] = g[One(s)] + G[s \ {One(s)}]
  <2>1. One(s) \in s /\ IsFiniteSet(s)
    BY <1>4, FS_Subset DEF One
  <2>2. F[s] = f[One(s)] + F[s \ {One(s)}] /\ G[s] = g[One(s)] + G[s \ {One(s)}]
    BY <1>2, <1>3, <1>4 DEF AddsUp
  <2> QED BY <2>1, <2>2, FS_RemoveElement
<1>5. 0 \in N
  <2>1. ASSUME NEW s \in SUBSET S, Cardinality(s) = 0 PROVE Grows(s)
    <3>1. s = {}
      BY <2>1, FS_Subset, FS_EmptySet
    <3>2. F[{}] = 0 /\ G[{}] = 0
      BY <1>2, <1>3 DEF AddsUp
    <3> QED BY <3>1, <3>2
  <2> QED BY <2>1
<1>6. ASSUME NEW n \in N PROVE n + 1 \in N
  <2>1. ASSUME NEW s \in SUBSET S, Cardinality(s) = n + 1 PROVE Grows(s)
    <3> DEFINE x == One(s)
               rest == s \ {x}
    <3>0. n \in Nat
      OBVIOUS
    <3>1. s # {}
      <4> HIDE DEF N, Grows
      <4>1. Cardinality({}) = 0 /\ Cardinality(s) = n + 1 /\ n + 1 # 0
        BY <2>1, <3>0, FS_EmptySet
      <4> QED BY <4>1
    <3>2. /\ x \in s /\ rest \in SUBSET S /\ Cardinality(rest) = n
          /\ F[s] = f[x] + F[rest] /\ G[s] = g[x] + G[rest]
      <4> HIDE DEF N, Grows
      <4>1. /\ x \in s /\ rest \in SUBSET S /\ Cardinality(rest) = Cardinality(s) - 1
            /\ F[s] = f[x] + F[rest] /\ G[s] = g[x] + G[rest]
        BY <1>4, <3>1
      <4>2. Cardinality(s) = n + 1
        BY <2>1
      <4> QED BY <3>0, <4>1, <4>2
    <3>3. Grows(rest)
      BY <1>6, <3>2
    <3>4. f[x] \in Nat /\ g[x] \in Nat /\ f[x] <= g[x] /\ \A t \in s : t = x \/ t \in rest
      BY <3>2
    <3>5. \A t \in s : f[t] \in Nat /\ g[t] \in Nat
      OBVIOUS
    <3> HIDE DEF x, rest
    <3> QED BY <3>2, <3>3, <3>4, <3>5
  <2>2. n + 1 \in Nat
    OBVIOUS
  <2> HIDE DEF Grows
  <2> QED BY <2>1, <2>2
<1>7. N = Nat
  <2>1. N \in SUBSET Nat
    OBVIOUS
  <2> HIDE DEF N
  <2> QED BY <1>5, <1>6, <2>1, Reached
<1>8. Grows(S)
  BY <1>7, FS_CardinalityType
<1> QED BY <1>2, <1>3, <1>8

-----------------------------------------------------------------------------
Points == {"waiting", "read", "sampling", "sleeping", "summing", "judging", "done", "failed"}
Readings == {"none", "unknown", "plateau", "advancing"}
Verdicts == {"none", "undetermined", "advancing", "slow-tail", "wedged"}
Shown == UNION {[alive -> Nat] : alive \in SUBSET Threads}
Snapshot == [at : Nat, whole : Int, threads : Shown, block : Nat, chars : Nat, truly : [Threads -> Nat]]
Beat == [at : Int, since : Int]
StallTypeOK ==
  /\ clock \in [time : Nat, wall : Int, tick : Int, set : Int]
  /\ journal \in Seq(Beat)
  /\ process \in [alive : SUBSET Threads, born : SUBSET Threads, used : [Threads -> Nat],
                  block : Nat, chars : Nat, readable : SUBSET {"io", "task"}]
  /\ probe \in [pc : Points, reading : Readings, corroborated : BOOLEAN, miscounted : Nat, quietTruly : Nat,
                setBack : BOOLEAN, steps : Nat, series : Seq(Snapshot), verdict : Verdicts]

(* The age of a tick is a number, if there was a tick.  Between two beats  *)
(* goes by a heartbeat, or that and what the clock was set by.             *)
BeatsApart ==
  /\ clock.tick = Unset \/ clock.tick \in 0..clock.time
  /\ \A k \in 1..Len(journal) : journal[k].since >= Unset
  /\ Len(journal) = clock.time \div HEARTBEAT
  /\ \A k \in Intervals : Wall(k) \in {HEARTBEAT, HEARTBEAT + clock.set}
  /\ journal # <<>> =>
       IF clock.time % HEARTBEAT = 0 THEN clock.wall = Last(journal).at
       ELSE clock.wall - Last(journal).at \in {1, 1 + clock.set}

(* The clock is set in one interval at most, the one begun included.       *)
AsMeasured(k) == Wall(k) = HEARTBEAT
SetOnce ==
  /\ \A j, k \in Intervals : AsMeasured(j) \/ AsMeasured(k) \/ j = k
  /\ journal # <<>> =>
       \/ \A k \in Intervals : AsMeasured(k)
       \/ clock.wall - Last(journal).at = clock.time % HEARTBEAT

(* The last beat's tick is the clock's, or came before it; an age grows by *)
(* no more than a heartbeat.                                               *)
AgesGrow ==
  /\ \A k \in Intervals : journal[k + 1].since <= journal[k].since + HEARTBEAT
  /\ journal # <<>> => Age(clock.time, clock.tick) <= Last(journal).since + (clock.time % HEARTBEAT)

(* A thread that is not born has used nothing; a snapshot tells what each  *)
(* thread it lists, and all of them, have used.                            *)
BornFromZero == process.alive \subseteq process.born /\ \A t \in Threads \ process.born : process.used[t] = 0
SnapshotOf(s) == /\ s.whole = SumOver(s.truly)
                 /\ \A t \in DOMAIN s.threads : s.threads[t] = s.truly[t]
(* The first snapshot is no later than the last one, that than now, and a  *)
(* thread the first does not list had used nothing then.                   *)
SeriesInOrder ==
  /\ probe.pc \in {"waiting", "read"} => probe.series = <<>>
  /\ \A i \in 1..Len(probe.series) : SnapshotOf(probe.series[i])
  /\ probe.series # <<>> =>
       /\ \A t \in Threads : First.truly[t] <= Final.truly[t] /\ Final.truly[t] <= process.used[t]
       /\ \A t \in DOMAIN Final.threads \ DOMAIN First.threads : First.truly[t] = 0
       /\ "task" \in process.readable => \A t \in process.alive \ DOMAIN First.threads : First.truly[t] = 0

JudgedLast == probe.verdict # "none" => probe.pc = "done"

ProbeInv == StallTypeOK /\ BeatsApart /\ SetOnce /\ AgesGrow /\ BornFromZero /\ SeriesInOrder /\ JudgedLast /\ ProbeIsRight

-----------------------------------------------------------------------------
LEMMA ProbeStarts == StallInit => ProbeInv
<1>. SUFFICES ASSUME StallInit PROVE ProbeInv
  OBVIOUS
<1>. USE DEF StallInit, ClockStart, Unset, HEARTBEAT
<1>1. clock.time = 0 /\ clock.tick = -1 /\ journal = <<>> /\ probe.series = <<>> /\ probe.pc = "waiting"
  OBVIOUS
<1>2. StallTypeOK
  <2>1. clock \in [time : Nat, wall : Int, tick : Int, set : Int] /\ journal \in Seq(Beat)
    OBVIOUS
  <2>2. process \in [alive : SUBSET Threads, born : SUBSET Threads, used : [Threads -> Nat],
                     block : Nat, chars : Nat, readable : SUBSET {"io", "task"}]
    OBVIOUS
  <2>3. <<>> \in Seq(Snapshot)
    OBVIOUS
  <2>4. probe \in [pc : Points, reading : Readings, corroborated : BOOLEAN, miscounted : Nat, quietTruly : Nat,
                   setBack : BOOLEAN, steps : Nat, series : Seq(Snapshot), verdict : Verdicts]
    <3>1. probe = [pc |-> "waiting", reading |-> "none", corroborated |-> FALSE, miscounted |-> 0,
                   quietTruly |-> 0, setBack |-> FALSE, steps |-> 0, series |-> <<>>, verdict |-> "none"]
      OBVIOUS
    <3>2. "waiting" \in Points /\ "none" \in Readings \cap Verdicts
      BY DEF Points, Readings, Verdicts
    <3> QED BY <2>3, <3>1, <3>2
  <2> QED BY <2>1, <2>2, <2>4 DEF StallTypeOK
<1>3. BeatsApart /\ SetOnce /\ AgesGrow
  BY DEF BeatsApart, SetOnce, AgesGrow, Intervals, Wall
<1>4. BornFromZero /\ SeriesInOrder /\ JudgedLast
  BY DEF BornFromZero, SeriesInOrder, JudgedLast
<1>5. ProbeIsRight
  BY DEF ProbeIsRight
<1> QED BY <1>2, <1>3, <1>4, <1>5 DEF ProbeInv

(* The probe has no beat nor thread of its own: what is said of the        *)
(* verdict stands while its samples and its reading do.                    *)
LEMMA RightKept ==
  ASSUME ProbeIsRight, probe' = probe, process' = process
  PROVE  ProbeIsRight'
BY DEF ProbeIsRight, Final, First, Holds, Elapsed, Last

LEMMA Halves ==
  ASSUME NEW n \in Nat
  PROVE  /\ (n + 1) % 2 = 0 => n % 2 # 0 /\ (n + 1) \div 2 = (n \div 2) + 1
         /\ (n + 1) % 2 # 0 => n % 2 = 0 /\ (n + 1) \div 2 = n \div 2
<1>1. PICK h \in Nat, r \in {0, 1} : n = 2 * h + r
  <2>1. n % 2 \in {0, 1}
    OBVIOUS
  <2>2. n \div 2 \in Nat
    OBVIOUS
  <2>3. n = 2 * (n \div 2) + (n % 2)
    OBVIOUS
  <2> QED BY <2>1, <2>2, <2>3
<1>2. CASE r = 0
  BY <1>1, <1>2
<1>3. CASE r = 1
  BY <1>1, <1>3
<1> QED BY <1>2, <1>3

(* What a half interval adds to the journal, if it is the second one.      *)
LEMMA BeatAdded ==
  ASSUME ProbeInv, NEW ticks \in BOOLEAN, NEW shift \in Shifts, HalfInterval(ticks, shift)
  PROVE  LET now  == clock.time + 1
             tick == IF ticks THEN now ELSE clock.tick
             wall == clock.wall + 1 + shift
         IN  /\ clock.time \in Nat /\ clock.wall \in Int /\ clock.tick \in Int /\ clock.set \in Int /\ shift \in Int
             /\ shift # 0 => clock.set = 0
             /\ clock'.time = now /\ clock'.wall = wall /\ clock'.tick = tick /\ clock'.set = clock.set + shift
             /\ Len(journal) \in Nat /\ \A k \in 1..Len(journal) : journal[k].at \in Int /\ journal[k].since \in Int
             /\ journal # <<>> => Len(journal) \in 1..Len(journal) /\ Last(journal) = journal[Len(journal)]
             /\ now % 2 # 0 => clock.time % 2 = 0 /\ now % 2 = 1 /\ journal' = journal
             /\ now % 2 = 0 =>
                  /\ clock.time % 2 = 1
                  /\ Len(journal') = Len(journal) + 1 /\ journal' # <<>>
                  /\ Last(journal') = [at |-> wall, since |-> Age(now, tick)]
                  /\ journal'[Len(journal) + 1] = [at |-> wall, since |-> Age(now, tick)]
                  /\ \A k \in 1..Len(journal) : journal'[k] = journal[k]
<1> DEFINE now == clock.time + 1
           tick == IF ticks THEN now ELSE clock.tick
           wall == clock.wall + 1 + shift
           beat == [at |-> wall, since |-> Age(now, tick)]
<1>1. /\ clock.time \in Nat /\ clock.wall \in Int /\ clock.tick \in Int /\ clock.set \in Int /\ shift \in Int
      /\ journal \in Seq(Beat) /\ now \in Nat /\ tick \in Int /\ wall \in Int
  BY LoadsAssumption DEF ProbeInv, StallTypeOK
<1>2. /\ shift # 0 => clock.set = 0
      /\ clock' = [time |-> now, wall |-> wall, tick |-> tick, set |-> clock.set + shift]
      /\ journal' = IF now % 2 = 0 THEN Append(journal, beat) ELSE journal
  BY DEF HalfInterval, HEARTBEAT
<1>3. beat \in Beat
  BY <1>1 DEF Beat, Age, Unset
<1>4. Len(journal) \in Nat /\ \A k \in 1..Len(journal) : journal[k].at \in Int /\ journal[k].since \in Int
  <2>1. \A k \in 1..Len(journal) : journal[k] \in Beat
    BY <1>1
  <2> QED BY <1>1, <2>1 DEF Beat
<1>5. journal # <<>> => Len(journal) \in 1..Len(journal) /\ Last(journal) = journal[Len(journal)]
  BY <1>1 DEF Last
<1>6. now % 2 # 0 => clock.time % 2 = 0 /\ now % 2 = 1 /\ journal' = journal
  <2>1. now % 2 \in {0, 1}
    BY <1>1
  <2>2. now % 2 # 0 => clock.time % 2 = 0
    BY <1>1, Halves
  <2> HIDE DEF now, beat
  <2> QED BY <1>2, <2>1, <2>2
<1>7. now % 2 = 0 => clock.time % 2 = 1
  BY <1>1, Halves
<1> HIDE DEF beat, now, tick, wall
<1>8. ASSUME now % 2 = 0
      PROVE  /\ Len(journal') = Len(journal) + 1 /\ journal' # <<>> /\ Last(journal') = beat
             /\ journal'[Len(journal) + 1] = beat /\ \A k \in 1..Len(journal) : journal'[k] = journal[k]
  BY <1>1, <1>2, <1>3, <1>8 DEF Last
<1>9. /\ clock'.time = now /\ clock'.wall = wall /\ clock'.tick = tick /\ clock'.set = clock.set + shift
  BY <1>2
<1> QED BY <1>1, <1>2, <1>4, <1>5, <1>6, <1>7, <1>8, <1>9 DEF beat, now, tick, wall

(* Setting the clock in an interval is setting it in the only one.         *)
LEMMA BeatMeasured ==
  ASSUME ProbeInv, NEW ticks \in BOOLEAN, NEW shift \in Shifts, HalfInterval(ticks, shift)
  PROVE  SetOnce'
<1> DEFINE now == clock.time + 1
           tick == IF ticks THEN now ELSE clock.tick
           wall == clock.wall + 1 + shift
           beat == [at |-> wall, since |-> Age(now, tick)]
           late == clock.wall - Last(journal).at
<1>0. PICK n : n = Len(journal)
  OBVIOUS
<1>1. /\ clock.time \in Nat /\ clock.wall \in Int /\ clock.set \in Int /\ shift \in Int
      /\ shift # 0 => clock.set = 0
      /\ clock'.time = now /\ clock'.wall = wall
      /\ n \in Nat /\ \A k \in 1..n : journal[k].at \in Int
      /\ journal # <<>> => n \in 1..n /\ Last(journal) = journal[n]
      /\ now % 2 # 0 => clock.time % 2 = 0 /\ now % 2 = 1 /\ journal' = journal
      /\ now % 2 = 0 => /\ clock.time % 2 = 1 /\ Len(journal') = n + 1 /\ journal' # <<>>
                        /\ Last(journal') = beat /\ journal'[n + 1] = beat
                        /\ \A k \in 1..n : journal'[k] = journal[k]
  BY <1>0, BeatAdded
<1>2. beat.at = wall
  OBVIOUS
<1>3. /\ \A j, k \in Intervals : AsMeasured(j) \/ AsMeasured(k) \/ j = k
      /\ journal # <<>> => (\A k \in Intervals : AsMeasured(k)) \/ late = clock.time % 2
      /\ \A k \in Intervals : Wall(k) \in {2, 2 + clock.set}
      /\ journal # <<>> => IF clock.time % 2 = 0 THEN late = 0 ELSE late \in {1, 1 + clock.set}
      /\ Intervals = 1..(n - 1)
  <2>1. journal # <<>> => Last(journal).at \in Int
    BY <1>1
  <2>2. journal # <<>> /\ clock.time % 2 = 0 => late = 0
    BY <1>1, <2>1 DEF ProbeInv, BeatsApart, HEARTBEAT
  <2> QED BY <1>0, <2>2 DEF ProbeInv, BeatsApart, SetOnce, HEARTBEAT, Intervals
(* Where the clock is set, it had not been.                                *)
<1>4. ASSUME shift # 0
      PROVE  (\A k \in Intervals : AsMeasured(k)) /\ (journal # <<>> => late = clock.time % 2)
  <2>1. clock.set = 0
    BY <1>1, <1>4
  <2>2. \A k \in Intervals : AsMeasured(k)
    BY <1>3, <2>1 DEF AsMeasured, HEARTBEAT
  <2>3. clock.time % 2 \in {0, 1}
    BY <1>1
  <2>4. ASSUME journal # <<>> PROVE late = clock.time % 2
    BY <1>3, <2>1, <2>3, <2>4
  <2> QED BY <2>2, <2>4
<1>5. ASSUME now % 2 # 0 PROVE SetOnce'
  <2>1. Intervals' = Intervals /\ \A k \in Intervals : AsMeasured(k)' <=> AsMeasured(k)
    BY <1>1, <1>5 DEF Intervals, AsMeasured, Wall
  <2>2. ASSUME journal # <<>> PROVE (\A k \in Intervals : AsMeasured(k)) \/ wall - Last(journal).at = 1
    <3>1. late = 0 /\ Last(journal).at \in Int
      BY <1>1, <1>3, <1>5, <2>2
    <3>2. CASE shift = 0
      BY <1>1, <3>1, <3>2
    <3>3. CASE shift # 0
      BY <1>4, <3>3
    <3> QED BY <3>2, <3>3
  <2>3. clock'.time % 2 = 1 /\ clock'.wall = wall /\ journal' = journal
    BY <1>1, <1>5
  <2> HIDE DEF now, wall, beat, late
  <2> QED BY <1>3, <2>1, <2>2, <2>3 DEF SetOnce, HEARTBEAT, Last
<1>6. ASSUME now % 2 = 0 PROVE SetOnce'
  <2>1. Intervals' = 1..n
    BY <1>1, <1>6 DEF Intervals
  <2>2. \A k \in Intervals : AsMeasured(k)' <=> AsMeasured(k)
    <3>1. \A k \in Intervals : k \in 1..n /\ k + 1 \in 1..n
      BY <1>1, <1>3
    <3> QED BY <1>1, <1>6, <3>1 DEF AsMeasured, Wall
  <2>3. ASSUME journal # <<>> PROVE (\A k \in Intervals : AsMeasured(k)) \/ AsMeasured(n)'
    <3>1. Wall(n)' = wall - journal[n].at /\ journal[n].at \in Int /\ Last(journal) = journal[n]
      <4>1. journal'[n + 1] = beat /\ journal'[n] = journal[n] /\ journal[n].at \in Int /\ Last(journal) = journal[n]
        BY <1>1, <1>6, <2>3
      <4>2. Wall(n)' = journal'[n + 1].at - journal'[n].at
        BY DEF Wall
      <4> HIDE DEF beat, wall
      <4> QED BY <1>2, <4>1, <4>2
    <3>2. CASE shift # 0
      BY <1>4, <3>2
    <3>3. CASE shift = 0 /\ late = 1
      <4>1. Wall(n)' = 2
        BY <1>1, <3>1, <3>3
      <4> QED BY <4>1 DEF AsMeasured, HEARTBEAT
    <3> QED BY <1>1, <1>3, <1>6, <2>3, <3>2, <3>3
  <2>4. \A k \in 1..n : k \in Intervals \/ (k = n /\ journal # <<>>)
    <3>1. \A k \in 1..n : k \in 1..(n - 1) \/ k = n
      BY <1>1
    <3>2. n # 0 => journal # <<>>
      BY <1>0, <1>1
    <3> QED BY <1>1, <1>3, <3>1, <3>2
  <2>5. ASSUME NEW j \in 1..n, NEW k \in 1..n PROVE AsMeasured(j)' \/ AsMeasured(k)' \/ j = k
    <3> HIDE DEF now, wall, beat, late
    <3>1. CASE j \in Intervals /\ k \in Intervals
      BY <1>3, <2>2, <3>1
    <3>2. CASE j \in Intervals /\ k = n /\ journal # <<>>
      BY <2>2, <2>3, <3>2
    <3>3. CASE k \in Intervals /\ j = n /\ journal # <<>>
      BY <2>2, <2>3, <3>3
    <3> QED BY <2>4, <3>1, <3>2, <3>3
  <2>6. clock'.wall - Last(journal)'.at = clock'.time % 2
    <3>1. Last(journal)' = beat
      BY <1>1, <1>6 DEF Last
    <3> QED BY <1>1, <1>2, <1>6, <3>1
  <2> QED BY <2>1, <2>5, <2>6 DEF SetOnce, HEARTBEAT
<1> QED BY <1>5, <1>6

(* The age of the last tick grows as time does.                            *)
LEMMA BeatAges ==
  ASSUME ProbeInv, NEW ticks \in BOOLEAN, NEW shift \in Shifts, HalfInterval(ticks, shift)
  PROVE  AgesGrow'
<1> DEFINE now == clock.time + 1
           tick == IF ticks THEN now ELSE clock.tick
           beat == [at |-> clock.wall + 1 + shift, since |-> Age(now, tick)]
<1>0. PICK n : n = Len(journal)
  OBVIOUS
<1>1. /\ clock.time \in Nat /\ clock.tick \in Int
      /\ clock'.time = now /\ clock'.tick = tick
      /\ n \in Nat /\ \A k \in 1..n : journal[k].since \in Int
      /\ journal # <<>> => n \in 1..n /\ Last(journal) = journal[n]
      /\ now % 2 # 0 => clock.time % 2 = 0 /\ now % 2 = 1 /\ journal' = journal
      /\ now % 2 = 0 => /\ clock.time % 2 = 1 /\ Len(journal') = n + 1 /\ journal' # <<>>
                        /\ Last(journal') = beat /\ journal'[n + 1] = beat
                        /\ \A k \in 1..n : journal'[k] = journal[k]
  BY <1>0, BeatAdded
<1>2. beat.since = Age(now, tick) /\ Age(now, tick) \in Int
  BY <1>1 DEF Age, Unset
<1>3. /\ \A k \in Intervals : journal[k + 1].since <= journal[k].since + 2
      /\ journal # <<>> => Age(clock.time, clock.tick) <= Last(journal).since + (clock.time % 2)
      /\ journal # <<>> => Last(journal).since >= -1
      /\ clock.tick = -1 \/ clock.tick \in 0..clock.time
      /\ Intervals = 1..(n - 1)
  BY <1>0, <1>1 DEF ProbeInv, BeatsApart, AgesGrow, HEARTBEAT, Intervals, Unset
<1>4. ASSUME journal # <<>> PROVE Age(now, tick) <= Last(journal).since + (clock.time % 2) + 1
  <2>1. Last(journal).since \in Int /\ clock.time % 2 \in {0, 1}
    BY <1>1, <1>4
  <2>2. CASE ticks
    <3>1. Age(now, tick) = 0
      BY <1>1, <2>2 DEF Age, Unset
    <3> QED BY <1>3, <1>4, <2>1, <3>1
  <2>3. CASE ~ticks /\ clock.tick = -1
    BY <1>3, <1>4, <2>1, <2>3 DEF Age, Unset
  <2>4. CASE ~ticks /\ clock.tick # -1
    <3>1. Age(now, tick) = Age(clock.time, clock.tick) + 1 /\ Age(clock.time, clock.tick) \in Int
      BY <1>1, <2>4 DEF Age, Unset
    <3> HIDE DEF now, tick
    <3> QED BY <1>3, <1>4, <2>1, <3>1
  <2> QED BY <2>2, <2>3, <2>4
<1>5. ASSUME now % 2 # 0 PROVE AgesGrow'
  <2>1. Intervals' = Intervals /\ journal' = journal /\ clock'.time % 2 = 1 /\ clock.time % 2 = 0
    BY <1>1, <1>5 DEF Intervals
  <2>2. journal # <<>> => Last(journal).since \in Int
    BY <1>1
  <2>3. Age(clock.time, clock.tick)' = Age(now, tick)
    BY <1>1 DEF Age
  <2> HIDE DEF now, tick, beat
  <2>4. journal # <<>> => Age(now, tick) <= Last(journal).since + 1
    BY <1>2, <1>4, <2>1, <2>2
  <2> QED BY <1>3, <2>1, <2>3, <2>4 DEF AgesGrow, HEARTBEAT, Last
<1>6. ASSUME now % 2 = 0 PROVE AgesGrow'
  <2>1. Intervals' = 1..n /\ clock.time % 2 = 1
    BY <1>1, <1>6 DEF Intervals
  <2>2. Age(clock.time, clock.tick)' = beat.since /\ Last(journal)' = beat /\ clock'.time % 2 = 0
    BY <1>1, <1>6 DEF Age, Last
  <2>3. ASSUME NEW k \in 1..n PROVE journal'[k + 1].since <= journal'[k].since + 2
    <3>1. CASE k = n
      <4>0. journal # <<>> /\ k \in 1..n
        BY <1>0, <3>1
      <4>1. journal # <<>> /\ journal'[k] = Last(journal) /\ Last(journal).since \in Int
        BY <1>1, <1>6, <3>1, <4>0
      <4>2. journal'[k + 1].since = Age(now, tick)
        BY <1>1, <1>2, <1>6, <3>1
      <4> HIDE DEF now, tick, beat
      <4> QED BY <1>2, <1>4, <2>1, <4>1, <4>2
    <3>2. CASE k # n
      <4>1. k \in Intervals /\ k + 1 \in 1..n
        BY <1>1, <1>3, <3>2
      <4>2. journal'[k] = journal[k] /\ journal'[k + 1] = journal[k + 1]
        BY <1>1, <1>6, <4>1
      <4> QED BY <1>3, <4>1, <4>2
    <3> QED BY <3>1, <3>2
  <2>4. beat.since <= beat.since + 0
    BY <1>2
  <2> HIDE DEF now, tick, beat
  <2> QED BY <2>1, <2>2, <2>3, <2>4 DEF AgesGrow, HEARTBEAT
<1> QED BY <1>5, <1>6

(* A beat, or half the way to it.                                          *)
LEMMA BeatKeeps ==
  ASSUME ProbeInv, NEW ticks \in BOOLEAN, NEW shift \in Shifts, HalfInterval(ticks, shift)
  PROVE  ProbeInv'
<1> DEFINE now == clock.time + 1
           tick == IF ticks THEN now ELSE clock.tick
           wall == clock.wall + 1 + shift
           beat == [at |-> wall, since |-> Age(now, tick)]
<1>1. /\ process' = process /\ probe' = probe
      /\ shift # 0 => clock.set = 0
      /\ clock' = [time |-> now, wall |-> wall, tick |-> tick, set |-> clock.set + shift]
      /\ journal' = IF now % HEARTBEAT = 0 THEN Append(journal, beat) ELSE journal
  BY DEF HalfInterval
<1>2. /\ clock.time \in Nat /\ clock.wall \in Int /\ clock.tick \in Int /\ clock.set \in Int /\ shift \in Int
      /\ journal \in Seq(Beat) /\ now \in Nat /\ tick \in Int /\ wall \in Int
  BY LoadsAssumption DEF ProbeInv, StallTypeOK
<1>3. /\ clock'.time = now /\ clock'.wall = wall /\ clock'.tick = tick /\ clock'.set = clock.set + shift
  BY <1>1
<1>4. tick = Unset \/ tick \in 0..now
  BY <1>2 DEF ProbeInv, BeatsApart
<1>5. beat \in Beat /\ beat.since >= Unset /\ beat.at = wall
  BY <1>2, <1>4 DEF Beat, Age, Unset
<1>6. clock' \in [time : Nat, wall : Int, tick : Int, set : Int] /\ journal' \in Seq(Beat)
  <2> HIDE DEF beat, tick, now, wall
  <2>1. clock.set + shift \in Int
    BY <1>2
  <2> QED BY <1>1, <1>2, <1>5, <2>1
<1>7. StallTypeOK'
  BY <1>1, <1>6 DEF ProbeInv, StallTypeOK
<1>8. BeatsApart'
  <2>1. Len(journal) = clock.time \div 2 /\ Len(journal) \in Nat
    BY <1>2 DEF ProbeInv, BeatsApart, HEARTBEAT
  <2>2. /\ \A k \in 1..Len(journal) : journal[k].since >= Unset
        /\ \A k \in Intervals : Wall(k) \in {2, 2 + clock.set}
        /\ journal # <<>> => IF clock.time % 2 = 0 THEN clock.wall = Last(journal).at
                             ELSE clock.wall - Last(journal).at \in {1, 1 + clock.set}
    BY DEF ProbeInv, BeatsApart, HEARTBEAT
  <2>3. CASE now % 2 # 0
    <3>1. journal' = journal /\ clock.time % 2 = 0 /\ now \div 2 = clock.time \div 2
      BY <1>1, <1>2, <2>3, Halves DEF HEARTBEAT
    <3>2. \A k \in Intervals' : Wall(k)' \in {2, 2 + clock'.set}
      <4> SUFFICES ASSUME NEW k \in Intervals PROVE Wall(k) \in {2, 2 + clock'.set}
        BY <3>1 DEF Intervals, Wall
      <4> QED BY <1>1, <1>2, <1>3, <2>2
    <3>3. ASSUME journal # <<>> PROVE wall - Last(journal).at \in {1, 1 + clock'.set}
      <4>1. clock.wall = Last(journal).at
        BY <2>2, <3>1, <3>3
      <4> QED BY <1>1, <1>2, <1>3, <4>1, SMTT(40)
    <3>4. ~(clock'.time % 2 = 0)
      BY <1>3, <2>3
    <3>5. Last(journal)' = Last(journal)
      BY <3>1 DEF Last
    <3> QED BY <1>3, <1>4, <2>1, <2>2, <3>1, <3>2, <3>3, <3>4, <3>5 DEF BeatsApart, HEARTBEAT
  <2>4. CASE now % 2 = 0
    <3>1. journal' = Append(journal, beat) /\ clock.time % 2 # 0 /\ now \div 2 = (clock.time \div 2) + 1
      BY <1>1, <1>2, <2>4, Halves DEF HEARTBEAT
    <3> HIDE DEF beat, tick, now, wall
    <3>2. /\ Len(journal') = Len(journal) + 1 /\ journal' # <<>> /\ Last(journal') = beat
          /\ \A k \in 1..Len(journal) : journal'[k] = journal[k]
          /\ journal'[Len(journal) + 1] = beat
      BY <1>2, <1>5, <2>1, <3>1 DEF Last
    <3>3. ASSUME NEW k \in 1..Len(journal') PROVE journal'[k].since >= Unset
      <4>1. k \in 1..Len(journal) \/ k = Len(journal) + 1
        BY <2>1, <3>2, <3>3
      <4>2. CASE k \in 1..Len(journal)
        BY <2>2, <3>2, <4>2
      <4>3. CASE k = Len(journal) + 1
        BY <1>5, <3>2, <4>3
      <4> QED BY <4>1, <4>2, <4>3
    <3>4. \A k \in Intervals' : Wall(k)' \in {2, 2 + clock'.set}
      <4>0. Intervals' = 1..Len(journal)
        BY <2>1, <3>2 DEF Intervals
      <4> SUFFICES ASSUME NEW k \in 1..Len(journal) PROVE journal'[k + 1].at - journal'[k].at \in {2, 2 + clock'.set}
        BY <4>0 DEF Wall
      <4>1. journal'[k] = journal[k] /\ k \in Nat
        BY <3>2
      <4>2. CASE k < Len(journal)
        <5>1. k \in Intervals /\ journal'[k + 1] = journal[k + 1]
          BY <2>1, <3>2, <4>1, <4>2 DEF Intervals
        <5>2. Wall(k) \in {2, 2 + clock.set}
          BY <2>2, <5>1
        <5> QED BY <1>1, <1>2, <1>3, <4>1, <5>1, <5>2, SMTT(40) DEF Wall
      <4>3. CASE k = Len(journal)
        <5>1. journal # <<>> /\ Last(journal) = journal[k] /\ journal'[k + 1] = beat
          BY <3>2, <4>3 DEF Last
        <5>2. clock.wall - journal[k].at \in {1, 1 + clock.set}
          BY <2>2, <3>1, <5>1
        <5>3. journal[k] \in Beat
          BY <1>2, <4>3
        <5>4. journal[k].at \in Int
          BY <5>3 DEF Beat
        <5>5. wall = clock.wall + 1 + shift
          BY DEF wall
        <5>6. /\ journal'[k + 1].at - journal'[k].at = (clock.wall - journal[k].at) + 1 + shift
              /\ clock'.set = clock.set + shift /\ clock.set \in Int /\ shift \in Int
          BY <1>2, <1>3, <1>5, <4>1, <5>1, <5>4, <5>5
        <5> QED BY <1>1, <5>2, <5>6
      <4> QED BY <2>1, <4>2, <4>3
    <3>5. clock'.wall = Last(journal').at /\ clock'.time % 2 = 0
      BY <1>3, <1>5, <2>4, <3>2 DEF now
    <3>6. Last(journal)' = Last(journal')
      BY DEF Last
    <3>7. Len(journal') = clock'.time \div 2
      BY <1>3, <2>1, <3>1, <3>2
    <3> QED BY <1>3, <1>4, <3>3, <3>4, <3>5, <3>6, <3>7 DEF BeatsApart, HEARTBEAT
  <2> QED BY <2>3, <2>4
<1>9. BornFromZero' /\ SeriesInOrder' /\ JudgedLast'
  BY <1>1 DEF ProbeInv, BornFromZero, SeriesInOrder, JudgedLast, SnapshotOf, First, Final, Last
<1>10. ProbeIsRight'
  BY <1>1, RightKept DEF ProbeInv
<1>11. SetOnce' /\ AgesGrow'
  BY BeatMeasured, BeatAges
<1> QED BY <1>7, <1>8, <1>9, <1>10, <1>11 DEF ProbeInv

(* An interval as long as it should be that is counted as quiet saw no     *)
(* tick; one that is longer neither; and only one is shorter.              *)
LEMMA QuietTruly ==
  ASSUME StallTypeOK, BeatsApart, SetOnce
  PROVE  /\ Cardinality(CountedQuiet \ Silent) \in Nat
         /\ Cardinality(CountedQuiet \ Silent) <= IF clock.set \in (1 - HEARTBEAT)..-1 THEN 1 ELSE 0
<1>1. Len(journal) \in Nat /\ clock.set \in Int
  BY DEF StallTypeOK
<1>2. ASSUME NEW k \in Intervals, QuietInterval(k), AsMeasured(k) \/ clock.set # -1 PROVE TrulyQuiet(k)
  <2>1. k \in 1..Len(journal) /\ k + 1 \in 1..Len(journal)
    BY <1>1 DEF Intervals
  <2>2. journal[k] \in Beat /\ journal[k + 1] \in Beat
    BY <2>1 DEF StallTypeOK
  <2>3. /\ journal[k].since >= -1 /\ journal[k + 1].since >= -1
        /\ Wall(k) \in {2, 2 + clock.set} /\ (AsMeasured(k) => Wall(k) = 2)
    BY <2>1 DEF BeatsApart, AsMeasured, Unset, HEARTBEAT
  <2>4. journal[k].since \in Int /\ journal[k + 1].since \in Int
    BY <2>2 DEF Beat
  <2>5. /\ journal[k].since # -1 /\ journal[k + 1].since # -1
        /\ Wall(k) > 0 /\ journal[k + 1].since - journal[k].since >= Wall(k)
    BY <1>2 DEF QuietInterval, Unset
  <2>6. Wall(k) \in Int /\ Wall(k) >= 2
    BY <1>1, <1>2, <2>3, <2>5
  <2>7. journal[k].since >= 0
    BY <2>3, <2>4, <2>5
  <2>8. journal[k + 1].since >= 2
    BY <2>4, <2>5, <2>6, <2>7
  <2> QED BY <2>8 DEF TrulyQuiet, HEARTBEAT
<1>3. \A k \in CountedQuiet \ Silent : k \in Intervals /\ ~AsMeasured(k) /\ clock.set = -1
  <2> SUFFICES ASSUME NEW k \in CountedQuiet \ Silent PROVE k \in Intervals /\ ~AsMeasured(k) /\ clock.set = -1
    OBVIOUS
  <2>1. k \in Intervals /\ k \in k..(Len(journal) - 1)
    BY <1>1 DEF CountedQuiet, Trailing, Intervals
  <2>2. QuietInterval(k) /\ ~TrulyQuiet(k)
    BY <2>1 DEF CountedQuiet, Trailing, Silent
  <2> QED BY <1>2, <2>1, <2>2
<1>4. CASE CountedQuiet \ Silent = {}
  BY <1>4, FS_EmptySet
<1>5. CASE CountedQuiet \ Silent # {}
  <2>1. PICK k : CountedQuiet \ Silent = {k}
    BY <1>3, <1>5 DEF SetOnce
  <2>2. Cardinality(CountedQuiet \ Silent) = 1
    BY <2>1, FS_Singleton
  <2>3. clock.set = -1
    BY <1>3, <1>5
  <2> QED BY <2>2, <2>3 DEF HEARTBEAT
<1> QED BY <1>4, <1>5

(* Where the last tick is two intervals old, the last two intervals saw    *)
(* none.                                                                   *)
LEMMA PlateauTruly ==
  ASSUME StallTypeOK, AgesGrow, JournalReading = "plateau", QuietBeats >= DEFAULT_MIN_QUIET_BEATS
  PROVE  Cardinality(Trailing(Silent)) >= DEFAULT_MIN_QUIET_BEATS
<1> DEFINE n == Len(journal)
<1>1. /\ n \in Nat /\ \A k \in 1..n : journal[k].since \in Int
      /\ journal # <<>> /\ Last(journal) = journal[n] /\ n \in 1..n
  <2>1. journal # <<>>
    BY DEF JournalReading
  <2>2. \A k \in 1..n : journal[k] \in Beat
    BY DEF StallTypeOK
  <2> QED BY <2>1, <2>2 DEF StallTypeOK, Beat, Last
<1>2. journal[n].since >= 4
  BY <1>1 DEF JournalReading, DEFAULT_QUIET, HEARTBEAT
<1>3. IsFiniteSet(Intervals) /\ Intervals = 1..(n - 1) /\ Cardinality(Intervals) = IF n - 1 >= 1 THEN n - 1 ELSE 0
  <2>1. n - 1 \in Int /\ 1 \in Int
    BY <1>1
  <2>2. IsFiniteSet(1..(n - 1)) /\ Cardinality(1..(n - 1)) = IF 1 > n - 1 THEN 0 ELSE (n - 1) - 1 + 1
    BY <2>1, FS_Interval
  <2> QED BY <1>1, <2>2 DEF Intervals
<1>4. n >= 3
  <2>1. CountedQuiet \subseteq Intervals
    BY DEF CountedQuiet, Trailing
  <2>2. Cardinality(CountedQuiet) <= Cardinality(Intervals) /\ Cardinality(CountedQuiet) \in Nat
    BY <1>3, <2>1, FS_Subset, FS_CardinalityType
  <2> QED BY <1>1, <1>3, <2>2 DEF QuietBeats, DEFAULT_MIN_QUIET_BEATS
<1>5. journal[n - 1].since >= 2
  <2>1. n - 1 \in Intervals /\ n - 1 \in 1..n
    BY <1>1, <1>3, <1>4
  <2>2. journal[(n - 1) + 1].since <= journal[n - 1].since + 2 /\ (n - 1) + 1 = n
    BY <1>1, <2>1 DEF AgesGrow, HEARTBEAT
  <2> QED BY <1>1, <1>2, <2>1, <2>2
<1>6. n - 1 \in Silent /\ n - 2 \in Silent
  <2>1. n - 1 \in Intervals /\ n - 2 \in Intervals /\ (n - 1) + 1 = n /\ (n - 2) + 1 = n - 1
    BY <1>1, <1>3, <1>4
  <2> QED BY <1>1, <1>2, <1>5, <2>1 DEF Silent, TrulyQuiet, HEARTBEAT
<1>7. {n - 1, n - 2} \subseteq Trailing(Silent) /\ Trailing(Silent) \subseteq Intervals
  <2>1. \A k \in {n - 1, n - 2} : k \in Intervals /\ k..(n - 1) \subseteq {n - 1, n - 2}
    BY <1>1, <1>3, <1>4
  <2> QED BY <1>6, <2>1 DEF Trailing
<1>8. Cardinality({n - 1, n - 2}) = 2
  <2>1. n - 1 # n - 2
    BY <1>1
  <2>2. Cardinality({n - 2}) = 1 /\ IsFiniteSet({n - 2})
    BY FS_Singleton
  <2>3. {n - 2} \cup {n - 1} = {n - 1, n - 2} /\ n - 1 \notin {n - 2}
    BY <2>1
  <2>4. Cardinality({n - 2} \cup {n - 1}) = Cardinality({n - 2}) + 1
    BY <2>2, <2>3, FS_AddElement
  <2>5. Cardinality({n - 2} \cup {n - 1}) = 2
    BY <2>2, <2>4
  <2> HIDE DEF n
  <2> QED BY <2>3, <2>5, Zenon
<1>9. Cardinality({n - 1, n - 2}) <= Cardinality(Trailing(Silent))
  <2> HIDE DEF n
  <2>1. IsFiniteSet(Trailing(Silent))
    BY <1>3, <1>7, FS_Subset
  <2> QED BY <1>7, <2>1, FS_Subset
<1> QED BY <1>8, <1>9 DEF DEFAULT_MIN_QUIET_BEATS

LEMMA CheapReadingKeeps ==
  ASSUME ProbeInv, (\E sampled \in BOOLEAN : ReadJournal(sampled)) \/ NoJournal
  PROVE  ProbeInv'
<1>1. /\ clock' = clock /\ journal' = journal /\ process' = process
      /\ probe.pc = "waiting" /\ probe.series = <<>> /\ probe.verdict = "none"
  BY DEF ProbeInv, JudgedLast, SeriesInOrder, ReadJournal, NoJournal
<1>2. BeatsApart' /\ SetOnce' /\ AgesGrow' /\ BornFromZero'
  BY <1>1 DEF ProbeInv, BeatsApart, SetOnce, AgesGrow, AsMeasured, Age, BornFromZero, Intervals, Wall, Last
<1>3. CASE NoJournal
  <2>1. probe' = [probe EXCEPT !.pc = "failed"]
    BY <1>3 DEF NoJournal
  <2>2. StallTypeOK'
    BY <1>1, <2>1 DEF ProbeInv, StallTypeOK, Points
  <2>3. SeriesInOrder' /\ JudgedLast' /\ ProbeIsRight'
    BY <1>1, <2>1 DEF ProbeInv, StallTypeOK, SeriesInOrder, JudgedLast, ProbeIsRight
  <2> QED BY <1>2, <2>2, <2>3 DEF ProbeInv
<1>4. ASSUME NEW sampled \in BOOLEAN, ReadJournal(sampled) PROVE ProbeInv'
  <2> DEFINE truly == Cardinality(Trailing(Silent))
             wrong == Cardinality(CountedQuiet \ Silent)
             back == clock.set \in (1 - HEARTBEAT)..-1
             sure == JournalReading = "plateau" /\ QuietBeats >= DEFAULT_MIN_QUIET_BEATS
             next == IF sampled THEN "read" ELSE "judging"
  <2>1. probe' = [probe EXCEPT !.pc = next, !.reading = JournalReading, !.miscounted = wrong,
                               !.quietTruly = truly, !.setBack = back, !.corroborated = sure]
    BY <1>4 DEF ReadJournal
  <2>2. truly \in Nat
    <3>1. IsFiniteSet(Intervals)
      BY FS_Interval DEF ProbeInv, StallTypeOK, Intervals
    <3>2. IsFiniteSet(Trailing(Silent))
      BY <3>1, FS_Subset DEF Trailing
    <3> QED BY <3>2, FS_CardinalityType
  <2>3. /\ sure => truly >= DEFAULT_MIN_QUIET_BEATS
        /\ wrong \in Nat /\ wrong <= IF back THEN 1 ELSE 0
    BY QuietTruly, PlateauTruly DEF ProbeInv
  <2>4. JournalReading \in Readings /\ next \in Points /\ next \notin {"waiting", "done"}
    BY DEF JournalReading, Readings, Points
  <2>5. back \in BOOLEAN /\ sure \in BOOLEAN
    OBVIOUS
  <2> HIDE DEF truly, wrong, back, sure, next
  <2>6. /\ probe'.pc = next /\ probe'.miscounted = wrong /\ probe'.quietTruly = truly
        /\ probe'.setBack = back /\ probe'.corroborated = sure /\ probe'.series = <<>> /\ probe'.verdict = "none"
    BY <1>1, <2>1 DEF ProbeInv, StallTypeOK
  <2>7. StallTypeOK'
    <3>1. probe' \in [pc : Points, reading : Readings, corroborated : BOOLEAN, miscounted : Nat, quietTruly : Nat,
                      setBack : BOOLEAN, steps : Nat, series : Seq(Snapshot), verdict : Verdicts]
      BY <2>1, <2>2, <2>3, <2>4, <2>5 DEF ProbeInv, StallTypeOK
    <3> QED BY <1>1, <3>1 DEF ProbeInv, StallTypeOK
  <2>8. SeriesInOrder' /\ JudgedLast'
    BY <2>6 DEF SeriesInOrder, JudgedLast
  <2>9. ProbeIsRight'
    BY <2>3, <2>6 DEF ProbeIsRight
  <2> QED BY <1>2, <2>7, <2>8, <2>9 DEF ProbeInv
<1> QED BY <1>3, <1>4

LEMMA StartKeeps ==
  ASSUME ProbeInv, NEW alive \in SUBSET Threads, NEW readable \in SUBSET {"io", "task"},
         StartSampling(alive, readable)
  PROVE  ProbeInv'
<1> DEFINE used == [t \in Threads |-> IF t \in alive THEN Lived ELSE 0]
<1>1. /\ probe.pc \in {"waiting", "read"} /\ clock' = ClockStart /\ journal' = <<>>
      /\ process' = [process EXCEPT !.alive = alive, !.born = alive, !.readable = readable, !.used = used]
      /\ probe' = [probe EXCEPT !.pc = "sampling", !.corroborated = FALSE, !.setBack = FALSE,
                                !.miscounted = 0, !.quietTruly = 0]
  BY DEF StartSampling
<1>2. probe.series = <<>> /\ probe.verdict = "none" /\ StallTypeOK
  BY <1>1 DEF ProbeInv, SeriesInOrder, JudgedLast
<1>3. used \in [Threads -> Nat] /\ \A t \in Threads : t \notin alive => used[t] = 0
  BY DEF Lived
<1> HIDE DEF used
<1>4. /\ process'.alive = alive /\ process'.born = alive /\ process'.used = used
      /\ probe'.pc = "sampling" /\ probe'.series = <<>> /\ probe'.verdict = "none"
      /\ probe'.miscounted = 0 /\ probe'.quietTruly = 0 /\ probe'.corroborated = FALSE /\ probe'.setBack = FALSE
  BY <1>1, <1>2 DEF StallTypeOK
<1>5. StallTypeOK'
  <2>1. clock' \in [time : Nat, wall : Int, tick : Int, set : Int]
    BY <1>1 DEF ClockStart, Unset
  <2>2. process' \in [alive : SUBSET Threads, born : SUBSET Threads, used : [Threads -> Nat],
                      block : Nat, chars : Nat, readable : SUBSET {"io", "task"}]
    BY <1>1, <1>2, <1>3 DEF StallTypeOK
  <2>3. probe' \in [pc : Points, reading : Readings, corroborated : BOOLEAN, miscounted : Nat, quietTruly : Nat,
                    setBack : BOOLEAN, steps : Nat, series : Seq(Snapshot), verdict : Verdicts]
    BY <1>1, <1>2 DEF StallTypeOK, Points
  <2>4. journal' \in Seq(Beat)
    BY <1>1
  <2> QED BY <2>1, <2>2, <2>3, <2>4 DEF StallTypeOK
<1>6. BeatsApart' /\ SetOnce' /\ AgesGrow'
  BY <1>1 DEF BeatsApart, SetOnce, AgesGrow, ClockStart, Unset, HEARTBEAT, Intervals, Wall
<1>7. BornFromZero' /\ SeriesInOrder' /\ JudgedLast' /\ ProbeIsRight'
  BY <1>3, <1>4 DEF BornFromZero, SeriesInOrder, JudgedLast, ProbeIsRight
<1> QED BY <1>5, <1>6, <1>7 DEF ProbeInv

LEMMA SeriesEnds ==
  ASSUME StallTypeOK, probe.series # <<>>
  PROVE  /\ First \in Snapshot /\ Final \in Snapshot
         /\ SeriesInOrder => SnapshotOf(First) /\ SnapshotOf(Final)
<1>1. probe.series \in Seq(Snapshot) /\ Len(probe.series) \in 1..Len(probe.series) /\ 1 \in 1..Len(probe.series)
  BY DEF StallTypeOK
<1>2. First = probe.series[1] /\ Final = probe.series[Len(probe.series)]
  BY <1>1 DEF First, Final, Last
<1> QED BY <1>1, <1>2 DEF SeriesInOrder

(* Between two samples threads work, exit and are born.                    *)
LEMMA WorkKeeps ==
  ASSUME ProbeInv, NEW load \in [process.alive -> Loads], NEW exits \in SUBSET process.alive,
         NEW births \in SUBSET (Threads \ process.born), NEW page \in {"none", "mapped", "cached"},
         Works(load, exits, births, page)
  PROVE  ProbeInv'
<1> DEFINE used == [t \in Threads |-> process.used[t] + IF t \in process.alive THEN load[t] ELSE 0]
           alive == (process.alive \ exits) \cup births
           born == process.born \cup births
<1>1. /\ probe.pc = "sleeping" /\ clock' = clock /\ journal' = journal
      /\ process' = [process EXCEPT !.used = used, !.alive = alive, !.born = born,
                                    !.block = process.block + IF page = "mapped" THEN 1 ELSE 0,
                                    !.chars = process.chars + IF page = "cached" THEN 1 ELSE 0]
      /\ probe' = [probe EXCEPT !.pc = "sampling", !.steps = probe.steps + 1]
  BY DEF Works
<1>2. StallTypeOK /\ probe.verdict = "none"
  BY <1>1 DEF ProbeInv, JudgedLast
<1>3. used \in [Threads -> Nat] /\ \A t \in Threads : used[t] >= process.used[t]
  <2>1. \A t \in Threads : process.used[t] \in Nat /\ (t \in process.alive => load[t] \in Nat)
    BY <1>2, LoadsAssumption DEF StallTypeOK
  <2> QED BY <2>1
<1>4. \A t \in Threads \ born : used[t] = 0
  <2> SUFFICES ASSUME NEW t \in Threads, t \notin born PROVE used[t] = 0
    OBVIOUS
  <2>1. process.used[t] = 0 /\ t \notin process.alive
    BY DEF ProbeInv, BornFromZero
  <2> QED BY <2>1
<1>5. alive \in SUBSET Threads /\ born \in SUBSET Threads /\ alive \subseteq born
      /\ alive \subseteq process.alive \cup births
  BY <1>2 DEF StallTypeOK, ProbeInv, BornFromZero
<1>6. \A t \in births : process.used[t] = 0
  BY DEF ProbeInv, BornFromZero
<1> HIDE DEF used, alive, born
<1>7. /\ process'.alive = alive /\ process'.born = born /\ process'.used = used /\ process'.readable = process.readable
      /\ probe'.pc = "sampling" /\ probe'.series = probe.series /\ probe'.verdict = "none"
      /\ probe'.setBack = probe.setBack /\ probe'.miscounted = probe.miscounted
      /\ probe'.quietTruly = probe.quietTruly /\ probe'.corroborated = probe.corroborated
  BY <1>1, <1>2 DEF StallTypeOK
<1>8. StallTypeOK'
  <2>1. process' \in [alive : SUBSET Threads, born : SUBSET Threads, used : [Threads -> Nat],
                      block : Nat, chars : Nat, readable : SUBSET {"io", "task"}]
    <3>1. /\ process.block + (IF page = "mapped" THEN 1 ELSE 0) \in Nat
          /\ process.chars + (IF page = "cached" THEN 1 ELSE 0) \in Nat
      BY <1>2 DEF StallTypeOK
    <3> QED BY <1>1, <1>2, <1>3, <1>5, <3>1 DEF StallTypeOK
  <2>2. probe' \in [pc : Points, reading : Readings, corroborated : BOOLEAN, miscounted : Nat, quietTruly : Nat,
                    setBack : BOOLEAN, steps : Nat, series : Seq(Snapshot), verdict : Verdicts]
    <3>1. probe.steps + 1 \in Nat /\ "sampling" \in Points
      BY <1>2 DEF StallTypeOK, Points
    <3> QED BY <1>1, <1>2, <3>1 DEF StallTypeOK
  <2> QED BY <1>1, <1>2, <2>1, <2>2 DEF StallTypeOK
<1>9. BeatsApart' /\ SetOnce' /\ AgesGrow' /\ BornFromZero' /\ JudgedLast'
  BY <1>1, <1>4, <1>5, <1>7 DEF ProbeInv, BeatsApart, SetOnce, AgesGrow, AsMeasured, Age, BornFromZero, JudgedLast, Intervals, Wall, Last
<1>10. SeriesInOrder'
  <2>1. First' = First /\ Final' = Final
    BY <1>7 DEF First, Final, Last
  <2>2. \A i \in 1..Len(probe'.series) : SnapshotOf(probe'.series[i])
    BY <1>7 DEF ProbeInv, SeriesInOrder
  <2>3. ASSUME probe.series # <<>>
        PROVE  /\ \A t \in Threads : First.truly[t] <= Final.truly[t] /\ Final.truly[t] <= used[t]
               /\ \A t \in DOMAIN Final.threads \ DOMAIN First.threads : First.truly[t] = 0
               /\ "task" \in process.readable => \A t \in alive \ DOMAIN First.threads : First.truly[t] = 0
    <3>1. /\ \A t \in Threads : First.truly[t] <= Final.truly[t] /\ Final.truly[t] <= process.used[t]
          /\ \A t \in DOMAIN Final.threads \ DOMAIN First.threads : First.truly[t] = 0
          /\ "task" \in process.readable => \A t \in process.alive \ DOMAIN First.threads : First.truly[t] = 0
      BY <2>3 DEF ProbeInv, SeriesInOrder
    <3>2. First \in Snapshot /\ Final \in Snapshot
      BY <1>2, <2>3, SeriesEnds
    <3>3. \A t \in Threads : First.truly[t] \in Nat /\ Final.truly[t] \in Nat
                              /\ process.used[t] \in Nat /\ used[t] \in Nat
      BY <1>2, <1>3, <3>2 DEF StallTypeOK, Snapshot
    <3>4. \A t \in births : t \in Threads /\ First.truly[t] = 0
      BY <1>6, <3>1, <3>3
    <3> QED BY <1>3, <1>5, <3>1, <3>3, <3>4
  <2>4. probe'.pc \notin {"waiting", "read"}
    BY <1>7
  <2> QED BY <1>7, <2>1, <2>2, <2>3, <2>4 DEF SeriesInOrder
<1>11. ProbeIsRight'
  BY <1>7 DEF ProbeInv, ProbeIsRight
<1> QED BY <1>8, <1>9, <1>10, <1>11 DEF ProbeInv

(* A sample is the truth about the threads it lists.                       *)
LEMMA SampleKeeps ==
  ASSUME ProbeInv, Sample
  PROVE  ProbeInv'
<1>1. /\ probe.pc = "sampling" /\ clock' = clock /\ journal' = journal /\ process' = process
      /\ StallTypeOK /\ probe.verdict = "none"
  BY DEF Sample, ProbeInv, JudgedLast
<1>2. snapshot \in Snapshot /\ SnapshotOf(snapshot) /\ snapshot.truly = process.used
      /\ (\A t \in DOMAIN snapshot.threads : t \in process.alive /\ "task" \in process.readable)
  <2>1. process.used \in [Threads -> Nat] /\ process.alive \subseteq Threads
    BY <1>1 DEF StallTypeOK
  <2>2. SumOver(process.used) \in Int
    BY <2>1, SumGrows, LoadsAssumption
  <2> DEFINE listed == IF "task" \in process.readable THEN process.alive ELSE {}
             shown == [t \in listed |-> process.used[t]]
  <2>3. shown \in Shown /\ DOMAIN shown = listed
    <3>1. listed \in SUBSET Threads
      BY <2>1
    <3> HIDE DEF listed
    <3>2. shown \in [listed -> Nat]
      BY <2>1, <3>1
    <3> QED BY <3>1, <3>2 DEF Shown
  <2>4. \A t \in DOMAIN shown : shown[t] = process.used[t] /\ t \in process.alive /\ "task" \in process.readable
    OBVIOUS
  <2>5. snapshot = [at |-> probe.steps, whole |-> SumOver(process.used), threads |-> shown,
                    block |-> process.block, chars |-> process.chars, truly |-> process.used]
    BY DEF snapshot
  <2>6. probe.steps \in Nat /\ process.block \in Nat /\ process.chars \in Nat
    BY <1>1 DEF StallTypeOK
  <2> HIDE DEF shown
  <2>7. snapshot \in Snapshot
    BY <2>1, <2>2, <2>3, <2>5, <2>6 DEF Snapshot
  <2> QED BY <2>4, <2>5, <2>7 DEF SnapshotOf
<1> DEFINE series == IF process.alive = {} THEN probe.series
                     ELSE IF probe.series = <<>> THEN <<snapshot>> ELSE <<Head(probe.series), snapshot>>
           next == IF process.alive = {} \/ probe.steps = Window THEN "summing" ELSE "sleeping"
<1>3. probe' = [probe EXCEPT !.pc = next, !.series = series]
  BY <1>1 DEF Sample, StallTypeOK
<1>4. series \in Seq(Snapshot) /\ \A i \in 1..Len(series) : SnapshotOf(series[i])
  <2>1. CASE process.alive = {}
    BY <1>1, <2>1 DEF ProbeInv, SeriesInOrder, StallTypeOK
  <2>2. CASE process.alive # {} /\ probe.series = <<>>
    BY <1>2, <2>2
  <2>3. CASE process.alive # {} /\ probe.series # <<>>
    <3>1. Head(probe.series) = First /\ First \in Snapshot /\ SnapshotOf(First)
      BY <1>1, <2>3, SeriesEnds DEF First, ProbeInv
    <3> QED BY <1>2, <2>3, <3>1
  <2> QED BY <2>1, <2>2, <2>3
<1>5. next \in Points /\ next \notin {"waiting", "read", "done"}
  BY DEF Points
<1>6. series # <<>> =>
        /\ \A t \in Threads : Head(series).truly[t] <= Last(series).truly[t]
                              /\ Last(series).truly[t] <= process.used[t]
        /\ \A t \in DOMAIN Last(series).threads \ DOMAIN Head(series).threads : Head(series).truly[t] = 0
        /\ "task" \in process.readable => \A t \in process.alive \ DOMAIN Head(series).threads : Head(series).truly[t] = 0
  <2> SUFFICES ASSUME series # <<>>
               PROVE  /\ \A t \in Threads : Head(series).truly[t] <= Last(series).truly[t]
                                            /\ Last(series).truly[t] <= process.used[t]
                      /\ \A t \in DOMAIN Last(series).threads \ DOMAIN Head(series).threads : Head(series).truly[t] = 0
                      /\ "task" \in process.readable =>
                           \A t \in process.alive \ DOMAIN Head(series).threads : Head(series).truly[t] = 0
    OBVIOUS
  <2>1. CASE process.alive = {}
    BY <2>1 DEF ProbeInv, SeriesInOrder, First, Final
  <2>2. CASE process.alive # {} /\ probe.series = <<>>
    <3>1. Head(series) = snapshot /\ Last(series) = snapshot
      BY <2>2 DEF Last
    <3>2. "task" \in process.readable => DOMAIN snapshot.threads = process.alive
      BY DEF snapshot
    <3>3. \A t \in Threads : process.used[t] \in Nat
      BY <1>1 DEF StallTypeOK
    <3> QED BY <1>2, <3>1, <3>2, <3>3
  <2>3. CASE process.alive # {} /\ probe.series # <<>>
    <3>1. Head(series) = First /\ Last(series) = snapshot
      BY <2>3 DEF First, Last
    <3>2. First \in Snapshot /\ Final \in Snapshot
      BY <1>1, <2>3, SeriesEnds
    <3>3. \A t \in Threads : First.truly[t] \in Nat /\ Final.truly[t] \in Nat /\ process.used[t] \in Nat
      BY <1>1, <3>2 DEF StallTypeOK, Snapshot
    <3>4. /\ \A t \in Threads : First.truly[t] <= Final.truly[t] /\ Final.truly[t] <= process.used[t]
          /\ "task" \in process.readable => \A t \in process.alive \ DOMAIN First.threads : First.truly[t] = 0
      BY <2>3 DEF ProbeInv, SeriesInOrder
    <3> QED BY <1>2, <3>1, <3>3, <3>4
  <2> QED BY <2>1, <2>2, <2>3
<1> HIDE DEF series, next
<1>7. /\ probe'.pc = next /\ probe'.series = series /\ probe'.verdict = "none"
      /\ probe'.setBack = probe.setBack /\ probe'.miscounted = probe.miscounted
      /\ probe'.quietTruly = probe.quietTruly /\ probe'.corroborated = probe.corroborated
  BY <1>1, <1>3 DEF StallTypeOK
<1>8. StallTypeOK'
  BY <1>1, <1>3, <1>4, <1>5 DEF StallTypeOK
<1>9. BeatsApart' /\ SetOnce' /\ AgesGrow' /\ BornFromZero' /\ JudgedLast'
  BY <1>1, <1>7 DEF ProbeInv, BeatsApart, SetOnce, AgesGrow, AsMeasured, Age, BornFromZero, JudgedLast, Intervals, Wall, Last
<1>10. SeriesInOrder'
  BY <1>1, <1>4, <1>5, <1>6, <1>7 DEF SeriesInOrder, First, Final
<1>11. ProbeIsRight'
  BY <1>7 DEF ProbeInv, ProbeIsRight
<1> QED BY <1>8, <1>9, <1>10, <1>11 DEF ProbeInv

LEMMA SummaryKeeps ==
  ASSUME ProbeInv, SummarizeCpu
  PROVE  ProbeInv'
<1> DEFINE next == IF Len(probe.series) < 2 THEN "failed" ELSE IF probe.reading = "none" THEN "done" ELSE "judging"
<1>1. /\ probe.pc = "summing" /\ clock' = clock /\ journal' = journal /\ process' = process
      /\ StallTypeOK /\ probe.verdict = "none" /\ probe' = [probe EXCEPT !.pc = next]
  BY DEF SummarizeCpu, ProbeInv, JudgedLast
<1>2. next \in Points /\ next \notin {"waiting", "read"}
  BY DEF Points
<1> HIDE DEF next
<1>3. /\ probe'.pc = next /\ probe'.series = probe.series /\ probe'.verdict = "none"
      /\ probe'.setBack = probe.setBack /\ probe'.miscounted = probe.miscounted
      /\ probe'.quietTruly = probe.quietTruly /\ probe'.corroborated = probe.corroborated
  BY <1>1 DEF StallTypeOK
<1>4. StallTypeOK'
  BY <1>1, <1>2 DEF StallTypeOK
<1>5. BeatsApart' /\ SetOnce' /\ AgesGrow' /\ BornFromZero' /\ JudgedLast'
  BY <1>1, <1>3 DEF ProbeInv, BeatsApart, SetOnce, AgesGrow, AsMeasured, Age, BornFromZero, JudgedLast, Intervals, Wall, Last
<1>6. SeriesInOrder'
  BY <1>1, <1>2, <1>3 DEF ProbeInv, SeriesInOrder, First, Final, Last
<1>7. ProbeIsRight'
  BY <1>3 DEF ProbeInv, ProbeIsRight
<1> QED BY <1>4, <1>5, <1>6, <1>7 DEF ProbeInv

(* What the window says of a thread and of them all.  The busiest thread   *)
(* listed used what it is said to have used; none of the others, listed or *)
(* not, used more than the whole process did.                              *)
TrulyHeld(t) == Final.truly[t] - First.truly[t]

LEMMA WindowTruly ==
  ASSUME StallTypeOK, SeriesInOrder, probe.series # <<>>
  PROVE  /\ WholeProcess \in Int /\ Elapsed \in Int
         /\ \A t \in Threads : TrulyHeld(t) \in Int /\ TrulyHeld(t) <= WholeProcess
         /\ DOMAIN Final.threads # {} => \E t \in Threads : Worker = TrulyHeld(t)
         /\ Final.block - First.block <= BytesRead /\ Final.chars - First.chars <= BytesRead
         /\ BytesRead \in Int
<1>1. First \in Snapshot /\ Final \in Snapshot /\ SnapshotOf(First) /\ SnapshotOf(Final)
  BY SeriesEnds
<1>2. /\ First.truly \in [Threads -> Nat] /\ Final.truly \in [Threads -> Nat]
      /\ First.at \in Nat /\ Final.at \in Nat /\ First.block \in Nat /\ Final.block \in Nat
      /\ First.chars \in Nat /\ Final.chars \in Nat
      /\ DOMAIN First.threads \subseteq Threads /\ DOMAIN Final.threads \subseteq Threads
  BY <1>1 DEF Snapshot, Shown
<1>3. /\ \A t \in Threads : First.truly[t] <= Final.truly[t]
      /\ \A t \in DOMAIN Final.threads \ DOMAIN First.threads : First.truly[t] = 0
  BY DEF SeriesInOrder
<1>4. /\ WholeProcess \in Int /\ Elapsed \in Int
      /\ \A t \in Threads : TrulyHeld(t) \in Int /\ TrulyHeld(t) <= WholeProcess
  <2>1. /\ SumOver(First.truly) \in Int /\ SumOver(Final.truly) \in Int
        /\ \A t \in Threads : Final.truly[t] - First.truly[t] <= SumOver(Final.truly) - SumOver(First.truly)
    BY <1>2, <1>3, SumGrows, LoadsAssumption
  <2>2. WholeProcess = SumOver(Final.truly) - SumOver(First.truly)
    BY <1>1 DEF WholeProcess, SnapshotOf
  <2>3. Elapsed = Final.at - First.at
    BY DEF Elapsed
  <2>4. \A t \in Threads : First.truly[t] \in Nat /\ Final.truly[t] \in Nat
    BY <1>2
  <2> QED BY <1>2, <2>1, <2>2, <2>3, <2>4 DEF TrulyHeld
<1>5. ASSUME DOMAIN Final.threads # {} PROVE \E t \in Threads : Worker = TrulyHeld(t)
  <2> DEFINE seen == {Used(t) : t \in DOMAIN Final.threads}
  <2>1. ASSUME NEW t \in DOMAIN Final.threads PROVE Used(t) = TrulyHeld(t) /\ t \in Threads
    <3>1. Final.threads[t] = Final.truly[t] /\ t \in Threads
      BY <1>1, <1>2 DEF SnapshotOf
    <3>2. CASE t \in DOMAIN First.threads
      BY <1>1, <3>1, <3>2 DEF SnapshotOf, Used, TrulyHeld
    <3>3. CASE t \notin DOMAIN First.threads
      BY <1>3, <3>1, <3>3 DEF Used, TrulyHeld
    <3> QED BY <3>1, <3>2, <3>3
  <2>2. seen \in SUBSET Int /\ seen # {} /\ \A x \in seen : x <= WholeProcess
    <3>1. \A t \in DOMAIN Final.threads : Used(t) \in Int /\ Used(t) <= WholeProcess
      BY <1>4, <2>1
    <3> QED BY <1>5, <3>1
  <2>3. Max(seen) \in seen
    <3> HIDE DEF seen
    <3> QED BY <1>4, <2>2, GreatestIsMax
  <2>4. PICK t \in DOMAIN Final.threads : Max(seen) = Used(t)
    BY <2>3
  <2>5. Worker = Max(seen)
    BY DEF Worker
  <2> HIDE DEF seen
  <2> QED BY <2>1, <2>4, <2>5
<1>6. /\ Final.block - First.block <= BytesRead /\ Final.chars - First.chars <= BytesRead
      /\ BytesRead \in Int
  <2> DEFINE b == Final.block - First.block
             c == Final.chars - First.chars
             bound == IF b <= c THEN c ELSE b
  <2>1. b \in Int /\ c \in Int
    BY <1>2
  <2> HIDE DEF b, c
  <2>2. {b, c} \in SUBSET Int /\ {b, c} # {} /\ bound \in Int /\ \A x \in {b, c} : x <= bound
    BY <2>1
  <2> HIDE DEF bound
  <2>3. Max({b, c}) \in {b, c} /\ \A x \in {b, c} : x <= Max({b, c})
    BY <2>2, GreatestIsMax
  <2>4. BytesRead = Max({b, c})
    BY DEF BytesRead, b, c
  <2>5. b <= BytesRead /\ c <= BytesRead /\ BytesRead \in Int
    BY <2>1, <2>3, <2>4
  <2> QED BY <2>5 DEF b, c
<1> QED BY <1>4, <1>5, <1>6

(* The verdict names a cause by what was sampled, and means what was.      *)
LEMMA JudgeKeeps ==
  ASSUME ProbeInv, Judge
  PROVE  ProbeInv'
<1>1. /\ probe.pc = "judging" /\ clock' = clock /\ journal' = journal /\ process' = process
      /\ StallTypeOK /\ SeriesInOrder /\ probe' = [probe EXCEPT !.pc = "done", !.verdict = stall_verdict]
  BY DEF Judge, ProbeInv
<1>2. stall_verdict \in Verdicts
  BY DEF stall_verdict, Verdicts
<1>3. /\ probe'.pc = "done" /\ probe'.series = probe.series /\ probe'.verdict = stall_verdict
      /\ probe'.reading = probe.reading /\ probe'.setBack = probe.setBack
      /\ probe'.miscounted = probe.miscounted /\ probe'.quietTruly = probe.quietTruly
      /\ probe'.corroborated = probe.corroborated
  BY <1>1 DEF StallTypeOK
<1>4. StallTypeOK'
  BY <1>1, <1>2 DEF StallTypeOK, Points
<1>5. BeatsApart' /\ SetOnce' /\ AgesGrow' /\ BornFromZero' /\ JudgedLast'
  BY <1>1, <1>3 DEF ProbeInv, BeatsApart, SetOnce, AgesGrow, AsMeasured, Age, BornFromZero, JudgedLast, Intervals, Wall, Last
<1>6. SeriesInOrder'
  BY <1>1, <1>3 DEF SeriesInOrder, First, Final, Last
<1>7. First' = First /\ Final' = Final /\ Elapsed' = Elapsed /\ \A t \in Threads : TrulyHeld(t)' = TrulyHeld(t)
  BY <1>3 DEF First, Final, Last, Elapsed, TrulyHeld
<1>8. stall_verdict \in {"wedged", "slow-tail"} =>
        probe.reading = "plateau" /\ probe.series # <<>> /\ DOMAIN Final.threads # {}
  BY DEF stall_verdict
<1>9. ASSUME stall_verdict = "wedged"
      PROVE  /\ \A t \in Threads : ~Holds(TrulyHeld(t), SLOW_CPU_PCT)
             /\ "io" \in process.readable
             /\ Final.block - First.block < IO_FLOOR /\ Final.chars - First.chars < IO_FLOOR
  <2>1. ~Holds(WholeProcess, SLOW_CPU_PCT) /\ "io" \in process.readable /\ ~(BytesRead >= IO_FLOOR)
    BY <1>9 DEF stall_verdict
  <2>2. /\ WholeProcess \in Int /\ Elapsed \in Int /\ BytesRead \in Int
        /\ \A t \in Threads : TrulyHeld(t) \in Int /\ TrulyHeld(t) <= WholeProcess
        /\ Final.block - First.block <= BytesRead /\ Final.chars - First.chars <= BytesRead
    BY <1>1, <1>8, <1>9, WindowTruly
  <2>3. First \in Snapshot /\ Final \in Snapshot
    BY <1>1, <1>8, <1>9, SeriesEnds
  <2>4. /\ First.block \in Nat /\ Final.block \in Nat /\ First.chars \in Nat /\ Final.chars \in Nat
    BY <2>3 DEF Snapshot
  <2>5. \A t \in Threads : ~Holds(TrulyHeld(t), SLOW_CPU_PCT)
    BY <2>1, <2>2 DEF Holds, SLOW_CPU_PCT
  <2> QED BY <2>1, <2>2, <2>4, <2>5 DEF IO_FLOOR
<1>10. ASSUME stall_verdict = "slow-tail" PROVE \E t \in Threads : Holds(TrulyHeld(t), SLOW_CPU_PCT)
  <2>1. Holds(Worker, SLOW_CPU_PCT)
    BY <1>10 DEF stall_verdict
  <2>2. PICK t \in Threads : Worker = TrulyHeld(t)
    BY <1>1, <1>8, <1>10, WindowTruly
  <2> QED BY <2>1, <2>2
<1>11. ProbeIsRight'
  <2>1. \A t \in Threads : Holds(TrulyHeld(t), SLOW_CPU_PCT)' <=> Holds(TrulyHeld(t), SLOW_CPU_PCT)
    BY <1>7 DEF Holds
  <2>2. /\ probe.corroborated => probe.quietTruly >= DEFAULT_MIN_QUIET_BEATS
        /\ probe.miscounted <= IF probe.setBack THEN 1 ELSE 0
    BY DEF ProbeInv, ProbeIsRight
  <2>3. probe'.verdict \in {"wedged", "slow-tail"} => probe'.reading = "plateau"
    BY <1>3, <1>8
  <2>4. probe'.verdict = "wedged" =>
           /\ \A t \in Threads : ~Holds(TrulyHeld(t), SLOW_CPU_PCT)'
           /\ "io" \in process'.readable
           /\ Final'.block - First'.block < IO_FLOOR /\ Final'.chars - First'.chars < IO_FLOOR
    BY <1>1, <1>3, <1>7, <1>9, <2>1
  <2>5. probe'.verdict = "slow-tail" => \E t \in Threads : Holds(TrulyHeld(t), SLOW_CPU_PCT)'
    BY <1>3, <1>10, <2>1
  <2> QED BY <1>3, <2>2, <2>3, <2>4, <2>5 DEF ProbeIsRight, Holds, TrulyHeld
<1> QED BY <1>4, <1>5, <1>6, <1>11 DEF ProbeInv

LEMMA ProbeIdles ==
  ASSUME ProbeInv, UNCHANGED stallVars
  PROVE  ProbeInv'
<1>1. clock' = clock /\ journal' = journal /\ process' = process /\ probe' = probe
  BY DEF stallVars
<1>2. StallTypeOK' /\ BeatsApart' /\ SetOnce' /\ AgesGrow' /\ BornFromZero' /\ JudgedLast' /\ SeriesInOrder'
  BY <1>1 DEF ProbeInv, StallTypeOK, BeatsApart, SetOnce, AgesGrow, AsMeasured, Age, BornFromZero,
       JudgedLast, SeriesInOrder, Intervals, Wall, Last, First, Final
<1> QED BY <1>1, <1>2, RightKept DEF ProbeInv

(* A cause the probe names is that of what was sampled, for any threads    *)
(* that come and go, any loads and any clock that is set once.             *)
THEOREM ProbesAreRight == StallSpec => []ProbeIsRight
<1>1. StallInit => ProbeInv
  BY ProbeStarts
<1>2. ProbeInv /\ [StallNext]_stallVars => ProbeInv'
  <2> SUFFICES ASSUME ProbeInv, [StallNext]_stallVars PROVE ProbeInv'
    OBVIOUS
  <2>1. ASSUME NEW ticks \in BOOLEAN, NEW shift \in Shifts, HalfInterval(ticks, shift) PROVE ProbeInv'
    BY <2>1, BeatKeeps
  <2>2. CASE (\E sampled \in BOOLEAN : ReadJournal(sampled)) \/ NoJournal
    BY <2>2, CheapReadingKeeps
  <2>3. ASSUME NEW alive \in SUBSET Threads, NEW readable \in SUBSET {"io", "task"},
               StartSampling(alive, readable)
        PROVE  ProbeInv'
    BY <2>3, StartKeeps
  <2>4. ASSUME NEW load \in [process.alive -> Loads], NEW exits \in SUBSET process.alive,
               NEW births \in SUBSET (Threads \ process.born), NEW page \in {"none", "mapped", "cached"},
               Works(load, exits, births, page)
        PROVE  ProbeInv'
    BY <2>4, WorkKeeps
  <2>5. CASE Sample \/ SummarizeCpu \/ Judge
    BY <2>5, SampleKeeps, SummaryKeeps, JudgeKeeps
  <2>6. CASE UNCHANGED stallVars
    BY <2>6, ProbeIdles
  <2> QED BY <2>1, <2>2, <2>3, <2>4, <2>5, <2>6 DEF StallNext
<1>3. ProbeInv => ProbeIsRight
  BY DEF ProbeInv
<1> QED BY <1>1, <1>2, <1>3, PTL DEF StallSpec
=============================================================================
