------------------------------ MODULE RdpClient ------------------------------
(***************************************************************************)
(* bench/zotero_rdp_client.py: one debugger session after another against  *)
(* a running Zotero.  The protocol carries no number that ties a reply to  *)
(* its request: a reply is known by the actor it comes from, by carrying   *)
(* no type and by its place in the stream.  Replies, events of any actor   *)
(* and results of evaluations share one stream, and a call may give up     *)
(* while its reply is still on the way.                                    *)
(*                                                                         *)
(* A request is numbered by the model and its packets carry that number in *)
(* "of", which the client may read only in the result of an evaluation     *)
(* (resultID).  Packets are whole; their bytes, and packets no Firefox     *)
(* sends, are left out.  Requests bounds how many a behaviour sends.       *)
(***************************************************************************)
EXTENDS Naturals, Sequences

CONSTANT Requests
ASSUME RequestsAssumption == Requests \in Nat \ {0}

VARIABLES socket,    \* fresh, open, poisoned (given up and closed) or closed
          attached,  \* whether the console actor is known
          wire,      \* packets on their way to the client
          unanswered,     \* requests the server has not replied to
          evaluating, \* evaluations asked for and not finished
          pending,   \* packets read and kept for wait_for_event
          call,      \* the call on the stack: its step and its last request
          sent,      \* how many requests were sent
          answers    \* which request's packet answered each request

session == <<socket, attached, wire, unanswered, evaluating, pending, call, sent, answers>>

(* The steps of eval_js, each with the actor it addresses. *)
Addressed(step) == CASE step = "getProcess" -> "root"
                      [] step = "getTarget" -> "descriptor"
                      [] OTHER -> "console"
Idle == [step |-> "idle", id |-> 0]
IsReply(p, actor) == p.from = actor /\ p.kind \in {"reply", "error"}
IsResult(p, id) == p.from = "console" /\ p.kind = "evaluationResult" /\ p.of = id

RdpInit == /\ socket = "fresh" /\ attached = FALSE
           /\ wire = <<>> /\ unanswered = {} /\ evaluating = {} /\ pending = {}
           /\ call = Idle /\ sent = 0 /\ answers = [i \in 1..Requests |-> {}]

(* A connection starts with nothing of the one before it, and the greeting *)
(* must come from the root actor.                                          *)
Connect == /\ socket # "open" /\ call = Idle /\ sent < Requests
           /\ socket' \in {"open", "closed"}
           /\ attached' = FALSE
           /\ wire' = <<>> /\ unanswered' = {} /\ evaluating' = {} /\ pending' = {}
           /\ UNCHANGED <<call, sent, answers>>

Send(step) == /\ socket = "open" /\ sent < Requests
              /\ sent' = sent + 1
              /\ call' = [step |-> step, id |-> sent + 1]
              /\ unanswered' = unanswered \union {[to |-> Addressed(step), of |-> sent + 1]}
              /\ evaluating' = evaluating \union (IF step = "evaluate" THEN {sent + 1} ELSE {})

(* eval_js: attach first, unless the console actor is known already. *)
Eval == /\ call = Idle
        /\ Send(IF attached THEN "evaluate" ELSE "getProcess")
        /\ UNCHANGED <<socket, attached, wire, pending, answers>>

Answered(p) == answers' = [answers EXCEPT ![call.id] = @ \union {p.of}]

(* What the caller does with an answer to its request. *)
GotReply(p) ==
    CASE p.kind = "error" -> call' = Idle /\ UNCHANGED <<attached, unanswered, evaluating, sent>>
      [] p.kind = "reply" /\ call.step = "getProcess" ->
            IF sent < Requests THEN Send("getTarget") /\ UNCHANGED attached
                               ELSE call' = Idle /\ UNCHANGED <<attached, unanswered, evaluating, sent>>
      [] p.kind = "reply" /\ call.step = "getTarget" ->
            attached' = TRUE /\ call' = Idle /\ UNCHANGED <<unanswered, evaluating, sent>>
      [] p.kind = "reply" /\ call.step = "evaluate" ->
            call' = [call EXCEPT !.step = "result"] /\ UNCHANGED <<attached, unanswered, evaluating, sent>>

(* request() reads until the direct reply, and keeps every other packet. *)
Request == LET p == Head(wire) IN
    /\ socket = "open" /\ call.step \in {"getProcess", "getTarget", "evaluate"} /\ wire # <<>>
    /\ wire' = Tail(wire)
    /\ IF IsReply(p, Addressed(call.step))
         THEN Answered(p) /\ GotReply(p) /\ UNCHANGED pending
         ELSE pending' = pending \union {p} /\ UNCHANGED <<attached, unanswered, evaluating, sent, call, answers>>
    /\ UNCHANGED socket

(* wait_for_event() looks at the packets kept first, then reads. *)
Kept == {p \in pending : IsResult(p, call.id)}
WaitKept == /\ socket = "open" /\ call.step = "result"
            /\ \E p \in Kept : Answered(p) /\ pending' = pending \ {p}
            /\ call' = Idle
            /\ UNCHANGED <<socket, attached, wire, unanswered, evaluating, sent>>
WaitRead == LET p == Head(wire) IN
    /\ socket = "open" /\ call.step = "result" /\ Kept = {} /\ wire # <<>>
    /\ wire' = Tail(wire)
    /\ IF IsResult(p, call.id) THEN Answered(p) /\ call' = Idle /\ UNCHANGED pending
                               ELSE pending' = pending \union {p} /\ UNCHANGED <<answers, call>>
    /\ UNCHANGED <<socket, attached, unanswered, evaluating, sent>>

(* _poison(): a timeout closes the socket for good, in either wait. *)
PoisonForgotten == "open"
Poison == "poisoned"
Timeout == /\ socket = "open" /\ call # Idle
           /\ socket' = Poison /\ call' = Idle
           /\ UNCHANGED <<attached, wire, unanswered, evaluating, pending, sent, answers>>
(* RDPConnectionClosed: the peer went, or the caller closed the client. *)
Closed == /\ socket = "open"
          /\ socket' = "closed" /\ call' = Idle
          /\ UNCHANGED <<attached, wire, unanswered, evaluating, pending, sent, answers>>

(* The server: actors answer their own requests in order, independently of *)
(* each other; an evaluation may end before its acknowledgement is sent;   *)
(* the console reports what anything in the process logs.                  *)
Reply == \E r \in unanswered, kind \in {"reply", "error"} :
    /\ socket = "open"
    /\ \A q \in unanswered : q.to = r.to => r.of <= q.of
    /\ wire' = Append(wire, [from |-> r.to, kind |-> kind, of |-> r.of])
    /\ evaluating' = IF kind = "error" THEN evaluating \ {r.of} ELSE evaluating
    /\ unanswered' = unanswered \ {r}
    /\ UNCHANGED <<socket, attached, pending, call, sent, answers>>
Finish == \E id \in evaluating :
    /\ socket = "open"
    /\ wire' = Append(wire, [from |-> "console", kind |-> "evaluationResult", of |-> id])
    /\ evaluating' = evaluating \ {id}
    /\ UNCHANGED <<socket, attached, unanswered, pending, call, sent, answers>>
ConsoleLogs ==
    /\ socket = "open" /\ attached /\ Len(wire) < 2
    /\ wire' = Append(wire, [from |-> "console", kind |-> "consoleAPICall", of |-> 0])
    /\ UNCHANGED <<socket, attached, unanswered, evaluating, pending, call, sent, answers>>

RdpNext == Connect \/ Eval \/ Request \/ WaitKept \/ WaitRead \/ Timeout \/ Closed
           \/ Reply \/ Finish \/ ConsoleLogs
RdpSpec == RdpInit /\ [][RdpNext]_session

(* No call is ever handed the packet of another call: what answers a       *)
(* request, and what an evaluation returns, is of that very request, after *)
(* any number of calls that were given up, rejected or overtaken by other  *)
(* packets (RDPConnection's docstring: a call that evaluated 222 returned  *)
(* 111).                                                                   *)
OwnAnswers == \A i \in 1..Requests : answers[i] \subseteq {i}
=============================================================================
