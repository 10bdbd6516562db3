---------------------------- MODULE ControlServer ----------------------------
(***************************************************************************)
(* The control server between the TCP port and the experiment task:        *)
(* sonar_control_server.c over the service of ControlService. One          *)
(* connection at a time; a request travels through a queue to the          *)
(* experiment task, which polls it once per loop, and the answer through a *)
(* second queue back. The server waits until a test finds RPC_MS over, so  *)
(* requests and answers outlive the call and the connection they belong    *)
(* to. Between two polls the experiment task runs what was applied.        *)
(*                                                                         *)
(* Ages stand for the time stamps and stop at RPC_MS; how far a receive    *)
(* goes on beyond it (20 ms) makes no difference. A poll is one step: the  *)
(* experiment task has a higher priority than the server on the only core. *)
(***************************************************************************)
EXTENDS ControlService

CONSTANTS
  RpcTicks,                     \* RPC_MS
  QueueLength,                  \* of `requests` and of `responses`
  MaxToken                      \* UINT32_MAX; the last session is Sessions'

ASSUME ServerAssumption ==
  /\ RpcTicks \in Nat \ {0} /\ QueueLength \in Nat \ {0} /\ MaxToken \in Nat
  /\ \A s \in Sessions : s \in Nat \ {0} /\ (s = 1 \/ s - 1 \in Sessions)

VARIABLES
  requests, responses,          \* the two queues
  session, token,
  phase,                        \* where the server task is
  current, age,                 \* the request of rpc, time since submitted
  answer,                       \* what rpc or the check of the CRC gave
  executed,                     \* history: what was done for `current`
  given_up                      \* history: still queued, client told TIMEOUT

queueVars == <<requests, responses>>
taskVars == <<session, token, phase, current, age, answer>>
historyVars == <<executed, given_up>>
vars == <<serviceVars, queueVars, taskVars, historyVars>>

NoRequest == [op |-> "NONE"]
EndRequest == [op |-> "END_SESSION"]
Call == [session |-> session, token |-> token]

ServerInit ==
  /\ Init
  /\ requests = <<>> /\ responses = <<>>
  /\ session = 0 /\ token = 0 /\ phase = "ACCEPT"
  /\ current = NoRequest /\ age = 0 /\ answer = "OK"
  /\ executed = {} /\ given_up = {}

-----------------------------------------------------------------------------
(* sonar_control_poll, once per loop of the experiment task. A request     *)
(* whose client has been told TIMEOUT is not carried out; END_SESSION is,  *)
(* however late it comes. A full response queue loses its oldest answer.   *)

(* Variant with a bug: the age of a request does not matter.               *)
Forever(q) == FALSE

(* Variant with a bug: END_SESSION is given up like any other request.     *)
EndTooOld(q) == q.age >= RpcTicks

TooOld(q) == q.request.op # "END_SESSION" /\ q.age >= RpcTicks

Answered(q, r) ==
  LET a == [call |-> q.call, result |-> r]
  IN Append(IF Len(responses) < QueueLength THEN responses ELSE Tail(responses),
            a)

(* Variant with a bug: the answer to the same number of any connection.    *)
SameToken(call) == call.token = token

Mine(call) == call = Call

Poll(mutable) ==
  /\ requests # <<>>
  /\ LET q == Head(requests)
     IN \/ /\ TooOld(q)
           /\ responses' = Answered(q, "TIMEOUT")
           /\ UNCHANGED <<serviceVars, executed>>
        \/ /\ ~TooOld(q)
           /\ \E r \in Results :
                /\ Command(q.call.session, q.request, mutable, r)
                /\ responses' = Answered(q, r)
                /\ executed' = IF Mine(q.call)
                                THEN executed \cup {<<q.request, r>>}
                                ELSE executed
  /\ requests' = Tail(requests) /\ given_up' = given_up \ {Head(requests).call}
  /\ UNCHANGED taskVars

-----------------------------------------------------------------------------
(* The server task *)

server(next) == phase' = next /\ UNCHANGED <<serviceVars, given_up>>

(* A new connection; none after the last session number.                   *)
Accept ==
  /\ phase = "ACCEPT" /\ session + 1 \in Sessions
  /\ session' = session + 1 /\ token' = 0
  /\ server("RECEIVE") /\ UNCHANGED <<queueVars, current, age, answer, executed>>

(* A request of the client; one that is damaged is answered at once.       *)
Receive(q) ==
  /\ phase = "RECEIVE" /\ token < MaxToken
  /\ q.op # "END_SESSION"
  /\ token' = token + 1 /\ current' = q /\ executed' = {}
  /\ \/ server("SEND") /\ age' = 0 /\ UNCHANGED answer
     \/ server("RESPOND") /\ answer' = "CHECKSUM" /\ UNCHANGED age
  /\ UNCHANGED <<queueVars, session>>

(* The start of rpc with END_SESSION, of which nobody reads the answer. Its *)
(* token is the only one that may wrap.                                     *)
StartCleanup ==
  /\ token' = (token + 1) % (MaxToken + 1) /\ current' = EndRequest /\ age' = 0
  /\ executed' = {}

(* The connection ends: closed by the client, a slow or broken transfer, a *)
(* malformed header, a request number that does not rise.                  *)
Disconnect ==
  /\ phase \in {"RECEIVE", "RESPOND"}
  /\ server("SEND") /\ StartCleanup
  /\ UNCHANGED <<queueVars, session, answer>>

(* rpc: the request is queued, if there is room within RPC_MS.             *)
Submit ==
  /\ phase = "SEND" /\ Len(requests) < QueueLength
  /\ requests' = Append(requests, [call |-> Call, request |-> current, age |-> age])
  /\ server("TEST")
  /\ UNCHANGED <<responses, session, token, current, age, answer, executed>>

(* rpc: the deadline is tested before each receive, not after it.          *)
TestDeadline ==
  /\ phase = "TEST" /\ age < RpcTicks /\ server("WAIT")
  /\ UNCHANGED <<queueVars, session, token, current, age, answer, executed>>

(* rpc: an answer that is not to this request is dropped. One that is may  *)
(* come after the deadline, the TIMEOUT of the poll included.              *)
TakeAnswer ==
  /\ phase = "WAIT" /\ responses # <<>>
  /\ responses' = Tail(responses)
  /\ LET a == Head(responses)
     IN \/ /\ ~Mine(a.call)
           /\ server("TEST") /\ UNCHANGED answer
        \/ /\ Mine(a.call) /\ answer' = a.result
           /\ server(IF current = EndRequest THEN "ACCEPT" ELSE "RESPOND")
  /\ UNCHANGED <<requests, session, token, current, age, executed>>

(* rpc: no answer within this receive.                                     *)
NothingCame ==
  /\ phase = "WAIT" /\ responses = <<>> /\ server("TEST")
  /\ UNCHANGED <<queueVars, session, token, current, age, answer, executed>>

(* rpc gives up. A client is told TIMEOUT and the connection ends.         *)
GiveUp ==
  /\ age >= RpcTicks
  /\ phase = "TEST" \/ (phase = "SEND" /\ Len(requests) = QueueLength)
  /\ UNCHANGED <<serviceVars, queueVars, session, answer>>
  /\ \/ /\ current = EndRequest /\ phase' = "ACCEPT"
        /\ UNCHANGED <<given_up, token, current, age, executed>>
     \/ /\ current # EndRequest /\ phase' = "SEND" /\ StartCleanup
        /\ given_up' = IF \E i \in 1 .. Len(requests) : Mine(requests[i].call)
                       THEN given_up \cup {Call} ELSE given_up

Respond ==
  /\ phase = "RESPOND"
  /\ server("RECEIVE")
  /\ UNCHANGED <<queueVars, session, token, current, age, answer, executed>>

(* Time passes for the call under way and for every queued request.        *)
Tick ==
  /\ \/ phase \in {"SEND", "TEST", "WAIT"} /\ age < RpcTicks
     \/ \E i \in 1 .. Len(requests) : requests[i].age < RpcTicks
  /\ age' = IF age < RpcTicks THEN age + 1 ELSE age
  /\ requests' = [i \in 1 .. Len(requests) |->
       [requests[i] EXCEPT !.age = IF @ < RpcTicks THEN @ + 1 ELSE @]]
  /\ UNCHANGED <<serviceVars, historyVars, responses, session, token, phase,
                 current, answer>>

ServerTask ==
  \/ Accept \/ Disconnect \/ Submit \/ TestDeadline \/ TakeAnswer \/ NothingCame
  \/ GiveUp \/ Respond
  \/ \E q \in Requests : Receive(q)

ExperimentTask == \E mutable \in BOOLEAN : Poll(mutable)

(* The rest of the loop of the experiment task.                            *)
RunStep ==
  /\ StartRun \/ Transmit \/ TransmissionEnds \/ TransmissionLate \/ EndRun
  /\ UNCHANGED <<queueVars, taskVars, historyVars>>

ServerNext == ServerTask \/ ExperimentTask \/ RunStep \/ Tick

(* The experiment task polls once per loop and the server task is never    *)
(* kept from a step for ever; whether clients come is up to them.          *)
ServerSpec ==
  /\ ServerInit /\ [][ServerNext]_vars
  /\ WF_vars(ExperimentTask) /\ WF_vars(Tick)
  /\ WF_vars(Submit \/ TestDeadline \/ TakeAnswer \/ NothingCame \/ GiveUp)

-----------------------------------------------------------------------------
(* Properties *)

Live(s) == s = session /\ phase # "ACCEPT"

(* What is staged or uploads is that of a closed connection.               *)
Orphaned == owner # None /\ ~Live(owner)

CleanupQueued(s) ==
  \E i \in 1 .. Len(requests) :
    requests[i].call.session = s /\ requests[i].request = EndRequest

(* What a client reads as the answer to its request is the result of       *)
(* carrying out that request, or tells it that nothing was carried out,    *)
(* although answers to requests of earlier calls and connections may still *)
(* be on their way and an answer may come after the deadline.              *)
AnswerIsOwn ==
  phase = "RESPOND" =>
    \/ <<current, answer>> \in executed
    \/ answer \in {"CHECKSUM", "TIMEOUT"} /\ executed = {}

(* A request whose client has been told that it timed out changes nothing  *)
(* when the experiment task takes it from the queue.                       *)
NotAfterTimeout ==
  [][requests # <<>> /\ requests' = Tail(requests)
       /\ Head(requests).call \in given_up
       => UNCHANGED serviceVars]_vars

(* A connection that is gone leaves nothing behind for the next: what it   *)
(* staged or uploads is still its own, and its END_SESSION is queued. The  *)
(* server sends END_SESSION only once and gives up when the queue is full, *)
(* but then no request of the connection can still run.                    *)
NothingInherited ==
  /\ Orphaned => CleanupQueued(owner)
  /\ owner = None => ~staged /\ ~wave.uploading

(* What a closed connection holds is set free.                             *)
Released == Orphaned ~> ~Orphaned
=============================================================================
