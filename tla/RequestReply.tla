---------------------------- MODULE RequestReply ----------------------------
(* One agent behind HttpxAgentClient, with the flag that moves its calls    *)
(* from HTTP to data_bus/request_reply.py: what the caller, and so the      *)
(* circuit breaker, makes of a call against what the agent did with it.     *)
(* NATS and HTTP carry, lose and delay; a local handler runs in the         *)
(* caller's process (tests and dev).                                        *)
CONSTANTS
    RemoteCalls,  \* calls of the behaviour
    LocalCalls    \* those to a subject with a handler in this process

VARIABLES
    overNats,  \* the flag orchestrator.use_nats_for_agent_calls
    route,     \* route[c]: none, http, nats or local
    caller,    \* caller[c]: idle, waiting, success or failure, as the breaker counts it
    handler,   \* handler[c]: none, queued, running, done, raised or stopped
    reply      \* reply[c]: none, answer or error, on its way to the caller's inbox

replyVars == <<overNats, route, caller, handler, reply>>

ReplyInit ==
    /\ overNats = FALSE  \* the registry's default
    /\ route = [c \in RemoteCalls |-> "none"]
    /\ caller = [c \in RemoteCalls |-> "idle"]
    /\ handler = [c \in RemoteCalls |-> "none"]
    /\ reply = [c \in RemoteCalls |-> "none"]

\* _should_use_nats and nats_call: a local handler first, NATS otherwise; a connection that
\* fails, or IIC_NATS_REQUEST_REPLY_DISABLED, raises before anything is sent.
CallAgent(c) ==
    /\ caller[c] = "idle"
    /\ route' = [route EXCEPT ![c] =
           IF ~overNats THEN "http" ELSE IF c \in LocalCalls THEN "local" ELSE "nats"]
    /\ \/ /\ caller' = [caller EXCEPT ![c] = "waiting"]
          /\ handler' = [handler EXCEPT ![c] = IF route'[c] = "local" THEN "running" ELSE "queued"]
       \/ /\ route'[c] # "local"
          /\ caller' = [caller EXCEPT ![c] = "failure"]
          /\ UNCHANGED handler
    /\ UNCHANGED <<overNats, reply>>

\* The agent takes the request, however late.
Deliver(c) ==
    /\ handler[c] = "queued"
    /\ handler' = [handler EXCEPT ![c] = "running"]
    /\ UNCHANGED <<overNats, route, caller, reply>>

\* The handler returns: a local one to its caller, another one with a message, if its result
\* can be serialised at all: in _on_msg that happens outside the try.
HandlerReturns(c) ==
    /\ handler[c] = "running"
    /\ handler' = [handler EXCEPT ![c] = "done"]
    /\ IF route[c] = "local"
       THEN caller' = [caller EXCEPT ![c] = "success"] /\ UNCHANGED reply
       ELSE /\ \/ reply' = [reply EXCEPT ![c] = "answer"]
               \/ route[c] = "nats" /\ UNCHANGED reply
               \/ route[c] = "http" /\ reply' = [reply EXCEPT ![c] = "error"]
            /\ UNCHANGED caller
    /\ UNCHANGED <<overNats, route>>

\* It raises: over HTTP a 500, over NATS a reply with the key _error.
HandlerRaises(c) ==
    /\ handler[c] = "running"
    /\ handler' = [handler EXCEPT ![c] = "raised"]
    /\ IF route[c] = "local"
       THEN caller' = [caller EXCEPT ![c] = "failure"] /\ UNCHANGED reply
       ELSE reply' = [reply EXCEPT ![c] = "error"] /\ UNCHANGED caller
    /\ UNCHANGED <<overNats, route>>

\* The replies a waiting call may get: nats-py and HTTP give each call an inbox of its own.
\* Faulty variant: one inbox for the subject.
Inbox_Shared(c) == {d \in RemoteCalls : route[d] = route[c] /\ reply[d] # "none"}
Inbox(c) == {d \in RemoteCalls : d = c /\ reply[d] # "none"}

\* raise_for_status makes a failure of an HTTP error; nats_call returns whatever dict comes.
ReplyArrives(c) ==
    /\ caller[c] = "waiting"
    /\ \E d \in Inbox(c) :
          /\ caller' = [caller EXCEPT ![c] =
                 IF reply[d] = "error" /\ route[c] = "http" THEN "failure" ELSE "success"]
          /\ reply' = [reply EXCEPT ![d] = "none"]
    /\ UNCHANGED <<overNats, route, handler>>

\* The caller gives up; wait_for cancels a local handler, and nobody tells a remote one.
AfterGivingUp(c) == IF route[c] = "local" THEN [handler EXCEPT ![c] = "stopped"] ELSE handler

GiveUp(c) ==
    /\ caller[c] = "waiting"
    /\ caller' = [caller EXCEPT ![c] = "failure"]
    /\ handler' = AfterGivingUp(c)
    /\ UNCHANGED <<overNats, route, reply>>

\* The environment: a request or a reply is lost, or the agent dies at work.
LoseMessage(c) ==
    /\ \/ handler[c] \in {"queued", "running"} /\ route[c] # "local"
          /\ handler' = [handler EXCEPT ![c] = "stopped"] /\ UNCHANGED reply
       \/ reply[c] # "none" /\ reply' = [reply EXCEPT ![c] = "none"] /\ UNCHANGED handler
    /\ UNCHANGED <<overNats, route, caller>>

FlipFlag == overNats' = ~overNats /\ UNCHANGED <<route, caller, handler, reply>>

ReplyNext ==
    \/ \E c \in RemoteCalls :
          \/ CallAgent(c) \/ Deliver(c) \/ HandlerReturns(c) \/ HandlerRaises(c)
          \/ ReplyArrives(c) \/ GiveUp(c) \/ LoseMessage(c)
    \/ FlipFlag

ReplySpec == ReplyInit /\ [][ReplyNext]_replyVars

-----------------------------------------------------------------------------
\* What the breaker counts against what the agent did: a success was handled to the end,
\* unless the handler raised over NATS (request_reply.py:130-134), whose _error nobody reads,
\* so that with the flag on no exception of an agent ever opens its breaker; and after a
\* failure the agent may still do the work only when it is remote.
BreakerSeesTheAgent ==
    \A c \in RemoteCalls :
        /\ caller[c] = "success" => (handler[c] = "done" \/ (handler[c] = "raised" /\ route[c] = "nats"))
        /\ (caller[c] = "failure" /\ route[c] = "local") => handler[c] \in {"raised", "stopped"}
=============================================================================
