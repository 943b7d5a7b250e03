------------------------------ MODULE LiftedCall ------------------------------
(***************************************************************************)
(* A lifted function at run time: the client stub that codegen writes into *)
(* the host (client.go, adapter_client.go), the extracted server it calls  *)
(* (server.go), and the network between them.                              *)
(*                                                                         *)
(* The stub tests its switch, prepares the request, posts it with a time   *)
(* limit of 30 seconds and, when anything goes wrong, either runs the      *)
(* original function (fail-open, the default) or gives up (fail-closed,    *)
(* what the generated Deployment sets).  The server decodes, runs the      *)
(* function, records the invocation and answers.  It may crash and be      *)
(* restarted at any point; a handler whose client has gone runs on.        *)
(***************************************************************************)
EXTENDS Integers, Sequences, FiniteSets

CONSTANTS
    Calls,         \* calls the host makes, concurrently
    HistoryLimit,  \* invocationHistoryLimit
    MaxCrashes     \* bound: crashes of the extracted server

ASSUME LiftedCallAssumption ==
    /\ IsFiniteSet(Calls)
    /\ HistoryLimit \in Nat \ {0}
    /\ MaxCrashes \in Nat

\* What the plan made of the function's parameters: serialized as they are,
\* a stream read into bytes, or a multipart file opened by an adapter.
Wrappers == {"plain", "stream", "adapter"}

\* small: goes through; unreadable: reading it fails or it is over the payload
\* limit; unencodable: JSON refuses it; invalid: the server's validation does.
Payloads == {"small", "unreadable", "unencodable", "invalid"}

\* How one execution of the function may end.  emptyError is an error whose
\* text is empty, unencodable a result JSON refuses.
Outcomes == {"ok", "appError", "emptyError", "unencodable", "panic"}

VARIABLES
    enabled,   \* MONOLIFT_LIFT_<SERVICE> = on
    closed,    \* MONOLIFT_LIFT_FAILMODE = closed
    wrapper,   \* which stub was generated
    fallible,  \* the function has an error result
    pc,        \* control point of each call
    payload,   \* argument of each call
    drained,   \* the stub has read the call's stream
    answer,    \* what the caller got, and from whom
    up,        \* the server is running
    wire,      \* calls whose request is on its way
    handler,   \* the server's handler of each call
    reply,     \* reply on its way to each call
    count,     \* invocationRecorder.count
    records,   \* invocationRecorder.records
    crashes,   \* crashes so far
    ran,       \* executions of each call, by place (history)
    outcome,   \* how the remote execution of each call ended (history)
    era        \* crashes when a call was recorded, -1 for never (history)

config  == <<enabled, closed, wrapper, fallible>>
client  == <<pc, payload, drained, answer>>
recorder == <<count, records, era>>
vars == <<config, client, up, wire, handler, reply, recorder, crashes, ran, outcome>>

NoAnswer == [from |-> "nobody", what |-> "nothing"]

Labels        == {"idle", "prepare", "send", "wait", "failed", "local", "done"}
Answers       == [from : {"nobody", "remote", "local", "stub"},
                  what : Outcomes \cup {"nothing", "own", "error", "zero"}]
HandlerStates == {"none", "running", "executed", "recorded"}
Replies       == {"none", "bad", "ok", "appError", "emptyError"}

\* A function without an error result does not end in an error.
MayEnd == IF fallible THEN Outcomes ELSE Outcomes \ {"appError", "emptyError"}

TypeOK ==
    /\ enabled \in BOOLEAN /\ closed \in BOOLEAN /\ fallible \in BOOLEAN
    /\ wrapper \in Wrappers
    /\ pc \in [Calls -> Labels]
    /\ payload \in [Calls -> Payloads]
    /\ drained \in [Calls -> BOOLEAN]
    /\ answer \in [Calls -> Answers]
    /\ up \in BOOLEAN
    /\ wire \subseteq Calls
    /\ handler \in [Calls -> HandlerStates]
    /\ reply \in [Calls -> Replies]
    /\ count \in Nat /\ records \in Seq([id : Nat, call : Calls])
    /\ crashes \in 0..MaxCrashes
    /\ ran \in [Calls -> [remote : Nat, local : Nat]]
    /\ outcome \in [Calls -> Outcomes \cup {"nothing"}]
    /\ era \in [Calls -> {-1} \cup Nat]

Init ==
    /\ enabled \in BOOLEAN /\ closed \in BOOLEAN
    /\ wrapper \in Wrappers
    /\ fallible \in BOOLEAN /\ (wrapper = "adapter" => fallible)
    /\ pc = [c \in Calls |-> "idle"]
    /\ payload = [c \in Calls |-> "small"]
    /\ drained = [c \in Calls |-> FALSE]
    /\ answer = [c \in Calls |-> NoAnswer]
    /\ up = TRUE /\ wire = {}
    /\ handler = [c \in Calls |-> "none"]
    /\ reply = [c \in Calls |-> "none"]
    /\ count = 0 /\ records = <<>> /\ crashes = 0
    /\ ran = [c \in Calls |-> [remote |-> 0, local |-> 0]]
    /\ outcome = [c \in Calls |-> "nothing"]
    /\ era = [c \in Calls |-> -1]

-------------------------------------------------------------------------------
(* The stub.                                                                 *)

Goto(c, label) == pc' = [pc EXCEPT ![c] = label]
Answering(c, from, what) ==
    /\ Goto(c, "done")
    /\ answer' = [answer EXCEPT ![c] = [from |-> from, what |-> what]]

outside == <<config, up, handler, recorder, crashes, outcome>>

\* The caller calls the stub with p.  With the switch off the original runs.
Invoke(c, p) ==
    /\ pc[c] = "idle"
    /\ p = "unreadable" => wrapper # "plain"
    /\ payload' = [payload EXCEPT ![c] = p]
    /\ Goto(c, IF enabled THEN "prepare" ELSE "local")
    /\ UNCHANGED <<outside, drained, answer, wire, reply, ran>>

\* The adapter opens the uploaded file and reads it.  Failures are the stub's
\* own and go straight to the caller.
Extract(c) ==
    /\ pc[c] = "prepare" /\ wrapper = "adapter"
    /\ IF payload[c] = "unreadable" THEN Answering(c, "stub", "error")
       ELSE /\ Goto(c, IF payload[c] = "unencodable" THEN "failed" ELSE "send")
            /\ UNCHANGED answer
    /\ UNCHANGED <<outside, payload, drained, wire, reply, ran>>

\* The other stubs read streams to the end, then encode.  Failures count as
\* transport errors.
Unpostable(c) == payload[c] \in {"unreadable", "unencodable"}

Encode(c) ==
    /\ pc[c] = "prepare" /\ wrapper # "adapter"
    /\ drained' = [drained EXCEPT ![c] = wrapper = "stream"]
    /\ Goto(c, IF Unpostable(c) THEN "failed" ELSE "send")
    /\ UNCHANGED <<outside, payload, answer, wire, reply, ran>>

\* The request leaves, or nobody listens at the endpoint.
Post(c) ==
    /\ pc[c] = "send"
    /\ IF up THEN Goto(c, "wait") /\ wire' = wire \cup {c}
       ELSE Goto(c, "failed") /\ UNCHANGED wire
    /\ UNCHANGED <<outside, payload, drained, answer, reply, ran>>

\* Mutant: the client has no time limit.
GiveUpWhenDown(c) ==
    /\ pc[c] = "wait" /\ ~up
    /\ Goto(c, "failed")
    /\ UNCHANGED <<outside, payload, drained, answer, wire, reply, ran>>

\* Thirty seconds have passed or the connection broke.  The request may or may
\* not have reached the server.
GiveUp(c) ==
    /\ pc[c] = "wait"
    /\ Goto(c, "failed")
    /\ wire' \in {wire, wire \ {c}}
    /\ UNCHANGED <<outside, payload, drained, answer, reply, ran>>

\* An error travels as its text; no text means no error.
Decoded(r) == IF r = "emptyError" THEN "ok" ELSE r

\* Mutant: the status of the response is not checked.
ReceiveUnchecked(c) ==
    /\ pc[c] = "wait" /\ reply[c] # "none"
    /\ Answering(c, "remote", Decoded(reply[c]))
    /\ reply' = [reply EXCEPT ![c] = "none"]
    /\ UNCHANGED <<outside, payload, drained, wire, ran>>

Receive(c) ==
    /\ pc[c] = "wait" /\ reply[c] # "none"
    /\ IF reply[c] = "bad" THEN Goto(c, "failed") /\ UNCHANGED answer
       ELSE Answering(c, "remote", Decoded(reply[c]))
    /\ reply' = [reply EXCEPT ![c] = "none"]
    /\ UNCHANGED <<outside, payload, drained, wire, ran>>

\* Mutant: the fail mode is not consulted.
FailOpenAlways(c) ==
    /\ pc[c] = "failed"
    /\ Goto(c, "local")
    /\ UNCHANGED <<outside, payload, drained, answer, wire, reply, ran>>

\* A transport error: fail closed with an error or, when the function has no
\* error result, with zero values; or fall back.
Fail(c) ==
    /\ pc[c] = "failed"
    /\ IF closed THEN Answering(c, "stub", IF fallible THEN "error" ELSE "zero")
       ELSE Goto(c, "local") /\ UNCHANGED answer
    /\ UNCHANGED <<outside, payload, drained, wire, reply, ran>>

\* The original function runs in the host; its outcome is the caller's.
RunLocal(c) ==
    /\ pc[c] = "local"
    /\ Answering(c, "local", "own")
    /\ ran' = [ran EXCEPT ![c].local = @ + 1]
    /\ UNCHANGED <<outside, payload, drained, wire, reply>>

-------------------------------------------------------------------------------
(* The extracted server.                                                     *)

inHost == <<config, client>>
Handling(c, label) == handler' = [handler EXCEPT ![c] = label]
\* A reply reaches the client unless the client has gone.
Replying(c, r) == reply' = [reply EXCEPT ![c] = IF pc[c] = "wait" THEN r ELSE "none"]

\* The handler decodes and validates the request.
Accept(c) ==
    /\ up /\ c \in wire
    /\ wire' = wire \ {c}
    /\ IF payload[c] = "invalid" THEN Replying(c, "bad") /\ UNCHANGED handler
       ELSE Handling(c, "running") /\ UNCHANGED reply
    /\ UNCHANGED <<inHost, up, recorder, crashes, ran, outcome>>

\* The function runs.  net/http recovers a panic and drops the connection.
Execute(c, o) ==
    /\ handler[c] = "running" /\ o \in MayEnd
    /\ ran' = [ran EXCEPT ![c].remote = @ + 1]
    /\ outcome' = [outcome EXCEPT ![c] = o]
    /\ IF o = "panic" THEN Handling(c, "none") /\ Replying(c, "bad")
       ELSE Handling(c, "executed") /\ UNCHANGED reply
    /\ UNCHANGED <<inHost, up, wire, recorder, crashes>>

Window(rs) == IF Len(rs) > HistoryLimit
              THEN SubSeq(rs, Len(rs) - HistoryLimit + 1, Len(rs)) ELSE rs

\* invocationRecorder.record, under its mutex.
RecordCall(c) ==
    /\ handler[c] = "executed"
    /\ count' = count + 1
    /\ records' = Window(Append(records, [id |-> count + 1, call |-> c]))
    /\ era' = [era EXCEPT ![c] = crashes]
    /\ Handling(c, "recorded")
    /\ UNCHANGED <<inHost, up, wire, reply, crashes, ran, outcome>>

\* The reply is encoded; when that fails the client gets an empty body.
Respond(c) ==
    /\ handler[c] = "recorded"
    /\ Handling(c, "none")
    /\ Replying(c, IF outcome[c] = "unencodable" THEN "bad" ELSE outcome[c])
    /\ UNCHANGED <<inHost, up, wire, recorder, crashes, ran, outcome>>

\* The process dies with its handlers, its connections and its history.
Crash ==
    /\ up /\ crashes < MaxCrashes
    /\ up' = FALSE /\ crashes' = crashes + 1
    /\ wire' = {}
    /\ handler' = [c \in Calls |-> "none"]
    /\ UNCHANGED <<inHost, reply, recorder, ran, outcome>>

\* A new process starts with an empty history.
Start ==
    /\ ~up /\ up' = TRUE
    /\ count' = 0 /\ records' = <<>>
    /\ UNCHANGED <<inHost, wire, handler, reply, crashes, ran, outcome, era>>

-------------------------------------------------------------------------------
StubStep(c) ==
    \/ Extract(c) \/ Encode(c) \/ Post(c) \/ GiveUp(c) \/ Receive(c) \/ Fail(c)
    \/ RunLocal(c)

ServerStep(c) ==
    \/ Accept(c) \/ RecordCall(c) \/ Respond(c)
    \/ \E o \in Outcomes : Execute(c, o)

Next ==
    \/ \E c \in Calls, p \in Payloads : Invoke(c, p)
    \/ \E c \in Calls : StubStep(c)
    \/ \E c \in Calls : ServerStep(c)
    \/ Crash
    \/ Start

Spec == Init /\ [][Next]_vars

\* The stub is straight-line code whose only wait has a time limit.  Nothing is
\* assumed of the server or the network.
FairSpec == Spec /\ \A c \in Calls : WF_vars(StubStep(c))

-------------------------------------------------------------------------------
(* Properties.                                                               *)

\* In fail-closed mode a lifted call runs at most once and never in the host,
\* whatever the time limit, the crashes and the late handlers do: the stub
\* posts once and nothing repeats a request.
AtMostOnceClosed ==
    (enabled /\ closed) => \A c \in Calls : ran[c].remote <= 1 /\ ran[c].local = 0

\* In fail-open mode a call may run twice, once on each side, never more; and
\* when it has run twice the caller holds the answer of the later, local run.
TwiceAtMostOpen ==
    \A c \in Calls :
        /\ ran[c].remote <= 1 /\ ran[c].local <= 1
        /\ ran[c].local = 1 => answer[c].from = "local"

\* A remote answer is the outcome of this call's own execution (but an error
\* without a text comes back as success), and a call that is answered with
\* the stub's error never ran in the host.
AnswersAreEarned ==
    \A c \in Calls :
        /\ answer[c].from = "remote" =>
              ran[c].remote = 1 /\ answer[c].what = Decoded(outcome[c])
        /\ answer[c].from = "stub" => ran[c].local = 0

\* The history served under /invocations is the last HistoryLimit invocations
\* of this process, in order, without a gap, ending at the count served under
\* /calls, with handlers recording concurrently.
HistoryIsLastWindow ==
    up => /\ Len(records) = IF count < HistoryLimit THEN count ELSE HistoryLimit
          /\ \A i \in 1..Len(records) : records[i].id = count - Len(records) + i

\* The calls this process has recorded.
Recorded == {c \in Calls : era[c] = crashes}

\* The count is exact: every invocation the running process recorded, once, and
\* every answer a caller holds was counted before it got it.  The e2e harness
\* compares /calls before and after a request and relies on both.
AnswersAreCounted ==
    /\ up => count = Cardinality(Recorded)
    /\ \A c \in Calls : answer[c].from = "remote" => era[c] # -1

\* A service that is down does not change what the function computes: when the
\* stub falls back, the original reads the input the caller passed, not a
\* stream the stub has already read to its end.
FallbackSeesInput ==
    \A c \in Calls :
        (answer[c].from = "local" /\ payload[c] = "small") => ~drained[c]

\* Every call returns to its caller, also when the server never answers.
CallsReturn == \A c \in Calls : (pc[c] # "idle") ~> (pc[c] = "done")
===============================================================================
