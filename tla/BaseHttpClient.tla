---------------------------- MODULE BaseHttpClient ----------------------------
(***************************************************************************)
(* One HTTP(S) client of net/http: BaseHttpClient with HttpClient (Https   *)
(* is FALSE) or HttpsClient (Https is TRUE) below it.                      *)
(*                                                                         *)
(* The client runs on the thread of its io_context: a call of Get, Post or *)
(* Close and each completion handler on_* is one step, up to the point     *)
(* where it starts the next asynchronous operation.  The handler of an     *)
(* operation gets any result.  A handler that answers a request calls the  *)
(* user's callback in the middle of the step, and the callback may call    *)
(* Get, Post and Close on the same client and drop the owner's reference.  *)
(*                                                                         *)
(* A request is a name.  The stream is the connection's state and the      *)
(* answers that are on their way over it; a body is the sequence of the    *)
(* requests whose answers it was put together from, because the library    *)
(* appends what it reads to the body it is given.                          *)
(***************************************************************************)
EXTENDS Integers, Sequences

CONSTANTS
  Requests, NoReq,   \* the requests ever made; no request
  Silent,            \* the requests made without a callback
  Owning,            \* the requests whose callback holds a reference to the client
  MaxRetryTimes,     \* maxRetryTimes_
  Https              \* whether handshake() is asynchronous

ASSUME ClientAssumption ==
  /\ NoReq \notin Requests
  /\ Silent \subseteq Requests /\ Owning \subseteq Requests \ Silent
  /\ MaxRetryTimes \in Nat
  /\ Https \in BOOLEAN

VARIABLES
  pendingRequests_, request_, response_, buffer_,
  retriedTimes_, closed_, connected_,
  op,       \* the asynchronous operation under way, "none" if there is none
  stream,   \* stream_: open or not, and the answers on their way over it
  held,     \* whether the owner still has its reference to the client
  dead,     \* whether the client has been destroyed
  asked,    \* history: the requests in the order of Get and Post
  done,     \* history: the requests in the order they were answered
  answer,   \* history: what the callback of each request was called with
  sends     \* history: how often each request was given to an open stream

queueVars == <<pendingRequests_, asked, done, answer, response_>>
lifeVars  == <<closed_, held, dead>>
netVars   == <<connected_, buffer_, stream, sends>>
vars == <<queueVars, lifeVars, netVars, request_, retriedTimes_, op>>

Errors       == {"fail", "canceled"}
NoAnswer     == [ec |-> "none", body |-> <<>>]
Closed       == [open |-> FALSE, wire |-> <<>>]
Opened       == [open |-> TRUE, wire |-> <<>>]
InSeq(r, s)  == \E i \in DOMAIN s : s[i] = r

TypeOK ==
  /\ pendingRequests_ \in Seq(Requests)
  /\ request_ \in Requests \cup {NoReq} /\ buffer_ \in Requests \cup {NoReq}
  /\ response_ \in Seq(Requests)
  /\ retriedTimes_ \in 0..MaxRetryTimes
  /\ op \in {"none", "resolve", "connect", "handshake", "send", "read"}
  /\ closed_ \in BOOLEAN /\ connected_ \in BOOLEAN
  /\ held \in BOOLEAN /\ dead \in BOOLEAN
  /\ stream \in [open : BOOLEAN, wire : Seq(Requests)]
  /\ asked \in Seq(Requests) /\ done \in Seq(Requests)
  /\ answer \in [Requests -> [ec : {"none", "ok"} \cup Errors, body : Seq(Requests)]]
  /\ sends \in [Requests -> Nat]

Init ==
  /\ pendingRequests_ = <<>> /\ request_ = NoReq
  /\ response_ = <<>> /\ buffer_ = NoReq
  /\ retriedTimes_ = 0 /\ closed_ = FALSE /\ connected_ = FALSE
  /\ op = "none" /\ stream = Closed
  /\ held = TRUE /\ dead = FALSE
  /\ asked = <<>> /\ done = <<>>
  /\ answer = [r \in Requests |-> NoAnswer]
  /\ sends = [r \in Requests |-> 0]
-----------------------------------------------------------------------------
(* send_request over a stream in state s, and do_request of a client whose *)
(* connected_ is conn.                                                     *)
SendRequest(r, s) ==
  /\ op' = "send"
  /\ stream' = IF s.open THEN [s EXCEPT !.wire = Append(@, r)] ELSE s
  /\ sends' = IF s.open THEN [sends EXCEPT ![r] = @ + 1] ELSE sends

Resolve(s) == op' = "resolve" /\ stream' = s /\ UNCHANGED sends

(* init_request: the one request_ of the client is filled anew.            *)
InitRequest(r) == request_' = r

DoRequest(r, s, conn) ==
  /\ retriedTimes_' = 0
  /\ InitRequest(r)
  /\ IF conn THEN SendRequest(r, s) ELSE Resolve(s)

(* A request_params with all that the call was given joins the queue.      *)
Enqueue(r) ==
  /\ asked' = Append(asked, r)
  /\ pendingRequests_' = Append(pendingRequests_, r)

(* Get and Post, that is, request(): only the first request of an empty    *)
(* queue starts at once.                                                   *)
Ask(r) ==
  /\ held /\ ~InSeq(r, asked)
  /\ Enqueue(r)
  /\ IF pendingRequests_ = <<>>
     THEN DoRequest(r, stream, connected_)
     ELSE UNCHANGED <<retriedTimes_, request_, op, stream, sends>>
  /\ UNCHANGED <<done, answer, response_, lifeVars, connected_, buffer_>>

(* Mutant: Close leaves the connection open.                               *)
MutClose ==
  /\ held /\ ~closed_
  /\ closed_' = TRUE
  /\ UNCHANGED <<queueVars, held, dead, netVars, request_, retriedTimes_, op>>

(* connected_ stays as it is.  The operation under way ends later, with an *)
(* error or with the result it already had.                                *)
Close ==
  /\ held /\ ~closed_
  /\ closed_' = TRUE
  /\ stream' = Closed
  /\ UNCHANGED <<queueVars, held, dead, connected_, buffer_, sends, request_, retriedTimes_, op>>

(* The handler of an operation and the callback of an Owning request in    *)
(* the queue keep the client alive.                                        *)
Owned(queue) == \E i \in DOMAIN queue : queue[i] \in Owning

(* What the destructor tells the requests in queue.                        *)
Cancel(ans, queue) ==
  [r \in Requests |-> IF InSeq(r, queue) /\ r \notin Silent
                      THEN [ec |-> "canceled", body |-> <<>>] ELSE ans[r]]

(* Mutant: the destructor frees the queue and calls nobody.                *)
MutRelease ==
  /\ held
  /\ held' = FALSE
  /\ IF op = "none" /\ ~Owned(pendingRequests_)
     THEN dead' = TRUE /\ pendingRequests_' = <<>>
     ELSE UNCHANGED <<dead, pendingRequests_>>
  /\ UNCHANGED <<asked, done, answer, response_, closed_, netVars, request_, retriedTimes_, op>>

(* The owner drops its reference; the last reference destroys the client.  *)
Release ==
  /\ held
  /\ held' = FALSE
  /\ IF op = "none" /\ ~Owned(pendingRequests_)
     THEN /\ dead' = TRUE
          /\ done' = done \o pendingRequests_
          /\ answer' = Cancel(answer, pendingRequests_)
          /\ pendingRequests_' = <<>>
     ELSE UNCHANGED <<dead, done, answer, pendingRequests_>>
  /\ UNCHANGED <<asked, response_, closed_, netVars, request_, retriedTimes_, op>>
-----------------------------------------------------------------------------
(* Mutant: the decision is taken before the callback.                      *)
MutStartsNext(rest, close) == Tail(pendingRequests_) # <<>> /\ ~closed_ /\ ~close

(* Whether response() starts the next request of the queue rest.           *)
StartsNext(rest, close) == rest # <<>> /\ ~closed_ /\ ~close

(* response(ec): the callback of the first request gets ec and the body,   *)
(* and may add a request, close the client and drop the owner's reference; *)
(* then the next request starts, unless the client is closed.  s and conn  *)
(* are what the handler has made of the stream and of connected_.          *)
Response(ec, body, s, conn) ==
  LET first == Head(pendingRequests_)
      told  == IF first \in Silent THEN answer
               ELSE [answer EXCEPT ![first] = [ec |-> ec, body |-> body]]
      Calls == IF first \in Silent THEN {<<>>}
               ELSE {<<>>} \cup {<<r>> : r \in {q \in Requests : ~InSeq(q, asked)}}
      May   == IF first \in Silent THEN {FALSE} ELSE BOOLEAN
  IN
  \E new \in Calls, close \in May, release \in May :
    LET rest == Tail(pendingRequests_) \o new
        s2   == IF close /\ ~closed_ THEN Closed ELSE s
        next == StartsNext(rest, close)
        last == ~next /\ (release \/ ~held) /\ ~Owned(rest)
    IN
    /\ asked' = asked \o new
    /\ closed_' = (closed_ \/ close)
    /\ held' = (held /\ ~release)
    /\ response_' = <<>>
    /\ dead' = last
    /\ pendingRequests_' = IF last THEN <<>> ELSE rest
    /\ done' = Append(done, first) \o (IF last THEN rest ELSE <<>>)
    /\ answer' = IF last THEN Cancel(told, rest) ELSE told
    /\ IF next
       THEN DoRequest(Head(rest), s2, conn)
       ELSE op' = "none" /\ stream' = s2 /\ UNCHANGED <<sends, retriedTimes_, request_>>

Canceled == Response("canceled", response_, stream, connected_) /\ UNCHANGED <<connected_, buffer_>>

(* Mutant: one attempt too many.                                           *)
MutCanRetry(ec) == ec # "canceled" /\ retriedTimes_ <= MaxRetryTimes

CanRetry(ec) == ec # "canceled" /\ retriedTimes_ < MaxRetryTimes

(* Mutant: the attempt is not counted.                                     *)
MutRetry(s, resp) ==
  /\ response_' = resp
  /\ Resolve(s)
  /\ UNCHANGED <<retriedTimes_, request_, pendingRequests_, asked, done, answer, lifeVars>>

Retry(s, resp) ==
  /\ retriedTimes_' = retriedTimes_ + 1
  /\ response_' = resp
  /\ Resolve(s)
  /\ UNCHANGED <<request_, pendingRequests_, asked, done, answer, lifeVars>>

(* The end of a handler that got an error: from resolve() again, or the    *)
(* callback.  ec.value() is compared without its category, so ec may be    *)
(* "canceled" on an open client too.                                       *)
Again(ec, s) ==
  \/ CanRetry(ec) /\ Retry(s, response_)
  \/ ~CanRetry(ec) /\ Response(ec, response_, s, connected_')

(* A handler that only goes on to the next operation.                      *)
GoOn(next) ==
  /\ op' = next
  /\ UNCHANGED <<queueVars, lifeVars, netVars, request_, retriedTimes_>>

OnResolve ==
  /\ op = "resolve"
  /\ \/ closed_ /\ Canceled
     \/ ~closed_ /\ GoOn("connect")
     \/ /\ ~closed_
        /\ UNCHANGED <<connected_, buffer_>>
        /\ \E ec \in Errors : Again(ec, stream)

OnHandshakeOk(s) ==
  /\ connected_' = TRUE
  /\ SendRequest(request_, s)
  /\ UNCHANGED <<queueVars, lifeVars, buffer_, request_, retriedTimes_>>

OnHandshakeError ==
  /\ UNCHANGED <<connected_, buffer_>>
  /\ \E ec \in Errors : Again(ec, Closed)

(* HttpClient::handshake calls on_handshake at once.  HttpsClient's starts *)
(* the handshake, or calls on_handshake with an error at once if it cannot *)
(* set the name of the host.                                               *)
OnConnect ==
  /\ op = "connect"
  /\ \/ closed_ /\ Canceled
     \/ ~closed_ /\ ~Https /\ OnHandshakeOk(Opened)
     \/ /\ ~closed_ /\ Https
        /\ op' = "handshake" /\ stream' = Opened
        /\ UNCHANGED <<queueVars, lifeVars, connected_, buffer_, sends, request_, retriedTimes_>>
     \/ ~closed_ /\ Https /\ OnHandshakeError
     \/ /\ ~closed_
        /\ UNCHANGED <<connected_, buffer_>>
        /\ \E ec \in Errors : Again(ec, stream)

OnHandshake ==
  /\ op = "handshake"
  /\ \/ closed_ /\ Canceled
     \/ ~closed_ /\ OnHandshakeOk(stream)
     \/ ~closed_ /\ OnHandshakeError

OnRequestSent ==
  /\ op = "send"
  /\ \/ closed_ /\ Canceled
     \/ ~closed_ /\ GoOn("read")
     \/ /\ ~closed_
        /\ connected_' = FALSE
        /\ UNCHANGED buffer_
        /\ \E ec \in Errors : Again(ec, Closed)

(* What async_read finds first: what an earlier read left in buffer_, then *)
(* what comes over the stream.                                             *)
Incoming == IF buffer_ # NoReq THEN <<buffer_>> \o stream.wire ELSE stream.wire

(* The client was closed; the read may have left a part of the answer, or  *)
(* all of it.                                                              *)
ReadClosed ==
  /\ closed_
  /\ \E part \in {NoReq, request_}, body \in {response_, Append(response_, request_)} :
       /\ buffer_' = part
       /\ Response("canceled", body, stream, connected_)
  /\ UNCHANGED connected_

(* The same request once more over the connection that stays open.         *)
Resend(s) ==
  /\ retriedTimes_' = retriedTimes_ + 1
  /\ response_' = <<>>
  /\ SendRequest(request_, s)
  /\ UNCHANGED <<request_, pendingRequests_, asked, done, answer, lifeVars>>

(* A response was read, with status 200 or not.                            *)
ReadOk ==
  /\ ~closed_ /\ Incoming # <<>>
  /\ \E keepAlive, ok \in BOOLEAN :
       LET body == Append(response_, Head(Incoming))
           s    == IF keepAlive THEN [stream EXCEPT !.wire = Tail(Incoming)] ELSE Closed
       IN
       /\ connected_' = (connected_ /\ keepAlive)
       /\ buffer_' = NoReq
       /\ \/ /\ ok \/ retriedTimes_ >= MaxRetryTimes
             /\ Response("ok", body, s, connected_')
          \/ /\ ~ok /\ retriedTimes_ < MaxRetryTimes
             /\ IF connected_' THEN Resend(s) ELSE Retry(s, <<>>)

(* Mutant: what was read of the answer stays in buffer_.                   *)
MutReadError ==
  /\ ~closed_
  /\ connected_' = FALSE
  /\ buffer_' \in {NoReq, request_}
  /\ \E ec \in Errors :
       \/ CanRetry(ec) /\ Retry(Closed, <<>>)
       \/ ~CanRetry(ec) /\ Response(ec, response_, Closed, FALSE)

(* The read failed or its time was up, perhaps in the middle of an answer. *)
ReadError ==
  /\ ~closed_
  /\ connected_' = FALSE
  /\ buffer_' = NoReq
  /\ \E ec \in Errors, body \in {response_, Append(response_, request_)} :
       \/ CanRetry(ec) /\ Retry(Closed, <<>>)
       \/ ~CanRetry(ec) /\ Response(ec, body, Closed, FALSE)

OnResponseRead == op = "read" /\ (ReadClosed \/ ReadOk \/ ReadError)

Handler == OnResolve \/ OnConnect \/ OnHandshake \/ OnRequestSent \/ OnResponseRead

Next == (\E r \in Requests : Ask(r)) \/ Close \/ Release \/ Handler

Spec == Init /\ [][Next]_vars

(* io_context::run calls the handler of every operation: the resolver ends *)
(* by itself, all others have a time limit (expires_after).                *)
FairSpec == Spec /\ WF_vars(Handler)
-----------------------------------------------------------------------------
(* Every request is answered at most once, in the order of the calls, and  *)
(* none is lost: what was asked is what was answered and then what is in   *)
(* the queue.  At stake: pop_front after the callback, the callback's own  *)
(* requests, and the callbacks the destructor calls.                       *)
AnsweredInOrder == done \o pendingRequests_ = asked

(* An open client with a request in the queue has an operation under way:  *)
(* no handler returns without starting the next operation or response().   *)
NeverStalled == pendingRequests_ # <<>> /\ ~closed_ => op # "none"

(* An operation under way is about the first request of the queue, and     *)
(* request_ is that request: a request made meanwhile does not touch it.   *)
InFlightIsFirst ==
  op # "none" => ~dead /\ pendingRequests_ # <<>> /\ request_ = Head(pendingRequests_)

(* A callback without an error gets the answer to its own request, all of  *)
(* it and nothing else: no late answer of an attempt given up, no bytes of *)
(* an earlier connection, no body of an earlier attempt.                   *)
AnswerIsOwn == \A r \in Requests : answer[r].ec = "ok" => answer[r].body = <<r>>

(* No request reaches the server more than maxRetryTimes_ + 1 times.       *)
AttemptsBounded == \A r \in Requests : sends[r] <= MaxRetryTimes + 1

(* After Close nothing is sent and no connection is begun, also for the    *)
(* requests that are made later.                                           *)
QuietAfterClose ==
  [][closed_ => sends' = sends /\ (op' \in {"connect", "handshake"} => op' = op)]_vars

(* A request is answered, unless the client was closed before its turn and *)
(* something still refers to the client: the destructor answers those.     *)
Abandoned == closed_ /\ op = "none" /\ (held \/ Owned(pendingRequests_))
EveryRequestAnswered ==
  \A r \in Requests : InSeq(r, asked) ~> (InSeq(r, done) \/ Abandoned)
-----------------------------------------------------------------------------
(* The inductive invariant behind these properties.                        *)

(* No request is made twice, so the queue tells its requests apart.        *)
Distinct == \A i, j \in 1..Len(asked) : i # j => asked[i] # asked[j]

(* The one answer on its way over an open client's stream is the one to    *)
(* the request being sent or read; buffer_ and response_ hold nothing.     *)
StreamSound ==
  /\ response_ = <<>>
  /\ closed_ => stream = Closed
  /\ ~closed_ =>
       /\ buffer_ = NoReq
       /\ IF op \in {"send", "read"} THEN stream.wire = <<request_>> ELSE stream.wire = <<>>
       /\ op \in {"send", "read"} => connected_
       /\ op \in {"resolve", "connect", "handshake"} => ~connected_
       /\ op = "handshake" \/ connected_ => stream.open

(* A request that waits has not been sent; the first one has been sent     *)
(* once for each attempt that came so far.                                 *)
SendsSound ==
  /\ \A r \in Requests : ~InSeq(r, asked) => sends[r] = 0
  /\ \A i \in 2..Len(pendingRequests_) : sends[pendingRequests_[i]] = 0
  /\ op # "none" => sends[request_] <= retriedTimes_ + (IF op \in {"send", "read"} THEN 1 ELSE 0)

DeadIsEmpty == dead => ~held /\ pendingRequests_ = <<>>

IndInv ==
  /\ TypeOK /\ AnsweredInOrder /\ NeverStalled /\ InFlightIsFirst
  /\ AnswerIsOwn /\ AttemptsBounded
  /\ Distinct /\ StreamSound /\ SendsSound /\ DeadIsEmpty
===============================================================================
