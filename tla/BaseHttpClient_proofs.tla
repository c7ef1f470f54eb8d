------------------------- MODULE BaseHttpClient_proofs -------------------------
(***************************************************************************)
(* Proofs about BaseHttpClient: IndInv is inductive and implies the safety *)
(* properties, for any set of requests, any of them without a callback or  *)
(* with one that owns the client, and every maxRetryTimes_, with and       *)
(* without TLS.                                                            *)
(***************************************************************************)
EXTENDS BaseHttpClient, SequenceTheorems, TLAPS
-----------------------------------------------------------------------------
(* Sequences: what the queue is after pop_front and a push_back.           *)
LEMMA PopPush ==
  ASSUME NEW S, NEW p \in Seq(S), p # <<>>, NEW n \in Seq(S)
  PROVE  /\ Head(p) = p[1] /\ p[1] \in S /\ 1 \in 1..Len(p)
         /\ Tail(p) \o n \in Seq(S)
         /\ Len(Tail(p) \o n) = Len(p) - 1 + Len(n)
         /\ \A i \in 1..Len(Tail(p) \o n) :
              (Tail(p) \o n)[i] = IF i < Len(p) THEN p[i + 1] ELSE n[i - Len(p) + 1]
<1>1. Tail(p) \in Seq(S) /\ Len(Tail(p)) = Len(p) - 1 /\ Len(p) \in Nat \ {0}
  BY EmptySeq
<1>2. \A i \in 1..Len(Tail(p)) : Tail(p)[i] = p[i + 1]
  BY <1>1
<1>3. Len(n) \in Nat
  OBVIOUS
<1> QED BY <1>1, <1>2, <1>3

LEMMA Assoc == \A s, t, u \in Seq(Requests) : (s \o t) \o u = s \o (t \o u)
<1> TAKE s, t, u \in Seq(Requests)
<1> QED BY ConcatAssociative, SMTT(60)

(* Popping from one sequence to the other changes nothing of both.         *)
LEMMA Moved ==
  \A a, d, p, n, rest \in Seq(Requests) :
    p # <<>> /\ a = d \o p /\ rest = Tail(p) \o n => Append(d, Head(p)) \o rest = a \o n
<1> TAKE a, d, p, n, rest \in Seq(Requests)
<1>a. HAVE p # <<>> /\ a = d \o p /\ rest = Tail(p) \o n
<1>b. p # <<>>
  BY <1>a
<1>1. Head(p) \in Requests /\ Tail(p) \in Seq(Requests) /\ <<Head(p)>> \in Seq(Requests)
  BY <1>b, HeadTailProperties
<1>2. p = <<Head(p)>> \o Tail(p)
  <2>1. Len(p) \in Nat \ {0} /\ SubSeq(p, 1, Len(p)) = p
    BY <1>b, EmptySeq, SubSeqFull
  <2>2. SubSeq(p, 1, Len(p)) = <<p[1]>> \o SubSeq(p, 2, Len(p))
    BY <2>1, SubSeqRecursiveFirst
  <2>3. Tail(p) = SubSeq(p, 2, Len(p)) /\ Head(p) = p[1]
    BY <1>b, TailIsSubSeq
  <2> QED BY <2>1, <2>2, <2>3, Zenon
<1> DEFINE x == <<Head(p)>>
           t == Tail(p)
           dx == d \o x
<1>3. Append(d, Head(p)) = dx
  BY <1>1, AppendIsConcat
<1>4. x \in Seq(Requests) /\ t \in Seq(Requests)
  BY <1>1
<1>5. p = x \o t /\ rest = t \o n /\ a = d \o p
  BY <1>2, <1>a, Zenon
<1> HIDE DEF x, t
<1>6. dx \in Seq(Requests)
  BY <1>4, ConcatProperties, Zenon
<1>9. dx \o t = d \o (x \o t)
  BY <1>4, Assoc, ZenonT(40)
<1> HIDE DEF dx
<1>7. dx \o (t \o n) = (dx \o t) \o n
  BY <1>4, <1>6, Assoc, ZenonT(40)
<1>8. dx \o rest = a \o n
  BY <1>5, <1>7, <1>9, Zenon
<1> QED BY <1>3, <1>8, Zenon
-----------------------------------------------------------------------------
LEMMA LastOne ==
  \A i, j, a, n \in Nat : i >= 1 /\ i < j /\ n <= 1 /\ j <= a + n /\ j > a
                          => j = a + 1 /\ i \in 1..a /\ n = 1 /\ j - a = 1
OBVIOUS

(* A concatenation, element by element.                                    *)
LEMMA Joined ==
  ASSUME NEW S, NEW s \in Seq(S), NEW t \in Seq(S)
  PROVE  /\ s \o t \in Seq(S) /\ Len(s \o t) = Len(s) + Len(t)
         /\ DOMAIN (s \o t) = 1..Len(s \o t)
         /\ \A i \in 1..Len(s \o t) : (s \o t)[i] = IF i <= Len(s) THEN s[i] ELSE t[i - Len(s)]
OBVIOUS

(* The queue after the first request has left it and new has joined it.    *)
RestHyp(new, rest) ==
  /\ TypeOK /\ AnsweredInOrder /\ Distinct /\ SendsSound /\ pendingRequests_ # <<>>
  /\ new \in Seq(Requests) /\ Len(new) <= 1
  /\ \A i \in 1..Len(new) : ~InSeq(new[i], asked)
  /\ rest = Tail(pendingRequests_) \o new

RestFacts(new, rest) ==
  /\ rest \in Seq(Requests)
  /\ \A i \in 1..Len(rest) : rest[i] \in Requests /\ sends[rest[i]] = 0
  /\ \A i, j \in 1..Len(rest) : i # j => rest[i] # rest[j]
  /\ asked \o new \in Seq(Requests)
  /\ \A i, j \in 1..Len(asked \o new) : i # j => (asked \o new)[i] # (asked \o new)[j]
  /\ Append(done, Head(pendingRequests_)) \o rest = asked \o new
  /\ \A i \in 1..Len(rest) : InSeq(rest[i], asked \o new)
  /\ \A r \in Requests : InSeq(r, asked) => InSeq(r, asked \o new)

LEMMA RestOfQueue == \A new, rest : RestHyp(new, rest) => RestFacts(new, rest)
<1>0. SUFFICES ASSUME NEW new, NEW rest, RestHyp(new, rest)
               PROVE  RestFacts(new, rest)
  OBVIOUS
<1> DEFINE p == pendingRequests_
           A == asked \o new
           d == Append(done, Head(p))
<1>a. p \in Seq(Requests) /\ done \in Seq(Requests) /\ asked \in Seq(Requests) /\ new \in Seq(Requests)
  BY <1>0 DEF RestHyp, TypeOK
<1>b. p # <<>>
  BY <1>0 DEF RestHyp
<1>c. rest = Tail(p) \o new /\ asked = done \o p
  BY <1>0 DEF RestHyp, AnsweredInOrder
<1>1. Len(new) <= 1
  BY <1>0 DEF RestHyp
<1> HIDE DEF p
<1>2. /\ rest \in Seq(Requests) /\ Len(rest) = Len(p) - 1 + Len(new)
      /\ \A i \in 1..Len(rest) : rest[i] = IF i < Len(p) THEN p[i + 1] ELSE new[i - Len(p) + 1]
      /\ Head(p) \in Requests
  <2>1. /\ Tail(p) \o new \in Seq(Requests) /\ Len(Tail(p) \o new) = Len(p) - 1 + Len(new)
        /\ \A i \in 1..Len(Tail(p) \o new) :
             (Tail(p) \o new)[i] = IF i < Len(p) THEN p[i + 1] ELSE new[i - Len(p) + 1]
        /\ Head(p) = p[1] /\ p[1] \in Requests
    BY <1>a, <1>b, PopPush, Zenon
  <2> QED BY <1>c, <2>1, Zenon
<1>3. d \o rest = A
  <2>1. rest \in Seq(Requests)
    BY <1>2
  <2>2. Append(done, Head(p)) \o rest = asked \o new
    BY <1>a, <1>b, <1>c, <2>1, Moved, SMTT(60)
  <2> QED BY <2>2
<1>d. d \in Seq(Requests) /\ rest \in Seq(Requests)
  BY <1>a, <1>2, AppendProperties
<1> HIDE DEF d
<1>4. Len(d) \in Nat /\ Len(p) \in Nat /\ Len(rest) \in Nat /\ Len(new) \in Nat /\ Len(asked) \in Nat
  BY <1>a, <1>d
<1>5. /\ A \in Seq(Requests) /\ Len(A) = Len(asked) + Len(new)
      /\ \A i \in 1..Len(A) : A[i] = IF i <= Len(asked) THEN asked[i] ELSE new[i - Len(asked)]
  BY <1>a, Joined, Zenon
<1>6. /\ Len(A) = Len(d) + Len(rest)
      /\ \A i \in 1..Len(A) : A[i] = IF i <= Len(d) THEN d[i] ELSE rest[i - Len(d)]
  <2>1. /\ Len(d \o rest) = Len(d) + Len(rest)
        /\ \A i \in 1..Len(d \o rest) : (d \o rest)[i] = IF i <= Len(d) THEN d[i] ELSE rest[i - Len(d)]
    BY <1>d, Joined, Zenon
  <2> QED BY <1>3, <2>1, Zenon
<1>7. DOMAIN A = 1..Len(A) /\ DOMAIN asked = 1..Len(asked)
  BY <1>a, <1>5, LenProperties
<1> HIDE DEF A
<1>8. \A i, j \in 1..Len(A) : i # j => A[i] # A[j]
  <2> SUFFICES ASSUME NEW i \in 1..Len(A), NEW j \in 1..Len(A), i < j
               PROVE  A[i] # A[j]
    BY <1>5, <1>4
  <2>1. i \in Nat /\ j \in Nat /\ i >= 1 /\ j <= Len(asked) + Len(new)
    BY <1>4, <1>5
  <2>2. CASE j <= Len(asked)
    <3>1. i \in 1..Len(asked) /\ j \in 1..Len(asked) /\ i # j
      BY <2>1, <2>2, <1>4
    <3>2. A[i] = asked[i] /\ A[j] = asked[j]
      BY <3>1, <1>4, <1>5
    <3>3. Distinct
      BY <1>0 DEF RestHyp
    <3> QED BY <3>1, <3>2, <3>3, Zenon DEF Distinct
  <2>3. CASE j > Len(asked)
    <3>1. j = Len(asked) + 1 /\ i \in 1..Len(asked) /\ Len(new) = 1 /\ j - Len(asked) = 1
      BY <2>1, <2>3, <1>1, <1>4, LastOne
    <3>2. A[j] = new[1] /\ A[i] = asked[i]
      <4>1. j \in 1..Len(A) /\ ~(j <= Len(asked)) /\ i \in 1..Len(A) /\ i <= Len(asked)
        BY <3>1, <1>4
      <4>2. A[j] = new[j - Len(asked)] /\ A[i] = asked[i]
        BY <4>1, <1>5
      <4> QED BY <4>2, <3>1
    <3>3. ~InSeq(new[1], asked)
      BY <3>1, <1>0 DEF RestHyp
    <3> QED BY <3>1, <3>2, <3>3, <1>7 DEF InSeq
  <2> QED BY <2>1, <2>2, <2>3, <1>4
<1>9. \A i \in 1..Len(rest) : Len(d) + i \in 1..Len(A) /\ A[Len(d) + i] = rest[i]
  <2> TAKE i \in 1..Len(rest)
  <2>1. Len(d) + i \in 1..Len(A) /\ ~(Len(d) + i <= Len(d)) /\ (Len(d) + i) - Len(d) = i
    BY <1>4, <1>6
  <2> QED BY <2>1, <1>6
<1>10. \A i, j \in 1..Len(rest) : i # j => rest[i] # rest[j]
  <2> TAKE i, j \in 1..Len(rest)
  <2>1. i # j => Len(d) + i # Len(d) + j
    BY <1>4
  <2> QED BY <2>1, <1>8, <1>9
<1>11. \A i \in 1..Len(rest) : InSeq(rest[i], A)
  BY <1>7, <1>9 DEF InSeq
<1>12. \A r \in Requests : InSeq(r, asked) => InSeq(r, A)
  <2> SUFFICES ASSUME NEW r, NEW i \in 1..Len(asked), asked[i] = r
               PROVE  InSeq(r, A)
    BY <1>7 DEF InSeq
  <2>1. i \in 1..Len(A) /\ A[i] = asked[i]
    BY <1>4, <1>5
  <2> QED BY <2>1, <1>7 DEF InSeq
<1>13. \A i \in 1..Len(rest) : rest[i] \in Requests /\ sends[rest[i]] = 0
  <2> TAKE i \in 1..Len(rest)
  <2>1. rest[i] \in Requests
    BY <1>2, ElementOfSeq
  <2>2. CASE i < Len(p)
    <3>1. i + 1 \in 2..Len(p) /\ rest[i] = p[i + 1]
      BY <2>2, <1>2, <1>4
    <3> QED BY <2>1, <3>1, <1>0 DEF RestHyp, SendsSound, p
  <2>3. CASE ~(i < Len(p))
    <3>1. i - Len(p) + 1 \in 1..Len(new) /\ rest[i] = new[i - Len(p) + 1]
      BY <2>3, <1>2, <1>4
    <3> QED BY <2>1, <3>1, <1>0 DEF RestHyp, SendsSound
  <2> QED BY <2>2, <2>3
<1> QED BY <1>2, <1>3, <1>5, <1>8, <1>10, <1>11, <1>12, <1>13, Zenon DEF RestFacts, A, d, p
-----------------------------------------------------------------------------
(* What a handler has made of the stream and of connected_ when it calls   *)
(* response().                                                             *)
ResponseHyp(ec, body, s, conn) ==
  /\ ec \in {"ok"} \cup Errors /\ body \in Seq(Requests) /\ (ec = "ok" => body = <<request_>>)
  /\ s \in [open : BOOLEAN, wire : Seq(Requests)]
  /\ closed_ => s = Closed
  /\ ~closed_ => s.wire = <<>> /\ (conn => s.open)
  /\ conn \in BOOLEAN /\ connected_' = conn
  /\ buffer_' \in Requests \cup {NoReq} /\ (~closed_ => buffer_' = NoReq)

Streams == [open : BOOLEAN, wire : Seq(Requests)]

LEMMA Sent ==
  \A s \in Streams, r \in Requests :
    s.wire = <<>> => /\ [s EXCEPT !.wire = Append(@, r)] \in Streams
                     /\ [s EXCEPT !.wire = Append(@, r)].wire = <<r>>
                     /\ [s EXCEPT !.wire = Append(@, r)].open = s.open
<1> TAKE s \in Streams, r \in Requests
<1>1. HAVE s.wire = <<>>
<1>2. Append(s.wire, r) = <<r>> /\ <<r>> \in Seq(Requests)
  BY <1>1
<1> QED BY <1>2 DEF Streams

LEMMA Counted ==
  \A f \in [Requests -> Nat], r \in Requests :
    /\ [f EXCEPT ![r] = @ + 1] \in [Requests -> Nat]
    /\ [f EXCEPT ![r] = @ + 1][r] = f[r] + 1
    /\ \A q \in Requests : q # r => [f EXCEPT ![r] = @ + 1][q] = f[q]
OBVIOUS

(* response() keeps the invariant, whatever the callback does.             *)
LEMMA ResponseKeeps ==
  \A ec, body, s, conn :
    IndInv /\ op # "none" /\ ResponseHyp(ec, body, s, conn) /\ Response(ec, body, s, conn) => IndInv'
<1>0. SUFFICES ASSUME NEW ec, NEW body, NEW s, NEW conn, IndInv, op # "none",
                      ResponseHyp(ec, body, s, conn), Response(ec, body, s, conn)
               PROVE  IndInv'
  OBVIOUS
<1> DEFINE first == Head(pendingRequests_)
           told == IF first \in Silent THEN answer
                   ELSE [answer EXCEPT ![first] = [ec |-> ec, body |-> body]]
(* The step, given what the callback does.                                 *)
<1> DEFINE Calls == IF first \in Silent THEN {<<>>}
                    ELSE {<<>>} \cup {<<r>> : r \in {q \in Requests : ~InSeq(q, asked)}}
           May == IF first \in Silent THEN {FALSE} ELSE BOOLEAN
           Step(new, close, release) ==
             LET rest == Tail(pendingRequests_) \o new
                 s2   == IF close /\ ~closed_ THEN Closed ELSE s
                 next == StartsNext(rest, close)
                 last == ~next /\ (release \/ ~held) /\ ~Owned(rest)
             IN
             /\ asked' = asked \o new
             /\ closed_' = (closed_ \/ close)
             /\ held' = (held /\ ~release)
             /\ response_' = <<>>
             /\ dead' = last
             /\ pendingRequests_' = IF last THEN <<>> ELSE rest
             /\ done' = Append(done, first) \o (IF last THEN rest ELSE <<>>)
             /\ answer' = IF last THEN Cancel(told, rest) ELSE told
             /\ IF next
                THEN DoRequest(Head(rest), s2, conn)
                ELSE op' = "none" /\ stream' = s2 /\ UNCHANGED <<sends, retriedTimes_, request_>>
<1>p. PICK new \in Calls, close \in May, release \in May : Step(new, close, release)
  BY <1>0, Zenon DEF Response
<1>1. /\ close \in BOOLEAN /\ release \in BOOLEAN
      /\ new = <<>> \/ \E r \in Requests : ~InSeq(r, asked) /\ new = <<r>>
  BY Zenon
<1> HIDE DEF Calls, May
<1> DEFINE rest == Tail(pendingRequests_) \o new
           s2   == IF close /\ ~closed_ THEN Closed ELSE s
           next == rest # <<>> /\ ~closed_ /\ ~close
           last == ~next /\ (release \/ ~held) /\ ~Owned(rest)
<1>2. /\ asked' = asked \o new
      /\ closed_' = (closed_ \/ close)
      /\ held' = (held /\ ~release)
      /\ response_' = <<>>
      /\ dead' = last
      /\ pendingRequests_' = IF last THEN <<>> ELSE rest
      /\ done' = Append(done, first) \o (IF last THEN rest ELSE <<>>)
      /\ answer' = IF last THEN Cancel(told, rest) ELSE told
  BY <1>p, Zenon DEF StartsNext
<1>3. IF next THEN DoRequest(Head(rest), s2, conn)
              ELSE op' = "none" /\ stream' = s2 /\ UNCHANGED <<sends, retriedTimes_, request_>>
  BY <1>p, Zenon DEF StartsNext
<1> HIDE DEF Step
<1>4. pendingRequests_ # <<>> /\ first = request_ /\ first \in Requests
  BY <1>0, HeadTailProperties DEF IndInv, InFlightIsFirst, TypeOK
<1>5. RestHyp(new, rest)
  <2>1. new \in Seq(Requests) /\ Len(new) <= 1 /\ \A i \in 1..Len(new) : ~InSeq(new[i], asked)
    <3>1. CASE new = <<>>
      BY <3>1
    <3>2. CASE \E r \in Requests : ~InSeq(r, asked) /\ new = <<r>>
      BY <3>2
    <3> QED BY <1>1, <3>1, <3>2
  <2> QED BY <1>0, <1>4, <2>1 DEF IndInv, RestHyp
<1>6. RestFacts(new, rest)
  BY <1>5, RestOfQueue, Zenon
<1> HIDE DEF rest
<1>7. rest \in Seq(Requests) /\ asked' \in Seq(Requests)
  BY <1>2, <1>6 DEF RestFacts
<1>8. next => Head(rest) = rest[1] /\ rest[1] \in Requests /\ 1 \in 1..Len(rest)
  BY <1>7, EmptySeq
<1>9. /\ s \in [open : BOOLEAN, wire : Seq(Requests)] /\ conn \in BOOLEAN /\ connected_' = conn
      /\ closed_ => s = Closed
      /\ ~closed_ => s.wire = <<>> /\ (conn => s.open)
  BY <1>0 DEF ResponseHyp
<1>t. TypeOK
  BY <1>0 DEF IndInv
<1>12. /\ told \in [Requests -> [ec : {"none", "ok"} \cup Errors, body : Seq(Requests)]]
       /\ Cancel(told, rest) \in [Requests -> [ec : {"none", "ok"} \cup Errors, body : Seq(Requests)]]
       /\ \A r \in Requests : told[r].ec = "ok" => told[r].body = <<r>>
       /\ \A r \in Requests : Cancel(told, rest)[r].ec = "ok" => Cancel(told, rest)[r].body = <<r>>
  <2> DEFINE T == [ec : {"none", "ok"} \cup Errors, body : Seq(Requests)]
             c == [ec |-> "canceled", body |-> <<>>]
             e == [ec |-> ec, body |-> body]
  <2>1. e \in T /\ c \in T /\ c.ec # "ok" /\ e.ec = ec /\ e.body = body
    BY <1>0, EmptySeq DEF ResponseHyp, Errors
  <2>2. answer \in [Requests -> T] /\ \A r \in Requests : answer[r].ec = "ok" => answer[r].body = <<r>>
    BY <1>0, <1>t DEF IndInv, TypeOK, AnswerIsOwn
  <2>3. ec = "ok" => body = <<first>>
    BY <1>0, <1>4 DEF ResponseHyp
  <2> HIDE DEF T, c, e
  <2>4. told \in [Requests -> T] /\ \A r \in Requests : told[r].ec = "ok" => told[r].body = <<r>>
    <3>1. told = IF first \in Silent THEN answer ELSE [answer EXCEPT ![first] = e]
      BY DEF e
    <3> HIDE DEF told, first
    <3> QED BY <3>1, <2>1, <2>2, <2>3, <1>4
  <2> HIDE DEF told
  <2>5. Cancel(told, rest) = [r \in Requests |-> IF InSeq(r, rest) /\ r \notin Silent THEN c ELSE told[r]]
    BY DEF Cancel, c
  <2>6. Cancel(told, rest) \in [Requests -> T]
        /\ \A r \in Requests : Cancel(told, rest)[r].ec = "ok" => Cancel(told, rest)[r].body = <<r>>
    BY <2>1, <2>4, <2>5
  <2> QED BY <2>4, <2>6 DEF T
<1> HIDE DEF told
<1>13. Append(done, first) \in Seq(Requests) /\ Append(done, first) \o <<>> = Append(done, first)
  BY <1>4, <1>t, AppendProperties, ConcatEmptySeq DEF TypeOK
<1> HIDE DEF first
<1>14. Distinct'
  BY <1>2, <1>6, Zenon DEF RestFacts, Distinct
<1>10. CASE next
  <2>1. ~closed_ /\ ~close /\ closed_' = FALSE /\ s2 = s /\ last = FALSE /\ s.wire = <<>>
    BY <1>10, <1>2, <1>9, <1>t DEF TypeOK
  <2>2. /\ dead' = FALSE /\ pendingRequests_' = rest /\ done' = Append(done, first) \o <<>>
        /\ answer' = told /\ asked' = asked \o new /\ response_' = <<>>
    BY <1>2, <2>1
  <2>3. DoRequest(rest[1], s, conn)
    BY <1>3, <1>8, <1>10, <2>1
  <2>4. retriedTimes_' = 0 /\ request_' = rest[1] /\ rest[1] \in Requests
    BY <2>3, <1>8, <1>10 DEF DoRequest, InitRequest
  <2>5. conn => /\ op' = "send" /\ sends' = [sends EXCEPT ![rest[1]] = @ + 1]
                /\ stream' = [s EXCEPT !.wire = Append(@, rest[1])]
    BY <2>1, <2>3, <1>9 DEF DoRequest, InitRequest, SendRequest
  <2>6. ~conn => op' = "resolve" /\ sends' = sends /\ stream' = s
    BY <2>3 DEF DoRequest, InitRequest, Resolve
  <2> HIDE DEF s2, next, last
  <2>a. s \in Streams /\ s.wire = <<>> /\ (conn => s.open)
    BY <2>1, <1>9 DEF Streams
  <2>b. stream' \in Streams /\ (conn => stream'.wire = <<rest[1]>> /\ stream'.open)
        /\ (~conn => stream'.wire = <<>>)
    BY <2>a, <2>4, <2>5, <2>6, Sent
  <2>c. sends \in [Requests -> Nat] /\ sends[rest[1]] = 0
    BY <1>6, <1>8, <1>10, <1>t DEF RestFacts, TypeOK
  <2>d. /\ sends' \in [Requests -> Nat] /\ \A q \in Requests : q # rest[1] => sends'[q] = sends[q]
        /\ (conn => sends'[rest[1]] = 1) /\ (~conn => sends'[rest[1]] = 0)
    <3>1. CASE conn
      <4>1. sends' = [sends EXCEPT ![rest[1]] = @ + 1]
        BY <3>1, <2>5
      <4>2. rest[1] \in Requests /\ sends \in [Requests -> Nat]
        BY <2>4, <2>c
      <4>3. /\ [sends EXCEPT ![rest[1]] = @ + 1] \in [Requests -> Nat]
            /\ [sends EXCEPT ![rest[1]] = @ + 1][rest[1]] = sends[rest[1]] + 1
            /\ \A q \in Requests : q # rest[1] => [sends EXCEPT ![rest[1]] = @ + 1][q] = sends[q]
        BY <4>2, Counted, Zenon
      <4>4. sends[rest[1]] + 1 = 1
        BY <2>c
      <4> QED BY <4>1, <4>3, <4>4, <3>1, Zenon
    <3>2. CASE ~conn
      BY <3>2, <2>c, <2>6
    <3> QED BY <3>1, <3>2
  <2>7. TypeOK'
    <3>1. answer' \in [Requests -> [ec : {"none", "ok"} \cup Errors, body : Seq(Requests)]]
      BY <2>2, <1>12
    <3>2. /\ pendingRequests_' \in Seq(Requests) /\ done' \in Seq(Requests) /\ response_' \in Seq(Requests)
      BY <2>2, <1>7, <1>13, EmptySeq
    <3>3. stream' \in [open : BOOLEAN, wire : Seq(Requests)] /\ sends' \in [Requests -> Nat]
      BY <2>b, <2>d DEF Streams
    <3>4. /\ op' \in {"none", "resolve", "connect", "handshake", "send", "read"}
          /\ retriedTimes_' \in 0..MaxRetryTimes
          /\ request_' \in Requests \cup {NoReq} /\ buffer_' \in Requests \cup {NoReq}
      BY <2>4, <2>5, <2>6, <1>9, <1>0, ClientAssumption DEF ResponseHyp
    <3>5. closed_' \in BOOLEAN /\ connected_' \in BOOLEAN /\ held' \in BOOLEAN /\ dead' \in BOOLEAN
      BY <2>1, <2>2, <1>1, <1>2, <1>9, <1>t, Zenon DEF TypeOK
    <3> QED BY <3>1, <3>2, <3>3, <3>4, <3>5, <1>7, Zenon DEF TypeOK
  <2>8. StreamSound'
    <3>1. ~closed_' /\ response_' = <<>> /\ buffer_' = NoReq /\ connected_' = conn /\ conn \in BOOLEAN
      BY <2>1, <2>2, <1>9, <1>0 DEF ResponseHyp
    <3> QED BY <3>1, <2>b, <2>4, <2>5, <2>6 DEF StreamSound
  <2>9. SendsSound' /\ AttemptsBounded'
    <3>1. \A r \in Requests : ~InSeq(r, asked') => sends'[r] = 0
      <4> TAKE r \in Requests
      <4>1. HAVE ~InSeq(r, asked')
      <4>2. sends[r] = 0 /\ r # rest[1]
        BY <4>1, <2>2, <1>6, <1>8, <1>10, <1>0 DEF RestFacts, IndInv, SendsSound
      <4> QED BY <4>2, <2>d
    <3>2. \A i \in 2..Len(rest) : sends'[rest[i]] = 0
      <4> TAKE i \in 2..Len(rest)
      <4>1. i \in 1..Len(rest) /\ i # 1 /\ 1 \in 1..Len(rest)
        BY <1>7, <1>8, <1>10
      <4>2. sends[rest[i]] = 0 /\ rest[i] # rest[1] /\ rest[i] \in Requests
        BY <4>1, <1>6 DEF RestFacts
      <4> QED BY <4>2, <2>d
    <3>4. op' # "none" => sends'[request_'] <= retriedTimes_' + (IF op' \in {"send", "read"} THEN 1 ELSE 0)
      BY <2>d, <2>4, <2>5, <2>6, <1>9
    <3>5. SendsSound'
      BY <3>1, <3>2, <3>4, <2>2 DEF SendsSound
    <3>6. AttemptsBounded'
      <4>1. AttemptsBounded /\ MaxRetryTimes \in Nat
        BY <1>0, ClientAssumption DEF IndInv
      <4> SUFFICES ASSUME NEW r \in Requests PROVE sends'[r] <= MaxRetryTimes + 1
        BY DEF AttemptsBounded
      <4>2. CASE r = rest[1]
        BY <4>1, <4>2, <2>d, <1>9
      <4>3. CASE r # rest[1]
        BY <4>1, <4>3, <2>d DEF AttemptsBounded
      <4> QED BY <4>2, <4>3
    <3> QED BY <3>5, <3>6
  <2>10. InFlightIsFirst' /\ NeverStalled' /\ DeadIsEmpty'
    BY <2>2, <2>4, <2>5, <2>6, <1>8, <1>9, <1>10 DEF InFlightIsFirst, NeverStalled, DeadIsEmpty
  <2>11. AnsweredInOrder'
    <3>1. done' = Append(done, first)
      BY <2>2, <1>13
    <3>2. Append(done, Head(pendingRequests_)) \o rest = asked \o new
      BY <1>6 DEF RestFacts
    <3>3. done' \o pendingRequests_' = asked'
      BY <3>1, <3>2, <2>2, Zenon DEF first
    <3> QED BY <3>3 DEF AnsweredInOrder
  <2>12. AnswerIsOwn'
    BY <2>2, <1>12 DEF AnswerIsOwn
  <2> QED BY <2>7, <2>8, <2>9, <2>10, <2>11, <2>12, <1>14, Zenon DEF IndInv
<1>11. CASE ~next
  <2>1. op' = "none" /\ stream' = s2 /\ sends' = sends /\ retriedTimes_' = retriedTimes_ /\ request_' = request_
    BY <1>3, <1>11
  <2>2. s2 \in [open : BOOLEAN, wire : Seq(Requests)]
    BY <1>9, EmptySeq DEF Closed
  <2>3. TypeOK'
    <3>1. answer' \in [Requests -> [ec : {"none", "ok"} \cup Errors, body : Seq(Requests)]]
      BY <1>2, <1>12
    <3>2. /\ pendingRequests_' \in Seq(Requests) /\ done' \in Seq(Requests) /\ response_' \in Seq(Requests)
      BY <1>2, <1>7, <1>13, EmptySeq, ConcatProperties
    <3>3. stream' \in [open : BOOLEAN, wire : Seq(Requests)] /\ sends' \in [Requests -> Nat]
          /\ op' \in {"none", "resolve", "connect", "handshake", "send", "read"}
          /\ retriedTimes_' \in 0..MaxRetryTimes
          /\ request_' \in Requests \cup {NoReq} /\ buffer_' \in Requests \cup {NoReq}
      BY <2>1, <2>2, <1>t, <1>0, Zenon DEF TypeOK, ResponseHyp
    <3>4. closed_' \in BOOLEAN /\ connected_' \in BOOLEAN /\ held' \in BOOLEAN /\ dead' \in BOOLEAN
      BY <1>1, <1>2, <1>9, <1>t, Zenon DEF TypeOK
    <3> QED BY <3>1, <3>2, <3>3, <3>4, <1>7, Zenon DEF TypeOK
  <2>4. StreamSound'
    <3>1. closed_' => stream' = Closed
      BY <2>1, <1>1, <1>2, <1>9
    <3>2. ~closed_' => stream' = s /\ ~closed_ /\ buffer_' = NoReq
      BY <2>1, <1>1, <1>2, <1>0 DEF ResponseHyp
    <3>3. ~closed_' => stream'.wire = <<>> /\ (connected_' => stream'.open)
      BY <3>2, <1>9
    <3>4. response_' = <<>> /\ op' = "none"
      BY <2>1, <1>2
    <3> QED BY <3>1, <3>2, <3>3, <3>4 DEF StreamSound
  <2>5. SendsSound' /\ AttemptsBounded'
    <3>1. \A r \in Requests : ~InSeq(r, asked') => sends'[r] = 0
      BY <2>1, <1>2, <1>6, <1>0 DEF RestFacts, IndInv, SendsSound
    <3>2. \A i \in 2..Len(pendingRequests_') : sends'[pendingRequests_'[i]] = 0
      BY <2>1, <1>2, <1>6, <1>7, EmptySeq DEF RestFacts
    <3> QED BY <3>1, <3>2, <2>1, <1>0 DEF IndInv, SendsSound, AttemptsBounded
  <2>6. InFlightIsFirst' /\ NeverStalled' /\ DeadIsEmpty'
    <3>1. InFlightIsFirst'
      BY <2>1 DEF InFlightIsFirst
    <3>2. pendingRequests_' # <<>> => closed_'
      BY <1>2, <1>11
    <3>3. dead' => ~held' /\ pendingRequests_' = <<>>
      BY <1>2
    <3> QED BY <3>1, <3>2, <3>3 DEF NeverStalled, DeadIsEmpty
  <2>7. AnsweredInOrder'
    <3>1. Append(done, first) \o rest = asked'
      BY <1>2, <1>6, Zenon DEF RestFacts, first
    <3>2. CASE last
      <4>1. done' = asked' /\ pendingRequests_' = <<>>
        BY <1>2, <3>1, <3>2
      <4> QED BY <4>1, <1>7, ConcatEmptySeq DEF AnsweredInOrder
    <3>3. CASE ~last
      <4>1. done' = Append(done, first) /\ pendingRequests_' = rest
        BY <1>2, <1>13, <3>3
      <4> QED BY <4>1, <3>1 DEF AnsweredInOrder
    <3> QED BY <3>2, <3>3
  <2>8. AnswerIsOwn'
    BY <1>2, <1>12 DEF AnswerIsOwn
  <2> QED BY <2>3, <2>4, <2>5, <2>6, <2>7, <2>8, <1>14, Zenon DEF IndInv
<1> QED BY <1>10, <1>11
-----------------------------------------------------------------------------
(* The first request of the queue has been asked for, and is not further   *)
(* back in the queue too.                                                  *)
LEMMA FirstIsOne ==
  TypeOK /\ AnsweredInOrder /\ Distinct /\ pendingRequests_ # <<>>
  => /\ Head(pendingRequests_) \in Requests
     /\ InSeq(Head(pendingRequests_), asked)
     /\ \A i \in 2..Len(pendingRequests_) : pendingRequests_[i] # Head(pendingRequests_)
<1>0. SUFFICES ASSUME TypeOK, AnsweredInOrder, Distinct, pendingRequests_ # <<>>
               PROVE  /\ Head(pendingRequests_) \in Requests
                      /\ InSeq(Head(pendingRequests_), asked)
                      /\ \A i \in 2..Len(pendingRequests_) : pendingRequests_[i] # Head(pendingRequests_)
  OBVIOUS
<1> DEFINE p == pendingRequests_
<1>1. p \in Seq(Requests) /\ done \in Seq(Requests) /\ asked = done \o p
  BY <1>0 DEF TypeOK, AnsweredInOrder
<1>2. Head(p) = p[1] /\ p[1] \in Requests /\ Len(p) \in Nat \ {0} /\ Len(done) \in Nat
  BY <1>0, <1>1, EmptySeq
<1> HIDE DEF p
<1>3. /\ Len(asked) = Len(done) + Len(p) /\ DOMAIN asked = 1..Len(asked)
      /\ \A i \in 1..Len(asked) : asked[i] = IF i <= Len(done) THEN done[i] ELSE p[i - Len(done)]
  <2>1. /\ Len(done \o p) = Len(done) + Len(p) /\ DOMAIN (done \o p) = 1..Len(done \o p)
        /\ \A i \in 1..Len(done \o p) : (done \o p)[i] = IF i <= Len(done) THEN done[i] ELSE p[i - Len(done)]
    BY <1>1, Joined, Zenon
  <2> QED BY <1>1, <2>1, Zenon
<1>4. \A i \in 1..Len(p) : Len(done) + i \in 1..Len(asked) /\ asked[Len(done) + i] = p[i]
  <2> TAKE i \in 1..Len(p)
  <2>1. Len(done) + i \in 1..Len(asked) /\ ~(Len(done) + i <= Len(done)) /\ (Len(done) + i) - Len(done) = i
    BY <1>2, <1>3
  <2> QED BY <2>1, <1>3
<1>5. InSeq(p[1], asked)
  BY <1>2, <1>3, <1>4 DEF InSeq
<1>6. \A i \in 2..Len(p) : p[i] # p[1]
  <2> TAKE i \in 2..Len(p)
  <2>1. i \in 1..Len(p) /\ 1 \in 1..Len(p) /\ Len(done) + i # Len(done) + 1
    BY <1>2
  <2>2. PICK j \in 1..Len(asked), k \in 1..Len(asked) : j # k /\ asked[j] = p[i] /\ asked[k] = p[1]
    BY <2>1, <1>4, Zenon
  <2> QED BY <2>2, <1>0, Zenon DEF Distinct
<1> QED BY <1>2, <1>5, <1>6 DEF p

(* A handler that goes on with the first request leaves the queue alone.   *)
OneStep ==
  /\ op # "none" /\ ~closed_
  /\ UNCHANGED <<pendingRequests_, asked, done, answer, closed_, held, dead, request_>>
  /\ op' \in {"resolve", "connect", "handshake", "send", "read"}
  /\ retriedTimes_' \in 0..MaxRetryTimes
  /\ stream' \in Streams /\ connected_' \in BOOLEAN
  /\ sends' \in [Requests -> Nat]
  /\ \A q \in Requests : q # request_ => sends'[q] = sends[q]
  /\ sends'[request_] <= retriedTimes_' + (IF op' \in {"send", "read"} THEN 1 ELSE 0)

LEMMA OneStepKeeps == IndInv /\ OneStep /\ StreamSound' => IndInv'
<1>0. SUFFICES ASSUME IndInv, OneStep, StreamSound'
               PROVE  IndInv'
  OBVIOUS
<1>1. /\ pendingRequests_ # <<>> /\ request_ = Head(pendingRequests_) /\ request_ \in Requests
      /\ InSeq(request_, asked) /\ ~dead
      /\ \A i \in 2..Len(pendingRequests_) : pendingRequests_[i] # request_
  BY <1>0, FirstIsOne DEF IndInv, OneStep, InFlightIsFirst
<1>2. TypeOK'
  <2>1. response_' = <<>> /\ buffer_' = NoReq
    BY <1>0 DEF StreamSound, OneStep
  <2>2. response_' \in Seq(Requests) /\ buffer_' \in Requests \cup {NoReq}
    BY <2>1, EmptySeq
  <2>3. TypeOK
    BY <1>0 DEF IndInv
  <2>4. /\ pendingRequests_' = pendingRequests_ /\ asked' = asked /\ done' = done /\ answer' = answer
        /\ closed_' = closed_ /\ held' = held /\ dead' = dead /\ request_' = request_
    BY <1>0 DEF OneStep
  <2>5. /\ op' \in {"none", "resolve", "connect", "handshake", "send", "read"}
        /\ retriedTimes_' \in 0..MaxRetryTimes
        /\ stream' \in [open : BOOLEAN, wire : Seq(Requests)] /\ connected_' \in BOOLEAN
        /\ sends' \in [Requests -> Nat]
    BY <1>0 DEF OneStep, Streams
  <2> QED BY <2>2, <2>3, <2>4, <2>5, Zenon DEF TypeOK
<1>3. AnsweredInOrder' /\ AnswerIsOwn' /\ Distinct' /\ DeadIsEmpty' /\ NeverStalled' /\ InFlightIsFirst'
  BY <1>0, <1>1 DEF IndInv, OneStep, AnsweredInOrder, AnswerIsOwn, Distinct, DeadIsEmpty, NeverStalled, InFlightIsFirst
<1>4. SendsSound'
  <2>1. \A r \in Requests : ~InSeq(r, asked') => sends'[r] = 0
    BY <1>0, <1>1 DEF IndInv, OneStep, SendsSound
  <2>2. \A i \in 2..Len(pendingRequests_') : sends'[pendingRequests_'[i]] = 0
    <3> SUFFICES ASSUME NEW i \in 2..Len(pendingRequests_)
                 PROVE  sends'[pendingRequests_[i]] = 0
      BY <1>0 DEF OneStep
    <3>1. pendingRequests_[i] \in Requests /\ pendingRequests_[i] # request_ /\ sends[pendingRequests_[i]] = 0
      BY <1>0, <1>1 DEF IndInv, TypeOK, SendsSound
    <3> QED BY <3>1, <1>0 DEF OneStep
  <2> QED BY <2>1, <2>2, <1>0 DEF OneStep, SendsSound
<1>5. AttemptsBounded'
  <2> SUFFICES ASSUME NEW r \in Requests PROVE sends'[r] <= MaxRetryTimes + 1
    BY DEF AttemptsBounded
  <2>1. CASE r = request_
    BY <2>1, <1>0, ClientAssumption DEF OneStep
  <2>2. CASE r # request_
    BY <2>2, <1>0 DEF IndInv, OneStep, AttemptsBounded
  <2> QED BY <2>1, <2>2
<1> QED BY <1>0, <1>2, <1>3, <1>4, <1>5 DEF IndInv
-----------------------------------------------------------------------------
(* Starting over, and sending the same request again.                      *)
LEMMA RetryKeeps ==
  \A s : IndInv /\ op # "none" /\ ~closed_ /\ retriedTimes_ < MaxRetryTimes
         /\ s \in Streams /\ s.wire = <<>> /\ Retry(s, <<>>)
         /\ connected_' = FALSE /\ buffer_' = NoReq => IndInv'
<1>0. SUFFICES ASSUME NEW s, IndInv, op # "none", ~closed_, retriedTimes_ < MaxRetryTimes,
                      s \in Streams, s.wire = <<>>, Retry(s, <<>>),
                      connected_' = FALSE, buffer_' = NoReq
               PROVE  IndInv'
  OBVIOUS
<1>1. /\ retriedTimes_' = retriedTimes_ + 1 /\ response_' = <<>> /\ op' = "resolve"
      /\ stream' = s /\ sends' = sends
      /\ UNCHANGED <<request_, pendingRequests_, asked, done, answer, closed_, held, dead>>
  BY <1>0 DEF Retry, Resolve, lifeVars
<1>2. /\ sends \in [Requests -> Nat] /\ retriedTimes_ \in 0..MaxRetryTimes
      /\ request_ \in Requests
  BY <1>0, FirstIsOne DEF IndInv, TypeOK, InFlightIsFirst
<1>3. sends[request_] <= retriedTimes_ + 1
  <2>1. sends[request_] \in Nat
    BY <1>2
  <2>2. sends[request_] <= retriedTimes_ + (IF op \in {"send", "read"} THEN 1 ELSE 0)
    BY <1>0 DEF IndInv, SendsSound
  <2> QED BY <1>2, <2>1, <2>2
<1>4. OneStep
  <2>1. /\ sends'[request_] <= retriedTimes_' + (IF op' \in {"send", "read"} THEN 1 ELSE 0)
        /\ retriedTimes_' \in 0..MaxRetryTimes
    BY <1>0, <1>1, <1>2, <1>3, ClientAssumption
  <2>2. UNCHANGED <<pendingRequests_, asked, done, answer, closed_, held, dead, request_>>
    BY <1>1
  <2>3. op' = "resolve" /\ stream' \in Streams /\ sends' = sends
    BY <1>0, <1>1
  <2> QED BY <1>0, <1>2, <2>1, <2>2, <2>3 DEF OneStep
<1>5. StreamSound'
  BY <1>0, <1>1 DEF StreamSound
<1> QED BY <1>0, <1>4, <1>5, OneStepKeeps

LEMMA ResendKeeps ==
  \A s : IndInv /\ op = "read" /\ ~closed_ /\ retriedTimes_ < MaxRetryTimes
         /\ s \in Streams /\ s.wire = <<>> /\ s.open /\ Resend(s)
         /\ connected_' = TRUE /\ buffer_' = NoReq => IndInv'
<1>0. SUFFICES ASSUME NEW s, IndInv, op = "read", ~closed_, retriedTimes_ < MaxRetryTimes,
                      s \in Streams, s.wire = <<>>, s.open, Resend(s),
                      connected_' = TRUE, buffer_' = NoReq
               PROVE  IndInv'
  OBVIOUS
<1>1. /\ retriedTimes_' = retriedTimes_ + 1 /\ response_' = <<>> /\ op' = "send"
      /\ stream' = [s EXCEPT !.wire = Append(@, request_)]
      /\ sends' = [sends EXCEPT ![request_] = @ + 1]
      /\ UNCHANGED <<request_, pendingRequests_, asked, done, answer, closed_, held, dead>>
  BY <1>0 DEF Resend, SendRequest, lifeVars
<1>2. /\ sends \in [Requests -> Nat] /\ retriedTimes_ \in 0..MaxRetryTimes
      /\ request_ \in Requests
  BY <1>0, FirstIsOne DEF IndInv, TypeOK, InFlightIsFirst
<1>3. sends[request_] <= retriedTimes_ + 1
  BY <1>0, <1>2 DEF IndInv, SendsSound
<1>4. stream' \in Streams /\ stream'.wire = <<request_>> /\ stream'.open
  BY <1>0, <1>1, <1>2, Sent
<1>5. /\ sends' \in [Requests -> Nat] /\ sends'[request_] = sends[request_] + 1
      /\ \A q \in Requests : q # request_ => sends'[q] = sends[q]
  <2>1. sends' = [sends EXCEPT ![request_] = @ + 1]
    BY <1>1
  <2>2. request_ \in Requests /\ sends \in [Requests -> Nat]
    BY <1>2
  <2> QED BY <2>1, <2>2, Counted, Zenon
<1>6. sends[request_] \in Nat
  BY <1>2
<1>7. OneStep
  <2>1. sends'[request_] <= retriedTimes_' + 1 /\ retriedTimes_' \in 0..MaxRetryTimes
    BY <1>0, <1>1, <1>2, <1>3, <1>5, <1>6, ClientAssumption
  <2>2. op # "none" /\ op' \in {"send", "read"}
    BY <1>0, <1>1
  <2>3. UNCHANGED <<pendingRequests_, asked, done, answer, closed_, held, dead, request_>>
    BY <1>1
  <2> QED BY <1>0, <1>4, <1>5, <2>1, <2>2, <2>3 DEF OneStep
<1>8. StreamSound'
  <2>1. response_' = <<>> /\ ~closed_' /\ buffer_' = NoReq /\ op' = "send" /\ connected_' = TRUE
        /\ request_' = request_
    BY <1>0, <1>1
  <2> QED BY <2>1, <1>4 DEF StreamSound
<1> QED BY <1>0, <1>7, <1>8, OneStepKeeps

(* The end of a handler that got an error.                                 *)
LEMMA AgainKeeps ==
  \A ec, s : IndInv /\ op # "none" /\ ~closed_ /\ ec \in Errors
             /\ s \in Streams /\ s.wire = <<>> /\ Again(ec, s)
             /\ connected_' = FALSE /\ buffer_' = NoReq => IndInv'
<1>0. SUFFICES ASSUME NEW ec, NEW s, IndInv, op # "none", ~closed_, ec \in Errors,
                      s \in Streams, s.wire = <<>>, Again(ec, s),
                      connected_' = FALSE, buffer_' = NoReq
               PROVE  IndInv'
  OBVIOUS
<1>1. response_ = <<>>
  BY <1>0 DEF IndInv, StreamSound
<1>2. CASE CanRetry(ec) /\ Retry(s, response_)
  BY <1>0, <1>1, <1>2, RetryKeeps DEF CanRetry
<1>3. CASE Response(ec, response_, s, connected_')
  <2>1. Response(ec, response_, s, FALSE)
    BY <1>0, <1>3
  <2>2. ResponseHyp(ec, response_, s, FALSE)
    BY <1>0, <1>1, EmptySeq DEF ResponseHyp, Streams, Errors
  <2> QED BY <1>0, <2>1, <2>2, ResponseKeeps
<1> QED BY <1>0, <1>2, <1>3 DEF Again

(* A handler that finds the client closed.                                 *)
LEMMA CanceledKeeps == IndInv /\ op # "none" /\ closed_ /\ Canceled => IndInv'
<1>0. SUFFICES ASSUME IndInv, op # "none", closed_, Canceled
               PROVE  IndInv'
  OBVIOUS
<1>1. /\ Response("canceled", response_, stream, connected_)
      /\ connected_' = connected_ /\ buffer_' = buffer_
  BY <1>0 DEF Canceled
<1>2. /\ response_ \in Seq(Requests) /\ stream \in [open : BOOLEAN, wire : Seq(Requests)]
      /\ connected_ \in BOOLEAN /\ buffer_ \in Requests \cup {NoReq} /\ stream = Closed
  BY <1>0 DEF IndInv, TypeOK, StreamSound
<1>3. ResponseHyp("canceled", response_, stream, connected_)
  BY <1>0, <1>1, <1>2 DEF ResponseHyp, Errors
<1> QED BY <1>0, <1>1, <1>3, ResponseKeeps
-----------------------------------------------------------------------------
(* The handlers.                                                           *)
LEMMA StreamType == IndInv => stream \in Streams
BY DEF IndInv, TypeOK, Streams

LEMMA ClosedType == Closed \in Streams /\ Opened \in Streams /\ Closed.wire = <<>> /\ Opened.wire = <<>> /\ Opened.open
BY EmptySeq DEF Closed, Opened, Streams

(* Before the connection is there.                                         *)
LEMMA NotConnected ==
  IndInv /\ ~closed_ /\ op \in {"resolve", "connect", "handshake"}
  => ~connected_ /\ buffer_ = NoReq /\ stream.wire = <<>> /\ connected_ = FALSE
BY DEF IndInv, StreamSound, TypeOK

(* A handler that only starts the next operation.                          *)
LEMMA GoOnKeeps ==
  IndInv /\ ~closed_ /\ ((op = "resolve" /\ GoOn("connect")) \/ (op = "send" /\ GoOn("read"))) => IndInv'
<1>0. SUFFICES ASSUME IndInv, ~closed_,
                      (op = "resolve" /\ GoOn("connect")) \/ (op = "send" /\ GoOn("read"))
               PROVE  IndInv'
  OBVIOUS
<1>1. UNCHANGED <<queueVars, lifeVars, netVars, request_, retriedTimes_>>
  BY <1>0 DEF GoOn
<1>2. /\ sends \in [Requests -> Nat] /\ retriedTimes_ \in 0..MaxRetryTimes /\ connected_ \in BOOLEAN
      /\ stream \in Streams
  BY <1>0 DEF IndInv, TypeOK, Streams
<1>3. sends[request_] <= retriedTimes_ + (IF op \in {"send", "read"} THEN 1 ELSE 0)
  BY <1>0 DEF IndInv, SendsSound
<1>4. op' \in {"connect", "read"} /\ (op' = "connect" <=> op = "resolve") /\ op # "none"
      /\ (op' \in {"send", "read"} <=> op \in {"send", "read"})
  BY <1>0 DEF GoOn
<1>5. OneStep
  <2>1. UNCHANGED <<pendingRequests_, asked, done, answer, closed_, held, dead, request_>>
        /\ sends' = sends /\ stream' = stream /\ connected_' = connected_ /\ retriedTimes_' = retriedTimes_
    BY <1>1 DEF queueVars, lifeVars, netVars
  <2> QED BY <1>0, <1>2, <1>3, <1>4, <2>1 DEF OneStep
<1>6. StreamSound'
  <2>1. /\ response_' = response_ /\ buffer_' = buffer_ /\ closed_' = closed_ /\ stream' = stream
        /\ connected_' = connected_ /\ request_' = request_
    BY <1>1 DEF queueVars, lifeVars, netVars
  <2>2. StreamSound
    BY <1>0 DEF IndInv
  <2> QED BY <1>0, <1>4, <2>1, <2>2 DEF StreamSound
<1> QED BY <1>0, <1>5, <1>6, OneStepKeeps

LEMMA OnResolveKeeps == IndInv /\ OnResolve => IndInv'
<1>0. SUFFICES ASSUME IndInv, OnResolve
               PROVE  IndInv'
  OBVIOUS
<1>1. CASE closed_ /\ Canceled
  BY <1>0, <1>1, CanceledKeeps DEF OnResolve
<1>2. CASE ~closed_ /\ GoOn("connect")
  BY <1>0, <1>2, GoOnKeeps DEF OnResolve
<1>3. ASSUME ~closed_, UNCHANGED <<connected_, buffer_>>, NEW ec \in Errors, Again(ec, stream)
      PROVE  IndInv'
  <2>1. connected_' = FALSE /\ buffer_' = NoReq /\ stream.wire = <<>>
    BY <1>0, <1>3, NotConnected DEF OnResolve
  <2> QED BY <1>0, <1>3, <2>1, AgainKeeps, StreamType DEF OnResolve
<1> QED BY <1>0, <1>1, <1>2, <1>3 DEF OnResolve

LEMMA HandshakeOkKeeps ==
  \A s : IndInv /\ ~closed_ /\ op \in {"connect", "handshake"} /\ s \in Streams
         /\ s.wire = <<>> /\ s.open /\ OnHandshakeOk(s) => IndInv'
<1>0. SUFFICES ASSUME NEW s, IndInv, ~closed_, op \in {"connect", "handshake"}, s \in Streams,
                      s.wire = <<>>, s.open, OnHandshakeOk(s)
               PROVE  IndInv'
  OBVIOUS
<1>1. /\ connected_' = TRUE /\ op' = "send"
      /\ stream' = [s EXCEPT !.wire = Append(@, request_)]
      /\ sends' = [sends EXCEPT ![request_] = @ + 1]
  BY <1>0 DEF OnHandshakeOk, SendRequest
<1>2. UNCHANGED <<pendingRequests_, asked, done, answer, closed_, held, dead, request_, response_, buffer_, retriedTimes_>>
  BY <1>0 DEF OnHandshakeOk, queueVars, lifeVars
<1>3. /\ sends \in [Requests -> Nat] /\ retriedTimes_ \in 0..MaxRetryTimes
      /\ request_ \in Requests
  BY <1>0, FirstIsOne DEF IndInv, TypeOK, InFlightIsFirst
<1>4. sends[request_] \in Nat /\ sends[request_] <= retriedTimes_
  <2>1. sends[request_] \in Nat
    BY <1>3
  <2>2. sends[request_] <= retriedTimes_ + (IF op \in {"send", "read"} THEN 1 ELSE 0)
    BY <1>0 DEF IndInv, SendsSound
  <2> QED BY <1>0, <1>3, <2>1, <2>2
<1>5. stream' \in Streams /\ stream'.wire = <<request_>> /\ stream'.open
  BY <1>0, <1>1, <1>3, Sent
<1>6. /\ sends' \in [Requests -> Nat] /\ sends'[request_] = sends[request_] + 1
      /\ \A q \in Requests : q # request_ => sends'[q] = sends[q]
  <2>1. sends' = [sends EXCEPT ![request_] = @ + 1]
    BY <1>1
  <2>2. request_ \in Requests /\ sends \in [Requests -> Nat]
    BY <1>3
  <2> QED BY <2>1, <2>2, Counted, Zenon
<1>7. OneStep
  <2>1. sends'[request_] <= retriedTimes_' + 1 /\ retriedTimes_' \in 0..MaxRetryTimes
    BY <1>2, <1>3, <1>4, <1>6
  <2>2. op # "none" /\ op' \in {"send", "read"} /\ connected_' = TRUE
    BY <1>0, <1>1
  <2>3. UNCHANGED <<pendingRequests_, asked, done, answer, closed_, held, dead, request_>>
    BY <1>2
  <2> QED BY <1>0, <1>5, <1>6, <2>1, <2>2, <2>3 DEF OneStep
<1>8. StreamSound'
  <2>1. /\ response_' = <<>> /\ ~closed_' /\ buffer_' = NoReq /\ op' = "send" /\ connected_' = TRUE
        /\ request_' = request_
    BY <1>0, <1>1, <1>2 DEF IndInv, StreamSound
  <2> QED BY <2>1, <1>5 DEF StreamSound
<1> QED BY <1>0, <1>7, <1>8, OneStepKeeps

LEMMA HandshakeErrorKeeps ==
  IndInv /\ ~closed_ /\ op \in {"connect", "handshake"} /\ OnHandshakeError => IndInv'
<1>0. SUFFICES ASSUME IndInv, ~closed_, op \in {"connect", "handshake"}, OnHandshakeError
               PROVE  IndInv'
  OBVIOUS
<1>1. PICK ec \in Errors : Again(ec, Closed)
  BY <1>0 DEF OnHandshakeError
<1>2. connected_' = FALSE /\ buffer_' = NoReq /\ op # "none"
  BY <1>0, NotConnected DEF OnHandshakeError
<1> QED BY <1>0, <1>1, <1>2, AgainKeeps, ClosedType

LEMMA OnConnectKeeps == IndInv /\ OnConnect => IndInv'
<1>0. SUFFICES ASSUME IndInv, OnConnect
               PROVE  IndInv'
  OBVIOUS
<1>a. op = "connect"
  BY <1>0 DEF OnConnect
<1>1. CASE closed_ /\ Canceled
  BY <1>0, <1>a, <1>1, CanceledKeeps
<1>2. CASE ~closed_ /\ OnHandshakeOk(Opened)
  BY <1>0, <1>a, <1>2, HandshakeOkKeeps, ClosedType
<1>3. CASE /\ ~closed_ /\ op' = "handshake" /\ stream' = Opened
           /\ UNCHANGED <<queueVars, lifeVars, connected_, buffer_, sends, request_, retriedTimes_>>
  <2>1. UNCHANGED <<pendingRequests_, asked, done, answer, closed_, held, dead, request_, response_, buffer_,
                    retriedTimes_, sends, connected_>>
    BY <1>3 DEF queueVars, lifeVars
  <2>2. /\ sends \in [Requests -> Nat] /\ retriedTimes_ \in 0..MaxRetryTimes /\ connected_ = FALSE
        /\ buffer_ = NoReq /\ response_ = <<>>
    BY <1>0, <1>a, <1>3, NotConnected DEF IndInv, TypeOK, StreamSound
  <2>3. sends[request_] <= retriedTimes_ + (IF op' \in {"send", "read"} THEN 1 ELSE 0)
    BY <1>0, <1>a, <1>3 DEF IndInv, SendsSound
  <2>4. OneStep
    BY <1>a, <1>3, <2>1, <2>2, <2>3, ClosedType DEF OneStep
  <2>5. StreamSound'
    BY <1>3, <2>1, <2>2, ClosedType DEF StreamSound
  <2> QED BY <1>0, <2>4, <2>5, OneStepKeeps
<1>4. CASE ~closed_ /\ OnHandshakeError
  BY <1>0, <1>a, <1>4, HandshakeErrorKeeps
<1>5. ASSUME ~closed_, UNCHANGED <<connected_, buffer_>>, NEW ec \in Errors, Again(ec, stream)
      PROVE  IndInv'
  <2>1. connected_' = FALSE /\ buffer_' = NoReq /\ stream.wire = <<>>
    BY <1>0, <1>a, <1>5, NotConnected
  <2> QED BY <1>0, <1>a, <1>5, <2>1, AgainKeeps, StreamType
<1> QED BY <1>0, <1>1, <1>2, <1>3, <1>4, <1>5 DEF OnConnect

LEMMA OnHandshakeKeeps == IndInv /\ OnHandshake => IndInv'
<1>0. SUFFICES ASSUME IndInv, OnHandshake
               PROVE  IndInv'
  OBVIOUS
<1>a. op = "handshake"
  BY <1>0 DEF OnHandshake
<1>1. CASE closed_ /\ Canceled
  BY <1>0, <1>a, <1>1, CanceledKeeps
<1>2. CASE ~closed_ /\ OnHandshakeOk(stream)
  <2>1. stream.wire = <<>> /\ stream.open
    BY <1>0, <1>a, <1>2, NotConnected DEF IndInv, StreamSound
  <2> QED BY <1>0, <1>a, <1>2, <2>1, HandshakeOkKeeps, StreamType
<1>3. CASE ~closed_ /\ OnHandshakeError
  BY <1>0, <1>a, <1>3, HandshakeErrorKeeps
<1> QED BY <1>0, <1>1, <1>2, <1>3 DEF OnHandshake

LEMMA OnRequestSentKeeps == IndInv /\ OnRequestSent => IndInv'
<1>0. SUFFICES ASSUME IndInv, OnRequestSent
               PROVE  IndInv'
  OBVIOUS
<1>a. op = "send"
  BY <1>0 DEF OnRequestSent
<1>1. CASE closed_ /\ Canceled
  BY <1>0, <1>a, <1>1, CanceledKeeps
<1>2. CASE ~closed_ /\ GoOn("read")
  BY <1>0, <1>a, <1>2, GoOnKeeps
<1>3. ASSUME ~closed_, connected_' = FALSE, UNCHANGED buffer_, NEW ec \in Errors, Again(ec, Closed)
      PROVE  IndInv'
  <2>1. buffer_' = NoReq
    BY <1>0, <1>3 DEF IndInv, StreamSound
  <2> QED BY <1>0, <1>a, <1>3, <2>1, AgainKeeps, ClosedType
<1> QED BY <1>0, <1>1, <1>2, <1>3 DEF OnRequestSent

(* While the client reads, the answer that comes is the first request's.   *)
LEMMA Reading ==
  IndInv /\ op = "read" /\ ~closed_
  => /\ connected_ /\ stream.open /\ stream.wire = <<request_>> /\ buffer_ = NoReq /\ response_ = <<>>
     /\ Incoming = <<request_>> /\ request_ \in Requests
<1>0. SUFFICES ASSUME IndInv, op = "read", ~closed_
               PROVE  /\ connected_ /\ stream.open /\ stream.wire = <<request_>> /\ buffer_ = NoReq /\ response_ = <<>>
                      /\ Incoming = <<request_>> /\ request_ \in Requests
  OBVIOUS
<1>1. connected_ /\ stream.open /\ stream.wire = <<request_>> /\ buffer_ = NoReq /\ response_ = <<>>
  BY <1>0 DEF IndInv, StreamSound
<1>2. request_ \in Requests
  BY <1>0, FirstIsOne DEF IndInv, InFlightIsFirst
<1> QED BY <1>1, <1>2 DEF Incoming

LEMMA OnResponseReadKeeps == IndInv /\ OnResponseRead => IndInv'
<1>0. SUFFICES ASSUME IndInv, OnResponseRead
               PROVE  IndInv'
  OBVIOUS
<1>a. op = "read"
  BY <1>0 DEF OnResponseRead
<1>1. CASE ReadClosed
  <2>1. PICK part \in {NoReq, request_}, body \in {response_, Append(response_, request_)} :
          buffer_' = part /\ Response("canceled", body, stream, connected_)
    BY <1>1 DEF ReadClosed
  <2>2. /\ closed_ /\ connected_' = connected_ /\ connected_ \in BOOLEAN /\ stream = Closed
        /\ response_ \in Seq(Requests) /\ stream \in [open : BOOLEAN, wire : Seq(Requests)]
    BY <1>0, <1>1 DEF ReadClosed, IndInv, TypeOK, StreamSound
  <2>3. request_ \in Requests
    BY <1>0, <1>a, FirstIsOne DEF IndInv, InFlightIsFirst
  <2>4. body \in Seq(Requests) /\ buffer_' \in Requests \cup {NoReq}
    BY <2>1, <2>2, <2>3
  <2>5. ResponseHyp("canceled", body, stream, connected_)
    BY <2>2, <2>4 DEF ResponseHyp, Errors
  <2> QED BY <1>0, <1>a, <2>1, <2>5, ResponseKeeps
<1>2. CASE ReadOk
  <2>1. PICK keepAlive \in BOOLEAN, ok \in BOOLEAN :
          LET body == Append(response_, Head(Incoming))
              s    == IF keepAlive THEN [stream EXCEPT !.wire = Tail(Incoming)] ELSE Closed
          IN
          /\ connected_' = (connected_ /\ keepAlive)
          /\ buffer_' = NoReq
          /\ \/ Response("ok", body, s, connected_')
             \/ /\ ~ok /\ retriedTimes_ < MaxRetryTimes
                /\ IF connected_' THEN Resend(s) ELSE Retry(s, <<>>)
    BY <1>2, Zenon DEF ReadOk
  <2> DEFINE body == Append(response_, Head(Incoming))
             s == IF keepAlive THEN [stream EXCEPT !.wire = Tail(Incoming)] ELSE Closed
  <2>2. ~closed_
    BY <1>2 DEF ReadOk
  <2>3. body = <<request_>> /\ body \in Seq(Requests) /\ Tail(Incoming) = <<>>
    <3>1. response_ = <<>> /\ Incoming = <<request_>> /\ request_ \in Requests
      BY <1>0, <1>a, <2>2, Reading
    <3>2. Head(<<request_>>) = request_ /\ Tail(<<request_>>) = <<>> /\ Append(<<>>, request_) = <<request_>>
      OBVIOUS
    <3>3. <<request_>> \in Seq(Requests)
      BY <3>1
    <3> QED BY <3>1, <3>2, <3>3
  <2>4. stream \in Streams /\ stream.open /\ connected_
    BY <1>0, <1>a, <2>2, Reading, StreamType
  <2>5. s \in Streams /\ s.wire = <<>> /\ (keepAlive => s.open)
    BY <2>3, <2>4, ClosedType, EmptySeq DEF Streams
  <2>6. connected_' = keepAlive /\ buffer_' = NoReq
    BY <2>1, <2>4
  <2> HIDE DEF body, s
  <2>7. CASE Response("ok", body, s, connected_')
    <3>1. ResponseHyp("ok", body, s, connected_')
      BY <2>2, <2>3, <2>5, <2>6 DEF ResponseHyp, Streams
    <3> QED BY <1>0, <1>a, <2>7, <3>1, ResponseKeeps
  <2>8. CASE retriedTimes_ < MaxRetryTimes /\ connected_' /\ Resend(s)
    BY <1>0, <1>a, <2>2, <2>5, <2>6, <2>8, ResendKeeps
  <2>9. CASE retriedTimes_ < MaxRetryTimes /\ ~connected_' /\ Retry(s, <<>>)
    BY <1>0, <1>a, <2>2, <2>5, <2>6, <2>9, RetryKeeps
  <2> QED BY <2>1, <2>7, <2>8, <2>9 DEF body, s
<1>3. CASE ReadError
  <2>1. ~closed_ /\ connected_' = FALSE /\ buffer_' = NoReq
    BY <1>3 DEF ReadError
  <2>2. PICK ec \in Errors, body \in {response_, Append(response_, request_)} :
          \/ CanRetry(ec) /\ Retry(Closed, <<>>)
          \/ Response(ec, body, Closed, FALSE)
    BY <1>3 DEF ReadError
  <2>3. CASE CanRetry(ec) /\ Retry(Closed, <<>>)
    BY <1>0, <1>a, <2>1, <2>3, RetryKeeps, ClosedType DEF CanRetry
  <2>4. CASE Response(ec, body, Closed, FALSE)
    <3>1. body \in {<<>>, Append(<<>>, request_)} /\ request_ \in Requests
      BY <1>0, <1>a, <2>1, Reading
    <3>3. Append(<<>>, request_) \in Seq(Requests) /\ <<>> \in Seq(Requests)
      BY <3>1, EmptySeq
    <3>4. body \in Seq(Requests)
      BY <3>1, <3>3
    <3>2. ResponseHyp(ec, body, Closed, FALSE)
      BY <2>1, <3>4, ClosedType DEF ResponseHyp, Streams, Errors
    <3> QED BY <1>0, <1>a, <2>4, <3>2, ResponseKeeps
  <2> QED BY <2>2, <2>3, <2>4
<1> QED BY <1>0, <1>1, <1>2, <1>3 DEF OnResponseRead
-----------------------------------------------------------------------------
(* The calls of the owner.                                                 *)
LEMMA PushBack ==
  \A r \in Requests :
    TypeOK /\ AnsweredInOrder /\ Distinct /\ ~InSeq(r, asked)
    => /\ Append(asked, r) \in Seq(Requests) /\ Append(pendingRequests_, r) \in Seq(Requests)
       /\ done \o Append(pendingRequests_, r) = Append(asked, r)
       /\ \A i, j \in 1..Len(Append(asked, r)) : i # j => Append(asked, r)[i] # Append(asked, r)[j]
       /\ InSeq(r, Append(asked, r))
       /\ \A q \in Requests : InSeq(q, asked) => InSeq(q, Append(asked, r))
<1> TAKE r \in Requests
<1>0. SUFFICES ASSUME TypeOK, AnsweredInOrder, Distinct, ~InSeq(r, asked)
               PROVE /\ Append(asked, r) \in Seq(Requests) /\ Append(pendingRequests_, r) \in Seq(Requests)
                     /\ done \o Append(pendingRequests_, r) = Append(asked, r)
                     /\ \A i, j \in 1..Len(Append(asked, r)) : i # j => Append(asked, r)[i] # Append(asked, r)[j]
                     /\ InSeq(r, Append(asked, r))
                     /\ \A q \in Requests : InSeq(q, asked) => InSeq(q, Append(asked, r))
  OBVIOUS
<1> DEFINE p == pendingRequests_
           A == Append(asked, r)
           x == <<r>>
<1>1. p \in Seq(Requests) /\ asked \in Seq(Requests) /\ done \in Seq(Requests) /\ x \in Seq(Requests)
  BY <1>0 DEF TypeOK
<1>2. asked = done \o p
  BY <1>0 DEF AnsweredInOrder
<1> HIDE DEF p
<1>3. /\ A \in Seq(Requests) /\ Append(p, r) \in Seq(Requests)
      /\ Len(A) = Len(asked) + 1 /\ Len(asked) \in Nat /\ A[Len(asked) + 1] = r
      /\ \A i \in 1..Len(asked) : A[i] = asked[i]
  BY <1>1, AppendProperties
<1>4. A = asked \o x /\ Append(p, r) = p \o x
  BY <1>1, AppendIsConcat
<1>5. DOMAIN A = 1..Len(A) /\ DOMAIN asked = 1..Len(asked)
  BY <1>1, <1>3, LenProperties
<1> HIDE DEF x, A
<1>6. (done \o p) \o x = done \o (p \o x)
  BY <1>1, Assoc, Zenon
<1>7. done \o Append(p, r) = A
  BY <1>2, <1>4, <1>6, Zenon
<1>8. \A i \in 1..Len(asked) : asked[i] # r
  BY <1>0, <1>5 DEF InSeq
<1>9. \A i, j \in 1..Len(A) : i # j => A[i] # A[j]
  <2> SUFFICES ASSUME NEW i \in 1..Len(A), NEW j \in 1..Len(A), i < j
               PROVE  A[i] # A[j]
    BY <1>3
  <2>1. i \in 1..Len(asked) /\ j \in Nat /\ j <= Len(asked) + 1
    BY <1>3
  <2>2. CASE j = Len(asked) + 1
    BY <2>1, <2>2, <1>3, <1>8
  <2>3. CASE j # Len(asked) + 1
    <3>1. j \in 1..Len(asked) /\ i # j
      BY <2>1, <2>3, <1>3
    <3>2. asked[i] # asked[j]
      BY <2>1, <3>1, <1>0, Zenon DEF Distinct
    <3> QED BY <2>1, <3>1, <3>2, <1>3
  <2> QED BY <2>2, <2>3
<1>10. InSeq(r, A)
  <2>1. Len(asked) + 1 \in 1..Len(A)
    BY <1>3
  <2> QED BY <2>1, <1>3, <1>5 DEF InSeq
<1>11. \A q \in Requests : InSeq(q, asked) => InSeq(q, A)
  <2>1. \A i \in 1..Len(asked) : i \in 1..Len(A)
    BY <1>3
  <2> QED BY <2>1, <1>3, <1>5 DEF InSeq
<1> QED BY <1>3, <1>7, <1>9, <1>10, <1>11 DEF A, p

LEMMA AskKeeps == \A r \in Requests : IndInv /\ Ask(r) => IndInv'
<1> TAKE r \in Requests
<1>0. SUFFICES ASSUME IndInv, Ask(r)
               PROVE  IndInv'
  OBVIOUS
<1>1. /\ held /\ ~InSeq(r, asked) /\ asked' = Append(asked, r) /\ pendingRequests_' = Append(pendingRequests_, r)
      /\ UNCHANGED <<done, answer, response_, closed_, held, dead, connected_, buffer_>>
  BY <1>0 DEF Ask, Enqueue, lifeVars
<1>2. /\ asked' \in Seq(Requests) /\ pendingRequests_' \in Seq(Requests)
      /\ done' \o pendingRequests_' = asked'
      /\ \A i, j \in 1..Len(asked') : i # j => asked'[i] # asked'[j]
      /\ InSeq(r, asked') /\ \A q \in Requests : InSeq(q, asked) => InSeq(q, asked')
  BY <1>0, <1>1, PushBack DEF IndInv
<1>3. /\ Len(pendingRequests_') = Len(pendingRequests_) + 1 /\ Len(pendingRequests_) \in Nat
      /\ \A i \in 1..Len(pendingRequests_) : pendingRequests_'[i] = pendingRequests_[i]
      /\ pendingRequests_'[Len(pendingRequests_) + 1] = r
      /\ pendingRequests_' # <<>> /\ Head(pendingRequests_') = pendingRequests_'[1]
  <2>1. pendingRequests_ \in Seq(Requests)
    BY <1>0 DEF IndInv, TypeOK
  <2>2. Len(pendingRequests_) \in Nat
    BY <2>1, LenProperties
  <2>3. /\ Len(pendingRequests_') = Len(pendingRequests_) + 1
        /\ \A i \in 1..Len(pendingRequests_) : pendingRequests_'[i] = pendingRequests_[i]
        /\ pendingRequests_'[Len(pendingRequests_) + 1] = r
        /\ pendingRequests_' # <<>>
    BY <2>1, <1>1, AppendProperties
  <2>4. Head(pendingRequests_') = pendingRequests_'[1]
    BY <1>2, <2>3, HeadTailProperties
  <2> QED BY <2>2, <2>3, <2>4
<1>4. /\ sends[r] = 0 /\ ~dead /\ sends \in [Requests -> Nat] /\ stream \in Streams
      /\ connected_ \in BOOLEAN /\ closed_ \in BOOLEAN
  BY <1>0, <1>1 DEF IndInv, SendsSound, DeadIsEmpty, TypeOK, Streams
<1>5. AnsweredInOrder' /\ Distinct' /\ AnswerIsOwn' /\ DeadIsEmpty'
  BY <1>0, <1>1, <1>2, <1>4 DEF AnsweredInOrder, Distinct, AnswerIsOwn, DeadIsEmpty, IndInv
<1>6. ASSUME op' \in {"none", "resolve", "connect", "handshake", "send", "read"},
             retriedTimes_' \in 0..MaxRetryTimes, request_' \in Requests \cup {NoReq},
             stream' \in Streams, sends' \in [Requests -> Nat]
      PROVE  TypeOK'
  <2>1. TypeOK
    BY <1>0 DEF IndInv
  <2>2. stream' \in [open : BOOLEAN, wire : Seq(Requests)]
    BY <1>6 DEF Streams
  <2> QED BY <2>1, <2>2, <1>1, <1>2, <1>6, Zenon DEF TypeOK
<1>7. CASE pendingRequests_ = <<>>
  <2>1. DoRequest(r, stream, connected_) /\ op = "none" /\ Len(pendingRequests_) = 0
    BY <1>0, <1>7 DEF Ask, IndInv, InFlightIsFirst
  <2>2. retriedTimes_' = 0 /\ request_' = r
    BY <2>1 DEF DoRequest, InitRequest
  <2>3. connected_ => op' = "send"
    BY <2>1 DEF DoRequest, InitRequest, SendRequest
  <2>4. connected_ /\ stream.open => stream' = [stream EXCEPT !.wire = Append(@, r)] /\ sends' = [sends EXCEPT ![r] = @ + 1]
    BY <2>1 DEF DoRequest, InitRequest, SendRequest
  <2>5. connected_ /\ ~stream.open => stream' = stream /\ sends' = sends
    BY <2>1, <1>4 DEF DoRequest, InitRequest, SendRequest, Streams
  <2>6. ~connected_ => op' = "resolve" /\ stream' = stream /\ sends' = sends
    BY <2>1 DEF DoRequest, InitRequest, Resolve
  <2>7. /\ closed_ => stream = Closed
        /\ ~closed_ => stream.wire = <<>> /\ (connected_ => stream.open) /\ buffer_ = NoReq
        /\ response_ = <<>>
    BY <1>0, <2>1 DEF IndInv, StreamSound
  <2>8. stream.wire = <<>>
    BY <2>7, <1>4, ClosedType
  <2>9. connected_ /\ stream.open => stream' \in Streams /\ stream'.wire = <<r>> /\ stream'.open
    BY <2>4, <2>8, <1>4, Sent, ZenonT(40)
  <2>10. /\ sends' \in [Requests -> Nat] /\ \A q \in Requests : q # r => sends'[q] = sends[q]
         /\ sends'[r] = (IF connected_ /\ stream.open THEN 1 ELSE 0)
    <3>1. CASE connected_ /\ stream.open
      <4>1. sends' = [sends EXCEPT ![r] = @ + 1] /\ r \in Requests
            /\ sends \in [Requests -> Nat] /\ sends[r] = 0
        BY <3>1, <2>4, <1>4
      <4>2. /\ [sends EXCEPT ![r] = @ + 1] \in [Requests -> Nat]
            /\ [sends EXCEPT ![r] = @ + 1][r] = sends[r] + 1
            /\ \A q \in Requests : q # r => [sends EXCEPT ![r] = @ + 1][q] = sends[q]
        BY <4>1, Counted, Zenon
      <4>3. sends[r] + 1 = 1
        BY <4>1
      <4>4. sends'[r] = 1
        BY <4>1, <4>2, <4>3, Zenon
      <4> QED BY <4>1, <4>2, <4>4, <3>1, Zenon
    <3>2. CASE ~(connected_ /\ stream.open)
      BY <3>2, <2>5, <2>6, <1>4
    <3> QED BY <3>1, <3>2
  <2>11. stream' \in Streams
    BY <2>5, <2>6, <2>9, <1>4
  <2>12. op' \in {"send", "resolve"} /\ (op' = "send" <=> connected_)
    BY <2>3, <2>6, <1>4
  <2>13. TypeOK'
    BY <1>6, <2>2, <2>10, <2>11, <2>12, ClientAssumption
  <2>14. StreamSound'
    <3>1. closed_' => stream' = Closed
      BY <1>1, <2>5, <2>6, <2>7, <1>4 DEF Closed
    <3>2. ~closed_' => IF op' \in {"send", "read"} THEN stream'.wire = <<request_'>> ELSE stream'.wire = <<>>
      BY <1>1, <2>2, <2>6, <2>7, <2>9, <2>12
    <3>3. ~closed_' => /\ buffer_' = NoReq
                       /\ op' \in {"send", "read"} => connected_'
                       /\ op' \in {"resolve", "connect", "handshake"} => ~connected_'
                       /\ op' = "handshake" \/ connected_' => stream'.open
      BY <1>1, <2>7, <2>9, <2>12
    <3> QED BY <3>1, <3>2, <3>3, <1>1, <2>7 DEF StreamSound
  <2>15. SendsSound' /\ AttemptsBounded'
    <3>1. \A q \in Requests : ~InSeq(q, asked') => sends'[q] = 0
      BY <2>10, <1>0, <1>2 DEF IndInv, SendsSound
    <3>2. 2..Len(pendingRequests_') = {}
      BY <2>1, <1>3
    <3>3. sends'[request_'] <= retriedTimes_' + (IF op' \in {"send", "read"} THEN 1 ELSE 0)
      BY <2>2, <2>10, <2>12
    <3>4. AttemptsBounded'
      BY <2>10, <1>0, ClientAssumption DEF IndInv, AttemptsBounded
    <3> QED BY <3>1, <3>2, <3>3, <3>4 DEF SendsSound
  <2>16. NeverStalled' /\ InFlightIsFirst'
    BY <1>1, <1>3, <1>4, <2>1, <2>2, <2>12 DEF NeverStalled, InFlightIsFirst
  <2> QED BY <1>5, <2>13, <2>14, <2>15, <2>16 DEF IndInv
<1>8. CASE pendingRequests_ # <<>>
  <2>1. UNCHANGED <<retriedTimes_, request_, op, stream, sends>>
    BY <1>0, <1>8 DEF Ask
  <2>2. TypeOK'
    <3>1. TypeOK
      BY <1>0 DEF IndInv
    <3> QED BY <3>1, <2>1, <1>1, <1>2, Zenon DEF TypeOK
  <2>3. StreamSound' /\ AttemptsBounded'
    BY <1>0, <1>1, <2>1 DEF IndInv, StreamSound, AttemptsBounded
  <2>4. SendsSound'
    <3>1. \A q \in Requests : ~InSeq(q, asked') => sends'[q] = 0
      BY <2>1, <1>0, <1>2 DEF IndInv, SendsSound
    <3>2. \A i \in 2..Len(pendingRequests_') : sends'[pendingRequests_'[i]] = 0
      <4> TAKE i \in 2..Len(pendingRequests_')
      <4>1. CASE i = Len(pendingRequests_) + 1
        BY <4>1, <1>3, <1>4, <2>1
      <4>2. CASE i # Len(pendingRequests_) + 1
        <5>1. i \in 2..Len(pendingRequests_) /\ pendingRequests_'[i] = pendingRequests_[i]
          BY <4>2, <1>3
        <5> QED BY <5>1, <2>1, <1>0 DEF IndInv, SendsSound
      <4> QED BY <4>1, <4>2
    <3> QED BY <3>1, <3>2, <2>1, <1>0 DEF IndInv, SendsSound
  <2>5. NeverStalled' /\ InFlightIsFirst'
    <3>1. Head(pendingRequests_') = Head(pendingRequests_)
      BY <1>0, <1>1, <1>8, HeadTailAppend DEF IndInv, TypeOK
    <3> QED BY <3>1, <1>0, <1>1, <1>3, <1>8, <2>1 DEF IndInv, NeverStalled, InFlightIsFirst
  <2> QED BY <1>5, <2>2, <2>3, <2>4, <2>5 DEF IndInv
<1> QED BY <1>7, <1>8

LEMMA CloseKeeps == IndInv /\ Close => IndInv'
<1>0. SUFFICES ASSUME IndInv, Close
               PROVE  IndInv'
  OBVIOUS
<1>1. /\ closed_' = TRUE /\ stream' = Closed
      /\ UNCHANGED <<pendingRequests_, asked, done, answer, response_, held, dead, connected_,
                     buffer_, sends, request_, retriedTimes_, op>>
  BY <1>0 DEF Close, queueVars
<1>2. TypeOK'
  <2>1. TypeOK
    BY <1>0 DEF IndInv
  <2>2. Closed \in [open : BOOLEAN, wire : Seq(Requests)]
    BY ClosedType DEF Streams
  <2>3. closed_' \in BOOLEAN /\ stream' \in [open : BOOLEAN, wire : Seq(Requests)]
    BY <1>1, <2>2, Zenon
  <2> QED BY <1>1, <2>1, <2>3, Zenon DEF TypeOK
<1>3. AnsweredInOrder' /\ NeverStalled' /\ InFlightIsFirst' /\ AnswerIsOwn' /\ AttemptsBounded'
  BY <1>0, <1>1, Zenon
     DEF IndInv, AnsweredInOrder, NeverStalled, InFlightIsFirst, AnswerIsOwn, AttemptsBounded
<1>4. Distinct' /\ DeadIsEmpty'
  BY <1>0, <1>1, Zenon DEF IndInv, Distinct, DeadIsEmpty
<1>5. SendsSound'
  BY <1>0, <1>1 DEF IndInv, SendsSound
<1>6. StreamSound'
  BY <1>0, <1>1, Zenon DEF IndInv, StreamSound
<1> QED BY <1>2, <1>3, <1>4, <1>5, <1>6 DEF IndInv

(* The destructor's callbacks.                                             *)
LEMMA CancelKeeps ==
  \A queue : TypeOK /\ AnswerIsOwn
             => /\ Cancel(answer, queue) \in [Requests -> [ec : {"none", "ok"} \cup Errors, body : Seq(Requests)]]
                /\ \A r \in Requests : Cancel(answer, queue)[r].ec = "ok" => Cancel(answer, queue)[r].body = <<r>>
<1> TAKE queue
<1>0. HAVE TypeOK /\ AnswerIsOwn
<1> DEFINE T == [ec : {"none", "ok"} \cup Errors, body : Seq(Requests)]
           c == [ec |-> "canceled", body |-> <<>>]
<1>1. c \in T /\ c.ec # "ok"
  BY EmptySeq DEF Errors
<1>2. answer \in [Requests -> T] /\ \A r \in Requests : answer[r].ec = "ok" => answer[r].body = <<r>>
  BY <1>0 DEF TypeOK, AnswerIsOwn
<1>3. Cancel(answer, queue) = [r \in Requests |-> IF InSeq(r, queue) /\ r \notin Silent THEN c ELSE answer[r]]
  BY DEF Cancel
<1> HIDE DEF T, c
<1>4. /\ Cancel(answer, queue) \in [Requests -> T]
      /\ \A r \in Requests : Cancel(answer, queue)[r].ec = "ok" => Cancel(answer, queue)[r].body = <<r>>
  BY <1>1, <1>2, <1>3
<1> QED BY <1>4 DEF T

LEMMA ReleaseKeeps == IndInv /\ Release => IndInv'
<1>0. SUFFICES ASSUME IndInv, Release
               PROVE  IndInv'
  OBVIOUS
<1>1. /\ held /\ held' = FALSE
      /\ UNCHANGED <<asked, response_, closed_, connected_, buffer_, stream, sends, request_, retriedTimes_, op>>
  BY <1>0 DEF Release, netVars
<1>2. ~dead /\ TypeOK
  BY <1>0, <1>1 DEF IndInv, DeadIsEmpty
<1>3. Distinct' /\ StreamSound' /\ AttemptsBounded'
  BY <1>0, <1>1, Zenon DEF IndInv, Distinct, StreamSound, AttemptsBounded
<1>4. CASE op = "none" /\ ~Owned(pendingRequests_)
  <2>1. /\ dead' = TRUE /\ done' = done \o pendingRequests_ /\ pendingRequests_' = <<>>
        /\ answer' = Cancel(answer, pendingRequests_)
    BY <1>0, <1>4 DEF Release
  <2>2. done' = asked /\ asked \in Seq(Requests) /\ <<>> \in Seq(Requests)
    BY <1>0, <2>1, EmptySeq DEF IndInv, AnsweredInOrder, TypeOK
  <2>3. asked \o <<>> = asked
    BY <2>2, ConcatEmptySeq
  <2>4. /\ answer' \in [Requests -> [ec : {"none", "ok"} \cup Errors, body : Seq(Requests)]]
        /\ \A r \in Requests : answer'[r].ec = "ok" => answer'[r].body = <<r>>
    BY <1>0, <2>1, CancelKeeps, Zenon DEF IndInv
  <2>5. TypeOK'
    <3>1. pendingRequests_' \in Seq(Requests) /\ done' \in Seq(Requests)
      BY <2>1, <2>2, Zenon
    <3> QED BY <1>1, <1>2, <2>1, <2>4, <3>1, Zenon DEF TypeOK
  <2>6. AnsweredInOrder' /\ DeadIsEmpty' /\ NeverStalled' /\ InFlightIsFirst' /\ AnswerIsOwn'
    BY <1>1, <1>4, <2>1, <2>2, <2>3, <2>4, Zenon
       DEF AnsweredInOrder, DeadIsEmpty, NeverStalled, InFlightIsFirst, AnswerIsOwn
  <2>7. SendsSound'
    <3>1. 2..Len(pendingRequests_') = {}
      BY <2>1, EmptySeq
    <3> QED BY <1>0, <1>1, <1>4, <3>1 DEF IndInv, SendsSound
  <2> QED BY <1>3, <2>5, <2>6, <2>7 DEF IndInv
<1>5. CASE ~(op = "none" /\ ~Owned(pendingRequests_))
  <2>1. UNCHANGED <<dead, done, answer, pendingRequests_>>
    BY <1>0, <1>5 DEF Release
  <2>2. TypeOK'
    BY <1>1, <1>2, <2>1, Zenon DEF TypeOK
  <2>3. AnsweredInOrder' /\ DeadIsEmpty' /\ NeverStalled' /\ InFlightIsFirst' /\ AnswerIsOwn'
    BY <1>0, <1>1, <1>2, <2>1, Zenon
       DEF IndInv, AnsweredInOrder, DeadIsEmpty, NeverStalled, InFlightIsFirst, AnswerIsOwn
  <2>4. SendsSound'
    BY <1>0, <1>1, <2>1 DEF IndInv, SendsSound
  <2> QED BY <1>3, <2>2, <2>3, <2>4 DEF IndInv
<1> QED BY <1>4, <1>5
-----------------------------------------------------------------------------
LEMMA InitKeeps == Init => IndInv
<1>0. SUFFICES ASSUME Init
               PROVE  IndInv
  OBVIOUS
<1>1. Len(<<>>) = 0 /\ DOMAIN <<>> = {} /\ <<>> \in Seq(Requests) /\ <<>> \o <<>> = <<>>
  BY EmptySeq
<1>2. NoAnswer \in [ec : {"none", "ok"} \cup Errors, body : Seq(Requests)] /\ NoAnswer.ec # "ok"
  BY <1>1 DEF NoAnswer
<1>3. TypeOK
  <2>1. /\ answer \in [Requests -> [ec : {"none", "ok"} \cup Errors, body : Seq(Requests)]]
        /\ sends \in [Requests -> Nat] /\ retriedTimes_ \in 0..MaxRetryTimes
    BY <1>0, <1>2, ClientAssumption DEF Init
  <2>2. stream \in [open : BOOLEAN, wire : Seq(Requests)]
    BY <1>0, ClosedType DEF Init, Streams
  <2> QED BY <1>0, <1>1, <2>1, <2>2 DEF Init, TypeOK
<1>4. AnswerIsOwn /\ AttemptsBounded /\ SendsSound
  BY <1>0, <1>1, <1>2, ClientAssumption DEF Init, AnswerIsOwn, AttemptsBounded, SendsSound
<1>5. AnsweredInOrder /\ NeverStalled /\ InFlightIsFirst /\ Distinct /\ DeadIsEmpty
  BY <1>0, <1>1 DEF Init, AnsweredInOrder, NeverStalled, InFlightIsFirst, Distinct, DeadIsEmpty
<1>6. StreamSound
  BY <1>0 DEF Init, StreamSound, Closed
<1> QED BY <1>3, <1>4, <1>5, <1>6 DEF IndInv

LEMMA StutterKeeps == IndInv /\ UNCHANGED vars => IndInv'
<1>0. SUFFICES ASSUME IndInv, UNCHANGED vars
               PROVE  IndInv'
  OBVIOUS
<1>1. UNCHANGED <<pendingRequests_, asked, done, answer, response_, closed_, held, dead, connected_,
                  buffer_, stream, sends, request_, retriedTimes_, op>>
  BY <1>0 DEF vars, queueVars, lifeVars, netVars
<1>2. TypeOK' /\ AnsweredInOrder' /\ NeverStalled' /\ InFlightIsFirst' /\ AnswerIsOwn' /\ AttemptsBounded'
  BY <1>0, <1>1, Zenon
     DEF IndInv, TypeOK, AnsweredInOrder, NeverStalled, InFlightIsFirst, AnswerIsOwn, AttemptsBounded
<1>3. Distinct' /\ StreamSound' /\ DeadIsEmpty'
  BY <1>0, <1>1, Zenon DEF IndInv, Distinct, StreamSound, DeadIsEmpty
<1>4. SendsSound'
  BY <1>0, <1>1 DEF IndInv, SendsSound
<1> QED BY <1>2, <1>3, <1>4 DEF IndInv

LEMMA NextKeeps == IndInv /\ [Next]_vars => IndInv'
<1>0. SUFFICES ASSUME IndInv, [Next]_vars
               PROVE  IndInv'
  OBVIOUS
<1>1. CASE UNCHANGED vars
  BY <1>0, <1>1, StutterKeeps, Zenon
<1>2. CASE \E r \in Requests : Ask(r)
  BY <1>0, <1>2, AskKeeps, Zenon
<1>3. CASE Close
  BY <1>0, <1>3, CloseKeeps, Zenon
<1>4. CASE Release
  BY <1>0, <1>4, ReleaseKeeps, Zenon
<1>5. CASE Handler
  BY <1>0, <1>5, OnResolveKeeps, OnConnectKeeps, OnHandshakeKeeps, OnRequestSentKeeps, OnResponseReadKeeps, Zenon
     DEF Handler
<1> QED BY <1>0, <1>1, <1>2, <1>3, <1>4, <1>5, Zenon DEF Next
-----------------------------------------------------------------------------
(* The invariant behind all the properties of the client: every handler,   *)
(* Get, Post, Close and the destructor keep it, whatever the callbacks do. *)
THEOREM ClientInvariant == Spec => []IndInv
BY InitKeeps, NextKeeps, PTL DEF Spec

(* Every variable of the client keeps its type; retriedTimes_ in           *)
(* particular never exceeds maxRetryTimes_.                                *)
THEOREM ClientTypes == Spec => []TypeOK
<1>1. IndInv => TypeOK
  BY DEF IndInv
<1> QED BY <1>1, ClientInvariant, PTL

(* Requests are answered once, in order, and none is lost: response()'s    *)
(* pop_front, the requests of its callback, and the destructor's loop.     *)
THEOREM ClientOrder == Spec => []AnsweredInOrder
<1>1. IndInv => AnsweredInOrder
  BY DEF IndInv
<1> QED BY <1>1, ClientInvariant, PTL

(* An open client with requests always has an operation under way.         *)
THEOREM ClientNeverStalls == Spec => []NeverStalled
<1>1. IndInv => NeverStalled
  BY DEF IndInv
<1> QED BY <1>1, ClientInvariant, PTL

(* The operation under way is about the first request of the queue.        *)
THEOREM ClientInFlight == Spec => []InFlightIsFirst
<1>1. IndInv => InFlightIsFirst
  BY DEF IndInv
<1> QED BY <1>1, ClientInvariant, PTL

(* A callback without an error gets the answer to its own request and no   *)
(* other: on_response_read drops the connection whenever it gives up on    *)
(* an answer, and clears the body before it asks again.                    *)
THEOREM ClientAnswers == Spec => []AnswerIsOwn
<1>1. IndInv => AnswerIsOwn
  BY DEF IndInv
<1> QED BY <1>1, ClientInvariant, PTL

(* retriedTimes_ bounds how often a request reaches the server.            *)
THEOREM ClientAttempts == Spec => []AttemptsBounded
<1>1. IndInv => AttemptsBounded
  BY DEF IndInv
<1> QED BY <1>1, ClientInvariant, PTL
-----------------------------------------------------------------------------
(* On a closed client a handler only calls response(), which then starts   *)
(* nothing.                                                                *)
LEMMA ResponseQuiet ==
  \A ec, body, s, conn : closed_ /\ Response(ec, body, s, conn) => op' = "none" /\ sends' = sends
<1>0. SUFFICES ASSUME NEW ec, NEW body, NEW s, NEW conn, closed_, Response(ec, body, s, conn)
               PROVE  op' = "none" /\ sends' = sends
  OBVIOUS
<1>1. \E rest, close, s2 :
        IF StartsNext(rest, close)
        THEN DoRequest(Head(rest), s2, conn)
        ELSE op' = "none" /\ stream' = s2 /\ UNCHANGED <<sends, retriedTimes_, request_>>
  BY <1>0, ZenonT(40) DEF Response
<1>2. \A rest, close : ~StartsNext(rest, close)
  BY <1>0, Zenon DEF StartsNext
<1> QED BY <1>1, <1>2, Zenon

LEMMA CanceledQuiet == closed_ /\ Canceled => op' = "none" /\ sends' = sends
BY ResponseQuiet, Zenon DEF Canceled

LEMMA HandlerQuiet == closed_ /\ Handler => op' = "none" /\ sends' = sends
<1>0. SUFFICES ASSUME closed_, Handler
               PROVE  op' = "none" /\ sends' = sends
  OBVIOUS
<1>1. CASE OnResolve
  BY <1>0, <1>1, CanceledQuiet, Zenon DEF OnResolve
<1>2. CASE OnConnect
  BY <1>0, <1>2, CanceledQuiet, Zenon DEF OnConnect
<1>3. CASE OnHandshake
  BY <1>0, <1>3, CanceledQuiet, Zenon DEF OnHandshake
<1>4. CASE OnRequestSent
  BY <1>0, <1>4, CanceledQuiet, Zenon DEF OnRequestSent
<1>5. CASE OnResponseRead
  <2>1. ReadClosed
    BY <1>0, <1>5, Zenon DEF OnResponseRead, ReadOk, ReadError
  <2> QED BY <1>0, <2>1, ResponseQuiet, Zenon DEF ReadClosed
<1> QED BY <1>0, <1>1, <1>2, <1>3, <1>4, <1>5, Zenon DEF Handler

LEMMA AskQuiet ==
  \A r \in Requests : closed_ /\ StreamSound /\ Ask(r)
                      => sends' = sends /\ (op' = op \/ op' \in {"send", "resolve"})
<1> TAKE r \in Requests
<1>0. SUFFICES ASSUME closed_, StreamSound, Ask(r)
               PROVE  sends' = sends /\ (op' = op \/ op' \in {"send", "resolve"})
  OBVIOUS
<1>1. stream = Closed /\ ~Closed.open
  BY <1>0 DEF StreamSound, Closed
<1>2. CASE pendingRequests_ = <<>>
  <2>1. DoRequest(r, stream, connected_)
    BY <1>0, <1>2 DEF Ask
  <2> QED BY <1>1, <2>1 DEF DoRequest, InitRequest, SendRequest, Resolve
<1>3. CASE pendingRequests_ # <<>>
  BY <1>0, <1>3 DEF Ask
<1> QED BY <1>2, <1>3

(* After Close nothing reaches the server and no connection is begun, also *)
(* for requests made later and by operations that end after Close.         *)
THEOREM ClientQuiet == Spec => QuietAfterClose
<1> DEFINE Quiet == closed_ => sends' = sends /\ (op' \in {"connect", "handshake"} => op' = op)
<1>1. IndInv /\ [Next]_vars => [Quiet]_vars
  <2>0. SUFFICES ASSUME IndInv, Next, closed_
                 PROVE  sends' = sends /\ (op' \in {"connect", "handshake"} => op' = op)
    BY Zenon
  <2>1. CASE \E r \in Requests : Ask(r)
    <3>1. StreamSound
      BY <2>0 DEF IndInv
    <3>2. sends' = sends /\ (op' = op \/ op' \in {"send", "resolve"})
      BY <2>0, <2>1, <3>1, AskQuiet, Zenon
    <3> QED BY <3>2
  <2>2. CASE Close
    BY <2>0, <2>2 DEF Close
  <2>3. CASE Release
    BY <2>3 DEF Release, netVars
  <2>4. CASE Handler
    <3>1. op' = "none" /\ sends' = sends
      BY <2>0, <2>4, HandlerQuiet, Zenon
    <3> QED BY <3>1
  <2> QED BY <2>0, <2>1, <2>2, <2>3, <2>4, Zenon DEF Next
<1> QED BY <1>1, ClientInvariant, PTL DEF Spec, QuietAfterClose
===============================================================================
