-------------------------------- MODULE Kafka --------------------------------
(***************************************************************************)
(* KafkaTopicConfig, KafkaGlobalConfig, KafkaHeaders, KafkaProducer and    *)
(* KafkaConsumer, wrappers that own objects of librdkafka.  The library    *)
(* and the broker are external: the library copies a configuration it is   *)
(* given, frees the headers of a message it accepts and of no other, and   *)
(* holds a message until its delivery report has been polled.              *)
(* The bool and the throwing form of a setter differ in how they report    *)
(* the failure; both are the same action here.                             *)
(***************************************************************************)
EXTENDS Naturals, Sequences, FiniteSets

CONSTANTS
  TopicConfigs,  \* the KafkaTopicConfig objects of the application
  Messages,      \* the messages it produces, each with a KafkaHeaders object
  QueueMax,      \* queue.buffering.max.messages
  LogEnd,        \* bound: length of the log the consumer reads
  MaxFailures    \* bound: failed calls, lost commits and restarts
ASSUME KafkaAssumption ==
  /\ "null" \notin TopicConfigs
  /\ QueueMax \in Nat \ {0} /\ LogEnd \in Nat /\ MaxFailures \in Nat

VARIABLES cfg, prod, cons, failures

kafkaVars == <<cfg, prod, cons, failures>>

Null == "null"
Fails == failures < MaxFailures /\ failures' = failures + 1
Works == failures' = failures

-----------------------------------------------------------------------------
(* Configurations.  A Conf of a topic is named by the object that created  *)
(* it; value is what has been set in it.  cfg.own is conf_ of each         *)
(* KafkaTopicConfig, cfg.def is defTopicConf_, cfg.dup the library's copy. *)

(* A key of a topic and one of the library stand for those that change     *)
(* nothing here.  The consumer's count as set when they have the value     *)
(* that is not the default: false, false, smallest.  The last is a topic's *)
(* key, which the library also takes in the global configuration.          *)
TopicKeys == {"request.required.acks"}
GlobalKeys == {"metadata.broker.list"}
ConsumerKeys == {"enable.auto.commit", "enable.auto.offset.store", "auto.offset.reset"}

CfgInit ==
  [own |-> [t \in TopicConfigs |-> t], value |-> [t \in TopicConfigs |-> {}],
   def |-> Null, dup |-> {}, keys |-> {}, cbs |-> {}]

(* conf_->set(key, value), false or KafkaConfException out of range.       *)
TopicSet(t, key) ==
  /\ cfg.own[t] # Null /\ key \notin cfg.value[cfg.own[t]]
  /\ \/ Works /\ cfg' = [cfg EXCEPT !.value[cfg.own[t]] = @ \cup {key}]
     \/ Fails /\ UNCHANGED cfg
  /\ UNCHANGED <<prod, cons>>

GlobalSet(key) ==
  /\ key \notin cfg.keys
  /\ \/ Works /\ cfg' = [cfg EXCEPT !.keys = @ \cup {key}]
     \/ Fails /\ UNCHANGED cfg
  /\ UNCHANGED <<prod, cons>>

SwapDefault(c, t) == [c EXCEPT !.own[t] = c.def, !.def = c.own[t]]

(* Swapped, and swapped back when the library refuses.  The topicCfg of a  *)
(* successful call holds the default before it, not nothing.               *)
SetDefaultTopicConf(t) ==
  /\ cfg.own[t] # Null
  /\ LET s == SwapDefault(cfg, t)
     IN \/ Works /\ cfg' = [s EXCEPT !.dup = s.value[s.def]]
        \/ Fails /\ cfg' = SwapDefault(s, t)
  /\ UNCHANGED <<prod, cons>>

(* SetSslCert: kept by the library or refused.                             *)
SetSslCert ==
  /\ "cert" \notin cfg.keys
  /\ \/ Works /\ cfg' = [cfg EXCEPT !.keys = @ \cup {"cert"}]
     \/ Fails /\ UNCHANGED cfg
  /\ UNCHANGED <<prod, cons>>

SetCallback(cb) ==
  /\ cb \notin cfg.cbs
  /\ \/ Works /\ cfg' = [cfg EXCEPT !.cbs = @ \cup {cb}]
     \/ Fails /\ UNCHANGED cfg
  /\ UNCHANGED <<prod, cons>>

SetDeliveryReportCallback == SetCallback("dr_cb")
SetOffsetCommitCallback == SetCallback("offset_commit_cb")
(* The other callbacks change nothing of what is modelled.                 *)
SetEventCallback == SetCallback("event_cb")
SetSocketCallback == SetCallback("socket_cb")

-----------------------------------------------------------------------------
(* The producer.  prod.q is the library's queue, where a message counts    *)
(* until its report has been polled; the order of the reports is left      *)
(* open.  hdr[m] holds the number of headers of m's KafkaHeaders ({} once  *)
(* the library owns them), added what the application added; reported (the *)
(* number of callbacks for each), silent (gone without one) and lost are   *)
(* histories.                                                              *)
ProdInit ==
  [p |-> Null, cbs |-> {}, q |-> {}, hdr |-> [m \in Messages |-> {0}], added |-> [m \in Messages |-> 0],
   accepted |-> {}, reported |-> [m \in Messages |-> 0], silent |-> {}, lost |-> {}, ended |-> FALSE]

QueuedIds(q) == {e.m : e \in q}

(* A second Init, or one that fails, destroys the producer there was, and  *)
(* does not flush it; both count as failures here.                         *)
ProducerInit ==
  /\ ~prod.ended
  /\ \/ /\ Works /\ prod.p = Null
        /\ prod' = [prod EXCEPT !.p = "ready", !.cbs = cfg.cbs]
     \/ /\ Fails /\ \E p \in {"ready", Null} :
           prod' = [prod EXCEPT !.p = p, !.cbs = cfg.cbs, !.q = {}, !.lost = @ \cup QueuedIds(prod.q)]
  /\ UNCHANGED <<cfg, cons>>

(* KafkaHeaders::Add.                                                      *)
AddHeader(m) ==
  /\ ~prod.ended /\ prod.hdr[m] = {0} /\ m \notin prod.accepted
  /\ prod' = [prod EXCEPT !.hdr[m] = {1}, !.added[m] = 1]
  /\ Works /\ UNCHANGED <<cfg, cons>>

Entry(m, h) == [m |-> m, hdr |-> h, at |-> "queued"]

(* Produce without headers.                                                *)
Produce(m) ==
  /\ prod.p = "ready" /\ prod.added[m] = 0 /\ m \notin prod.accepted
  /\ IF Cardinality(prod.q) < QueueMax
     THEN prod' = [prod EXCEPT !.q = @ \cup {Entry(m, {0})}, !.accepted = @ \cup {m}]
     ELSE UNCHANGED prod
  /\ Works /\ UNCHANGED <<cfg, cons>>

(* Produce with headers, with and without a payload: they are released     *)
(* before the call and taken back if it fails (ERR__QUEUE_FULL and the     *)
(* errors of the message).                                                 *)
MutProduceHeaders(m) ==
  /\ prod.p = "ready" /\ prod.added[m] # 0 /\ m \notin prod.accepted
  /\ LET released == [prod EXCEPT !.hdr[m] = {}]
     IN prod' = IF Cardinality(prod.q) < QueueMax
                THEN [released EXCEPT !.q = @ \cup {Entry(m, prod.hdr[m])}, !.accepted = @ \cup {m}]
                ELSE released
  /\ Works /\ UNCHANGED <<cfg, cons>>

ProduceHeaders(m) ==
  /\ prod.p = "ready" /\ prod.added[m] # 0 /\ m \notin prod.accepted
  /\ LET h == prod.hdr[m]
         released == [prod EXCEPT !.hdr[m] = {}]
     IN IF Cardinality(prod.q) < QueueMax
        THEN prod' = [released EXCEPT !.q = @ \cup {Entry(m, h)}, !.accepted = @ \cup {m}]
        ELSE prod' = [released EXCEPT !.hdr[m] = h]
  /\ Works /\ UNCHANGED <<cfg, cons>>

Reported(q) == {e \in q : e.at = "done"}
Waiting(q) == {e \in q : e.at = "queued"}

(* The broker acknowledges a message, or its timeout expires.              *)
Acknowledge ==
  /\ prod.p = "ready"
  /\ \E e \in Waiting(prod.q) :
        prod' = [prod EXCEPT !.q = (@ \ {e}) \cup {[e EXCEPT !.at = "done"]}]
  /\ Works /\ UNCHANGED <<cfg, cons>>

(* The reports that are due are made, if dr_cb was set before Init.        *)
Counted(n, ids) == [m \in Messages |-> IF m \in ids THEN n[m] + 1 ELSE n[m]]
Served(p) ==
  LET due == QueuedIds(Reported(p.q))
  IN IF "dr_cb" \in p.cbs
     THEN [p EXCEPT !.q = Waiting(@), !.reported = Counted(@, due)]
     ELSE [p EXCEPT !.q = Waiting(@), !.silent = @ \cup due]

Poll ==
  /\ prod.p = "ready" /\ Reported(prod.q) # {}
  /\ prod' = Served(prod)
  /\ Works /\ UNCHANGED <<cfg, cons>>

(* ~KafkaProducer: flush(3000), then the library drops what is left.       *)
DestroyProducer ==
  /\ ~prod.ended
  /\ LET s == IF prod.p = Null THEN prod ELSE Served(prod)
     IN prod' = [s EXCEPT !.ended = TRUE, !.p = Null, !.q = {}, !.lost = @ \cup QueuedIds(s.q)]
  /\ Works /\ UNCHANGED <<cfg, cons>>

-----------------------------------------------------------------------------
(* The consumer of one partition.  committed is the broker's ({} before    *)
(* the first commit), pos the next offset the library gives out, stored    *)
(* what it commits by itself, taken what the application was given and has *)
(* not handled, commits the commits under way.  handled outlives a crash   *)
(* of the process, and so do two histories: auto, what consumers that      *)
(* store and commit by themselves gave out, and reset, the furthest a      *)
(* subscription without a committed offset has begun.                      *)
ConsInit ==
  [c |-> Null, set |-> {}, sub |-> FALSE, pos |-> 0, taken |-> <<>>, last |-> {}, stored |-> {},
   commits |-> {}, committed |-> {}, handled |-> {}, auto |-> {}, reset |-> 0]

Default(key) == key \notin cons.set
Automatic == Default("enable.auto.commit") /\ Default("enable.auto.offset.store")

(* Init(cfg), or Init(nullptr) with the defaults.                          *)
ConsumerInit ==
  /\ cons.c = Null
  /\ \/ Works /\ \E keys \in {{}, cfg.keys \cap ConsumerKeys} :
                    cons' = [cons EXCEPT !.c = "ready", !.set = keys]
     \/ Fails /\ UNCHANGED cons
  /\ UNCHANGED <<cfg, prod>>

(* External: where fetching begins, at the committed offset; before there  *)
(* is one, at the log's end, which only grows, or at its beginning.        *)
Beginnings ==
  IF cons.committed # {} THEN cons.committed
  ELSE IF Default("auto.offset.reset") THEN cons.reset..LogEnd ELSE {0}

(* A subscribed consumer is unsubscribed first.                            *)
Subscribe ==
  /\ cons.c = "ready" /\ ~cons.sub
  /\ \/ Works /\ \E o \in Beginnings :
          cons' = [cons EXCEPT !.sub = TRUE, !.pos = o,
                               !.reset = IF cons.committed = {} /\ o > @ THEN o ELSE @]
     \/ Fails /\ UNCHANGED cons
  /\ UNCHANGED <<cfg, prod>>

(* External: enable.auto.commit, every auto.commit.interval.ms, and once   *)
(* more when the consumer gives up its partition.                          *)
StoredCommits == IF Default("enable.auto.commit") THEN cons.commits \cup cons.stored ELSE cons.commits

AutoCommit ==
  /\ cons.c = "ready" /\ Default("enable.auto.commit") /\ cons.stored # {}
  /\ cons' = [cons EXCEPT !.commits = StoredCommits, !.stored = {}]
  /\ Works /\ UNCHANGED <<cfg, prod>>

Unsubscribe ==
  /\ cons.c = "ready" /\ cons.sub
  /\ Fails /\ cons' = [cons EXCEPT !.sub = FALSE, !.commits = StoredCommits, !.stored = {}]
  /\ UNCHANGED <<cfg, prod>>

(* Consume: the next message; a timeout changes nothing.  The library      *)
(* stores the offset after it as soon as it is given out.                  *)
Consume ==
  /\ cons.c = "ready" /\ cons.sub /\ cons.pos < LogEnd
  /\ cons' = [cons EXCEPT !.pos = @ + 1, !.taken = Append(@, cons.pos),
                          !.stored = IF Default("enable.auto.offset.store") THEN {cons.pos + 1} ELSE @,
                          !.auto = IF Automatic THEN @ \cup {cons.pos} ELSE @]
  /\ Works /\ UNCHANGED <<cfg, prod>>

(* The application handles what it was given in order.                     *)
Handle ==
  /\ cons.c = "ready" /\ cons.taken # <<>>
  /\ cons' = [cons EXCEPT !.taken = Tail(@), !.handled = @ \cup {Head(cons.taken)}, !.last = {Head(cons.taken)}]
  /\ Works /\ UNCHANGED <<cfg, prod>>

(* AsyncCommit(msg), the offset after msg; the broker applies commits in   *)
(* any order, and some never.                                              *)
CommitOf(o) == cons' = [cons EXCEPT !.commits = @ \cup {o}, !.last = {}]

MutAsyncCommit ==
  /\ cons.c = "ready" /\ cons.last # {}
  /\ CommitOf(cons.pos)
  /\ Works /\ UNCHANGED <<cfg, prod>>

AsyncCommit ==
  /\ cons.c = "ready"
  /\ \E msg \in cons.last : CommitOf(msg + 1)
  /\ Works /\ UNCHANGED <<cfg, prod>>

Committed ==
  \E o \in cons.commits :
    /\ \/ Works /\ cons' = [cons EXCEPT !.commits = @ \ {o}, !.committed = {o}]
       \/ Fails /\ cons' = [cons EXCEPT !.commits = @ \ {o}]
    /\ UNCHANGED <<cfg, prod>>

Ended(commits) ==
  [ConsInit EXCEPT !.committed = cons.committed, !.handled = cons.handled, !.auto = cons.auto,
                   !.reset = cons.reset, !.commits = commits]

(* ~KafkaConsumer: close, which gives up the partition.  It does not look  *)
(* at consumer_, so that an object whose Init failed ends the process; the *)
(* process may also end at any other time.                                 *)
DestroyConsumer == Fails /\ cons' = Ended(StoredCommits) /\ UNCHANGED <<cfg, prod>>
Killed == Fails /\ cons' = Ended(cons.commits) /\ UNCHANGED <<cfg, prod>>

-----------------------------------------------------------------------------
KafkaInit == cfg = CfgInit /\ prod = ProdInit /\ cons = ConsInit /\ failures = 0

ConfigNext ==
  \/ \E t \in TopicConfigs : SetDefaultTopicConf(t) \/ \E key \in TopicKeys : TopicSet(t, key)
  \/ \E key \in GlobalKeys : GlobalSet(key)
  \/ SetSslCert \/ SetOffsetCommitCallback \/ SetEventCallback \/ SetSocketCallback
ProducerNext ==
  \/ SetDeliveryReportCallback \/ ProducerInit \/ Acknowledge \/ Poll \/ DestroyProducer
  \/ \E m \in Messages : AddHeader(m) \/ Produce(m) \/ ProduceHeaders(m)
ConsumerNext ==
  \/ ConsumerInit \/ Subscribe \/ Unsubscribe \/ Consume
  \/ Handle \/ AsyncCommit \/ AutoCommit \/ Committed \/ DestroyConsumer \/ Killed
  \/ \E key \in ConsumerKeys : GlobalSet(key)

KafkaSpec == KafkaInit /\ [][ConfigNext \/ ProducerNext \/ ConsumerNext]_kafkaVars
-----------------------------------------------------------------------------
PlaceOf(m) ==
  /\ ~(m \in QueuedIds(prod.q) /\ m \in prod.lost \cup prod.silent)
  /\ prod.reported[m] # 0 => m \notin QueuedIds(prod.q) \cup prod.lost \cup prod.silent
  /\ m \in prod.accepted <=> m \in QueuedIds(prod.q) \cup prod.lost \cup prod.silent \/ prod.reported[m] = 1

(* Every message Produce accepted is with the library, or was reported     *)
(* once, or was dropped by a flush that timed out or a second Init; none   *)
(* that Produce refused is reported.  It carries the headers that were     *)
(* added to it, after any number of refusals and retries.  The settings    *)
(* the library copied are those of the object defTopicConf_ keeps, also    *)
(* after refused calls, and no Conf has two owners.                        *)
KafkaDelivers ==
  /\ \A m \in Messages : PlaceOf(m) /\ prod.reported[m] <= 1
  /\ \A e \in prod.q : e.hdr = {prod.added[e.m]}
  /\ cfg.def # Null => cfg.dup = cfg.value[cfg.def]
  /\ \A t, u \in TopicConfigs :
        cfg.own[t] # Null => cfg.own[t] # cfg.def /\ (t # u => cfg.own[t] # cfg.own[u])

(* An application that commits what it has handled skips no message: all   *)
(* before the committed offset was handled, over crashes, lost and         *)
(* reordered commits and new subscriptions.  By default this is not so:    *)
(* consumers that store and commit by themselves may commit what was only  *)
(* given out, and without a committed offset a consumer begins at the end  *)
(* of the log; nothing else is skipped then either.                        *)
AtLeastOnce ==
  \A c \in cons.committed : \A o \in 0..LogEnd :
    o < c => o \in cons.handled \cup cons.auto \/ o < cons.reset
==============================================================================
