----------------------------- MODULE Kafka_proofs -----------------------------
(***************************************************************************)
(* Proofs about Kafka, for any number of configurations and messages, any  *)
(* size of the library's queue and any number of failures: the three parts *)
(* of the module share only the callbacks the configuration has and the    *)
(* count of failures, so each has an inductive invariant of its own.       *)
(***************************************************************************)
EXTENDS Kafka, TLAPS

KafkaNext == ConfigNext \/ ProducerNext \/ ConsumerNext
-----------------------------------------------------------------------------
(* The configurations.                                                     *)

Keys == TopicKeys
Callbacks == {"dr_cb", "offset_commit_cb", "event_cb", "socket_cb"}
ConfigType ==
  cfg \in [own : [TopicConfigs -> TopicConfigs \cup {Null}],
           value : [TopicConfigs -> SUBSET Keys],
           def : TopicConfigs \cup {Null},
           dup : SUBSET Keys,
           keys : SUBSET (GlobalKeys \cup ConsumerKeys \cup {"cert"}),
           cbs : SUBSET Callbacks]

(* No Conf has two owners, and the library's copy is that of the default.  *)
OneOwner ==
  \A t, u \in TopicConfigs :
    cfg.own[t] # Null => cfg.own[t] # cfg.def /\ (t # u => cfg.own[t] # cfg.own[u])
CopyIsDefault == cfg.def # Null => cfg.dup = cfg.value[cfg.def]

ConfigInv == ConfigType /\ OneOwner /\ CopyIsDefault

LEMMA InitConfig == KafkaInit => ConfigInv
BY KafkaAssumption DEF KafkaInit, CfgInit, ConfigInv, ConfigType, OneOwner, CopyIsDefault, Null

LEMMA TopicSetConfig ==
  ASSUME ConfigInv, NEW t \in TopicConfigs, NEW key \in TopicKeys, TopicSet(t, key)
  PROVE  ConfigInv'
<1>1. CASE UNCHANGED cfg
  BY <1>1 DEF ConfigInv, ConfigType, OneOwner, CopyIsDefault
<1>2. CASE cfg' = [cfg EXCEPT !.value[cfg.own[t]] = @ \cup {key}]
  <2>1. cfg.own[t] \in TopicConfigs /\ cfg.own[t] # cfg.def
    BY DEF ConfigInv, ConfigType, OneOwner, TopicSet
  <2>2. ConfigType'
    BY <1>2, <2>1 DEF ConfigInv, ConfigType, Keys
  <2>3. cfg'.own = cfg.own /\ cfg'.def = cfg.def /\ cfg'.dup = cfg.dup
    BY <1>2 DEF ConfigInv, ConfigType
  <2>4. cfg.def # Null => cfg'.value[cfg.def] = cfg.value[cfg.def]
    BY <1>2, <2>1 DEF ConfigInv, ConfigType
  <2> QED BY <2>2, <2>3, <2>4 DEF ConfigInv, OneOwner, CopyIsDefault
<1> QED BY <1>1, <1>2 DEF TopicSet

LEMMA SwapTwice ==
  ASSUME ConfigType, NEW t \in TopicConfigs
  PROVE  SwapDefault(SwapDefault(cfg, t), t) = cfg
BY DEF SwapDefault, ConfigType

LEMMA SetDefaultConfig ==
  ASSUME ConfigInv, NEW t \in TopicConfigs, SetDefaultTopicConf(t)
  PROVE  ConfigInv'
<1> DEFINE s == SwapDefault(cfg, t)
<1>1. CASE cfg' = SwapDefault(s, t)
  BY <1>1, SwapTwice DEF ConfigInv, ConfigType, OneOwner, CopyIsDefault
<1>2. CASE cfg' = [s EXCEPT !.dup = s.value[s.def]]
  <2>1. /\ cfg'.own = [cfg.own EXCEPT ![t] = cfg.def] /\ cfg'.def = cfg.own[t]
        /\ cfg'.value = cfg.value /\ cfg'.dup = cfg.value[cfg.own[t]]
        /\ cfg.own[t] \in TopicConfigs
    BY <1>2 DEF SwapDefault, ConfigInv, ConfigType, SetDefaultTopicConf
  <2>2. ConfigType'
    BY <1>2, <2>1 DEF SwapDefault, ConfigInv, ConfigType
  <2>3. OneOwner'
    BY <2>1 DEF ConfigInv, ConfigType, OneOwner
  <2> QED BY <2>1, <2>2, <2>3 DEF ConfigInv, CopyIsDefault
<1> QED BY <1>1, <1>2 DEF SetDefaultTopicConf

LEMMA KeysConfig ==
  ASSUME ConfigInv,
         \/ \E key \in GlobalKeys \cup ConsumerKeys : GlobalSet(key)
         \/ SetSslCert \/ SetDeliveryReportCallback \/ SetOffsetCommitCallback
         \/ SetEventCallback \/ SetSocketCallback
  PROVE  ConfigInv'
<1>1. CASE UNCHANGED cfg
  BY <1>1 DEF ConfigInv, ConfigType, OneOwner, CopyIsDefault
<1>2. ASSUME NEW key \in GlobalKeys \cup ConsumerKeys \cup {"cert"},
             cfg' = [cfg EXCEPT !.keys = @ \cup {key}]
      PROVE  ConfigInv'
  BY <1>2 DEF ConfigInv, ConfigType, OneOwner, CopyIsDefault
<1>3. ASSUME NEW cb \in Callbacks, cfg' = [cfg EXCEPT !.cbs = @ \cup {cb}]
      PROVE  ConfigInv'
  BY <1>3 DEF ConfigInv, ConfigType, OneOwner, CopyIsDefault
<1> QED BY <1>1, <1>2, <1>3
        DEF GlobalSet, SetSslCert, SetDeliveryReportCallback, SetOffsetCommitCallback, SetEventCallback,
            SetSocketCallback, SetCallback, Callbacks

LEMMA NextConfig == ConfigInv /\ [KafkaNext]_kafkaVars => ConfigInv'
<1> SUFFICES ASSUME ConfigInv, [KafkaNext]_kafkaVars PROVE ConfigInv'
  OBVIOUS
<1>1. CASE UNCHANGED cfg
  BY <1>1 DEF ConfigInv, ConfigType, OneOwner, CopyIsDefault
<1>2. CASE ConfigNext
  BY <1>2, TopicSetConfig, SetDefaultConfig, KeysConfig DEF ConfigNext
<1>3. CASE SetDeliveryReportCallback \/ \E key \in ConsumerKeys : GlobalSet(key)
  BY <1>3, KeysConfig
<1>4. CASE ProducerNext
  BY <1>1, <1>3, <1>4 DEF ProducerNext, ProducerInit, Acknowledge, Poll, DestroyProducer, AddHeader,
                          Produce, ProduceHeaders
<1>5. CASE ConsumerNext
  BY <1>1, <1>3, <1>5 DEF ConsumerNext, ConsumerInit, Subscribe, Unsubscribe, Consume, Handle,
                          AsyncCommit, AutoCommit, Committed, DestroyConsumer, Killed
<1> QED BY <1>1, <1>2, <1>4, <1>5 DEF KafkaNext, kafkaVars
-----------------------------------------------------------------------------
(* The consumer.  Everything before an offset has been dealt with          *)
(* (handled, or left to the library by the configuration), or is among     *)
(* what the application was given.                                         *)

ConsumerType(c) ==
  c \in [c : {Null, "ready"}, set : SUBSET ConsumerKeys, sub : BOOLEAN, pos : Nat, taken : Seq(Nat),
         last : SUBSET Nat, stored : SUBSET Nat, commits : SUBSET Nat, committed : SUBSET Nat,
         handled : SUBSET Nat, auto : SUBSET Nat, reset : Nat]

DealtWith(c) == c.handled \cup c.auto \cup {o \in Nat : o < c.reset}

Upto(n, handled) == \A o \in Nat : o < n => o \in handled
GivenUpto(n, k, handled, taken) ==
  \A o \in Nat : o < n => o \in handled \/ \E j \in 1..k : taken[j] = o

ConsumerOK(pos, taken, last, commits, committed, handled) ==
  /\ \A o \in committed : Upto(o, handled)
  /\ \A o \in commits : Upto(o, handled)
  /\ \A o \in last : Upto(o + 1, handled)
  /\ \A i \in 1..Len(taken) : GivenUpto(taken[i], i - 1, handled, taken)
  /\ GivenUpto(pos, Len(taken), handled, taken)

(* What a consumer that stores and commits by itself has given out and     *)
(* stored.                                                                 *)
AutoOK(pos, taken, stored, handled) ==
  /\ \A i \in 1..Len(taken) : taken[i] \in handled
  /\ \A o \in stored : Upto(o, handled)

AutomaticIn(keys) == "enable.auto.commit" \notin keys /\ "enable.auto.offset.store" \notin keys
StoresIn(keys) == "enable.auto.offset.store" \notin keys

Sound(c) ==
  /\ ConsumerOK(c.pos, c.taken, c.last, c.commits, c.committed, DealtWith(c))
  /\ AutomaticIn(c.set) => AutoOK(c.pos, c.taken, c.stored, DealtWith(c))
  /\ ~StoresIn(c.set) => c.stored = {}
  /\ c.c = Null => c.taken = << >> /\ c.stored = {}
ConsumerInv == ConsumerType(cons) /\ Sound(cons)

LEMMA InitConsumer == KafkaInit => ConsumerInv
BY DEF KafkaInit, ConsInit, ConsumerInv, ConsumerType, Sound, ConsumerOK, AutoOK, DealtWith, Upto, GivenUpto, Null

(* More may have been dealt with.                                          *)
LEMMA MoreDealt ==
  ASSUME NEW pos, NEW taken, NEW last, NEW commits, NEW committed, NEW old, NEW new,
         ConsumerOK(pos, taken, last, commits, committed, old), old \subseteq new
  PROVE  ConsumerOK(pos, taken, last, commits, committed, new)
<1>1. \A n : Upto(n, old) => Upto(n, new)
  BY DEF Upto
<1>2. \A n, k : GivenUpto(n, k, old, taken) => GivenUpto(n, k, new, taken)
  BY DEF GivenUpto
<1> QED BY <1>1, <1>2 DEF ConsumerOK

LEMMA MoreAuto ==
  ASSUME NEW pos, NEW taken, NEW stored, NEW old, NEW new, AutoOK(pos, taken, stored, old), old \subseteq new
  PROVE  AutoOK(pos, taken, stored, new)
BY DEF AutoOK, Upto

(* What the library would commit by itself may be committed.               *)
LEMMA StoredSound ==
  ASSUME ConsumerInv
  PROVE  \A o \in StoredCommits : Upto(o, DealtWith(cons)) /\ o \in Nat
<1>1. \A o \in cons.commits : Upto(o, DealtWith(cons)) /\ o \in Nat
  BY DEF ConsumerInv, Sound, ConsumerOK, ConsumerType
<1>2. Default("enable.auto.commit") => \A o \in cons.stored : Upto(o, DealtWith(cons)) /\ o \in Nat
  <2> SUFFICES ASSUME "enable.auto.commit" \notin cons.set, NEW o \in cons.stored
               PROVE  Upto(o, DealtWith(cons)) /\ o \in Nat
    BY DEF Default
  <2>1. AutomaticIn(cons.set)
    BY DEF ConsumerInv, Sound, StoresIn, AutomaticIn
  <2> QED BY <2>1 DEF ConsumerInv, Sound, AutoOK, ConsumerType
<1> QED BY <1>1, <1>2 DEF StoredCommits

(* The position may move back to one before which all is dealt with.       *)
LEMMA StartConsumer ==
  ASSUME ConsumerInv, ConsumerInit \/ Subscribe
  PROVE  ConsumerInv'
<1>t. ConsumerType(cons) /\ Sound(cons)
  BY DEF ConsumerInv
<1>1. CASE UNCHANGED cons
  BY <1>1 DEF ConsumerInv
<1>2. ASSUME cons.c = Null, NEW keys \in SUBSET ConsumerKeys, cons' = [cons EXCEPT !.c = "ready", !.set = keys]
      PROVE  ConsumerInv'
  <2>1. ConsumerType(cons')
    BY <1>t, <1>2 DEF ConsumerType
  <2>2. /\ cons'.pos = cons.pos /\ cons'.taken = << >> /\ cons'.last = cons.last /\ cons'.stored = {}
        /\ cons'.commits = cons.commits /\ cons'.committed = cons.committed /\ cons.taken = << >>
        /\ cons'.handled = cons.handled /\ cons'.auto = cons.auto /\ cons'.reset = cons.reset
        /\ cons'.c # Null
    BY <1>t, <1>2 DEF ConsumerType, Sound, Null
  <2>3. DealtWith(cons') = DealtWith(cons)
    BY <2>2 DEF DealtWith
  <2>4. AutoOK(cons'.pos, cons'.taken, cons'.stored, DealtWith(cons'))
    BY <2>2 DEF AutoOK
  <2>5. ConsumerOK(cons'.pos, cons'.taken, cons'.last, cons'.commits, cons'.committed, DealtWith(cons'))
    BY <1>t, <2>2, <2>3 DEF Sound
  <2> QED BY <2>1, <2>2, <2>4, <2>5 DEF ConsumerInv, Sound
<1>3. ASSUME Subscribe, NEW o \in Beginnings, NEW r,
             r = IF cons.committed = {} /\ o > cons.reset THEN o ELSE cons.reset,
             cons' = [cons EXCEPT !.sub = TRUE, !.pos = o, !.reset = r]
      PROVE  ConsumerInv'
  <2>1. o \in Nat /\ cons.reset \in Nat
    BY <1>t, <1>3, KafkaAssumption DEF Beginnings, ConsumerType
  <2>2. r \in Nat /\ r >= cons.reset /\ (cons.committed = {} => r >= o)
    BY <1>3, <2>1
  <2>3. ConsumerType(cons')
    BY <1>t, <1>3, <2>1, <2>2 DEF ConsumerType
  <2>4. /\ cons'.pos = o /\ cons'.taken = cons.taken /\ cons'.last = cons.last /\ cons'.stored = cons.stored
        /\ cons'.commits = cons.commits /\ cons'.committed = cons.committed /\ cons'.set = cons.set
        /\ cons'.handled = cons.handled /\ cons'.auto = cons.auto /\ cons'.reset = r /\ cons'.c = cons.c
    BY <1>t, <1>3 DEF ConsumerType
  <2>5. DealtWith(cons) \subseteq DealtWith(cons')
    BY <2>1, <2>2, <2>4 DEF DealtWith
  <2>6. Upto(o, DealtWith(cons'))
    <3>1. CASE cons.committed = {}
      BY <2>1, <2>2, <2>4, <3>1 DEF Upto, DealtWith
    <3>2. CASE cons.committed # {}
      <4>1. o \in cons.committed
        BY <1>3, <3>2 DEF Beginnings
      <4>2. Upto(o, DealtWith(cons))
        BY <1>t, <4>1 DEF Sound, ConsumerOK
      <4> QED BY <2>5, <4>2 DEF Upto
    <3> QED BY <3>1, <3>2
  <2>7. ConsumerOK(cons.pos, cons.taken, cons.last, cons.commits, cons.committed, DealtWith(cons'))
    BY <1>t, <2>5, MoreDealt DEF Sound
  <2>8. GivenUpto(o, Len(cons.taken), DealtWith(cons'), cons.taken)
    BY <2>6 DEF Upto, GivenUpto
  <2>9. ConsumerOK(o, cons.taken, cons.last, cons.commits, cons.committed, DealtWith(cons'))
    BY <2>7, <2>8 DEF ConsumerOK
  <2>10. AutomaticIn(cons.set) => AutoOK(o, cons.taken, cons.stored, DealtWith(cons'))
    <3>1. AutomaticIn(cons.set) => AutoOK(o, cons.taken, cons.stored, DealtWith(cons))
      BY <1>t DEF Sound, AutoOK
    <3> QED BY <2>5, <3>1, MoreAuto
  <2> QED BY <1>t, <2>3, <2>4, <2>9, <2>10 DEF ConsumerInv, Sound
<1>4. CASE ConsumerInit
  BY <1>1, <1>2, <1>4 DEF ConsumerInit
<1>5. CASE Subscribe
  BY <1>1, <1>3, <1>5 DEF Subscribe
<1> QED BY <1>4, <1>5

LEMMA GiveNext ==
  ASSUME NEW pos \in Nat, NEW taken \in Seq(Nat), NEW last, NEW commits, NEW committed, NEW handled,
         ConsumerOK(pos, taken, last, commits, committed, handled)
  PROVE  ConsumerOK(pos + 1, Append(taken, pos), last, commits, committed, handled)
<1> DEFINE n == Len(taken)
           T == Append(taken, pos)
<1>1. n \in Nat /\ Len(T) = n + 1 /\ T[n + 1] = pos /\ \A j \in 1..n : T[j] = taken[j]
  OBVIOUS
<1>2. ASSUME NEW k \in Nat, k <= n, NEW m, GivenUpto(m, k, handled, taken)
      PROVE  GivenUpto(m, k, handled, T)
  <2>1. \A j \in 1..k : T[j] = taken[j]
    BY <1>1, <1>2
  <2> HIDE DEF T
  <2> QED BY <1>2, <2>1 DEF GivenUpto
<1>3. ASSUME NEW i \in 1..(n + 1) PROVE GivenUpto(T[i], i - 1, handled, T)
  <2>1. i - 1 \in Nat /\ i - 1 <= n /\ (i \in 1..n \/ i = n + 1)
    BY <1>1
  <2>2. i \in 1..n => GivenUpto(T[i], i - 1, handled, taken)
    BY <1>1 DEF ConsumerOK
  <2>3. i = n + 1 => GivenUpto(T[i], i - 1, handled, taken)
    BY <1>1 DEF ConsumerOK
  <2> HIDE DEF T
  <2> QED BY <1>2, <2>1, <2>2, <2>3
<1>4. GivenUpto(pos + 1, n + 1, handled, T)
  <2>1. GivenUpto(pos, n, handled, T)
    <3>1. GivenUpto(pos, n, handled, taken) /\ n <= n
      BY <1>1 DEF ConsumerOK
    <3> HIDE DEF T
    <3> QED BY <1>1, <1>2, <3>1
  <2>2. ASSUME NEW o \in Nat, o < pos + 1 PROVE o \in handled \/ \E j \in 1..(n + 1) : T[j] = o
    <3> HIDE DEF T
    <3>1. o < pos \/ o = pos
      BY <2>2
    <3> QED BY <1>1, <2>1, <3>1 DEF GivenUpto
  <2> HIDE DEF T
  <2> QED BY <2>2 DEF GivenUpto
<1> HIDE DEF T
<1> QED BY <1>1, <1>3, <1>4 DEF ConsumerOK, T

LEMMA HandleNext ==
  ASSUME NEW pos \in Nat, NEW taken \in Seq(Nat), taken # << >>, NEW last, NEW commits, NEW committed,
         NEW handled, ConsumerOK(pos, taken, last, commits, committed, handled)
  PROVE  ConsumerOK(pos, Tail(taken), {Head(taken)}, commits, committed, handled \cup {Head(taken)})
<1> DEFINE n == Len(taken)
           T == Tail(taken)
           h == Head(taken)
           H == handled \cup {h}
<1>1. /\ n \in Nat /\ n >= 1 /\ Len(T) = n - 1 /\ h = taken[1] /\ h \in Nat
      /\ \A j \in 1..(n - 1) : T[j] = taken[j + 1]
  OBVIOUS
<1>2. ASSUME NEW k \in 1..n, NEW m, GivenUpto(m, k, handled, taken)
      PROVE  GivenUpto(m, k - 1, H, T)
  <2>1. ASSUME NEW o \in Nat, o < m PROVE o \in H \/ \E j \in 1..(k - 1) : T[j] = o
    <3>1. CASE o \in handled
      BY <3>1
    <3>2. ASSUME NEW j \in 1..k, taken[j] = o PROVE o \in H \/ \E i \in 1..(k - 1) : T[i] = o
      <4>1. CASE j = 1
        BY <1>1, <3>2, <4>1
      <4>2. CASE j # 1
        <5>1. j - 1 \in 1..(k - 1) /\ T[j - 1] = taken[(j - 1) + 1]
          BY <1>1, <4>2
        <5>2. T[j - 1] = o
          BY <3>2, <5>1
        <5> QED BY <5>1, <5>2
      <4> QED BY <4>1, <4>2
    <3> QED BY <1>2, <2>1, <3>1, <3>2 DEF GivenUpto
  <2> QED BY <2>1 DEF GivenUpto
<1>3. ASSUME NEW i \in 1..(n - 1) PROVE GivenUpto(T[i], i - 1, H, T)
  <2>1. i + 1 \in 1..n /\ (i + 1) - 1 = i /\ i \in 1..n
    BY <1>1
  <2>2. GivenUpto(taken[i + 1], i, handled, taken) /\ T[i] = taken[i + 1]
    BY <1>1, <2>1 DEF ConsumerOK
  <2> HIDE DEF T, H
  <2> QED BY <1>2, <2>1, <2>2
<1>4. GivenUpto(pos, n - 1, H, T)
  <2>1. GivenUpto(pos, n, handled, taken) /\ n \in 1..n
    BY <1>1 DEF ConsumerOK
  <2> HIDE DEF T, H
  <2> QED BY <1>2, <2>1
<1>5. Upto(h + 1, H)
  <2>1. GivenUpto(h, 0, handled, taken)
    BY <1>1 DEF ConsumerOK
  <2>2. ASSUME NEW o \in Nat, o < h + 1 PROVE o \in H
    <3>1. o < h \/ o = h
      BY <1>1, <2>2
    <3> QED BY <2>1, <3>1 DEF GivenUpto
  <2> QED BY <2>2 DEF Upto
<1>6. \A o : Upto(o, handled) => Upto(o, H)
  BY DEF Upto
<1>7. (\A o \in committed : Upto(o, H)) /\ \A o \in commits : Upto(o, H)
  BY <1>6 DEF ConsumerOK
<1> HIDE DEF T, H, h
<1>8. ConsumerOK(pos, T, {h}, commits, committed, H)
  BY <1>1, <1>3, <1>4, <1>5, <1>7 DEF ConsumerOK
<1> QED BY <1>8 DEF T, H, h

LEMMA ConsumeConsumer ==
  ASSUME ConsumerInv, Consume
  PROVE  ConsumerInv'
<1>t. ConsumerType(cons) /\ Sound(cons)
  BY DEF ConsumerInv
<1>p. cons.pos \in Nat /\ cons.taken \in Seq(Nat) /\ cons.stored \in SUBSET Nat /\ cons.auto \in SUBSET Nat
  BY <1>t DEF ConsumerType
<1> DEFINE T == Append(cons.taken, cons.pos)
           S == IF StoresIn(cons.set) THEN {cons.pos + 1} ELSE cons.stored
           A == IF AutomaticIn(cons.set) THEN cons.auto \cup {cons.pos} ELSE cons.auto
<1>1. /\ cons' = [cons EXCEPT !.pos = cons.pos + 1, !.taken = T, !.stored = S, !.auto = A]
      /\ cons.c = "ready"
  BY DEF Consume, StoresIn, AutomaticIn, Default, Automatic
<1>2. /\ cons.pos + 1 \in Nat /\ T \in Seq(Nat) /\ S \in SUBSET Nat /\ A \in SUBSET Nat /\ cons.auto \subseteq A
      /\ AutomaticIn(cons.set) => cons.pos \in A
  BY <1>p
<1>3. ConsumerOK(cons.pos + 1, T, cons.last, cons.commits, cons.committed, DealtWith(cons))
  BY <1>t, <1>p, GiveNext DEF Sound
<1>4. Len(T) = Len(cons.taken) + 1 /\ Len(cons.taken) \in Nat /\ T[Len(cons.taken) + 1] = cons.pos
      /\ \A j \in 1..Len(cons.taken) : T[j] = cons.taken[j]
  BY <1>p
<1>5. S = IF StoresIn(cons.set) THEN {cons.pos + 1} ELSE cons.stored
  OBVIOUS
<1> HIDE DEF T, S, A
<1>6. ConsumerType(cons')
  BY <1>t, <1>1, <1>2 DEF ConsumerType
<1>7. /\ cons'.pos = cons.pos + 1 /\ cons'.taken = T /\ cons'.last = cons.last /\ cons'.stored = S
      /\ cons'.commits = cons.commits /\ cons'.committed = cons.committed /\ cons'.set = cons.set
      /\ cons'.handled = cons.handled /\ cons'.auto = A /\ cons'.reset = cons.reset /\ cons'.c = cons.c
  BY <1>t, <1>1 DEF ConsumerType
<1>8. DealtWith(cons) \subseteq DealtWith(cons') /\ (AutomaticIn(cons.set) => cons.pos \in DealtWith(cons'))
  BY <1>2, <1>7 DEF DealtWith
<1>9. ConsumerOK(cons.pos + 1, T, cons.last, cons.commits, cons.committed, DealtWith(cons'))
  BY <1>3, <1>8, MoreDealt
<1>10. ASSUME AutomaticIn(cons.set) PROVE AutoOK(cons.pos + 1, T, S, DealtWith(cons'))
  <2>1. \A i \in 1..Len(cons.taken) : cons.taken[i] \in DealtWith(cons)
    BY <1>t, <1>10 DEF Sound, AutoOK
  <2>2. ASSUME NEW i \in 1..Len(T) PROVE T[i] \in DealtWith(cons')
    <3>1. i \in 1..Len(cons.taken) \/ i = Len(cons.taken) + 1
      BY <1>4
    <3> QED BY <1>4, <1>8, <1>10, <2>1, <3>1
  <2>3. S = {cons.pos + 1}
    BY <1>5, <1>10 DEF AutomaticIn, StoresIn
  <2>4. Upto(cons.pos + 1, DealtWith(cons'))
    <3>1. GivenUpto(cons.pos + 1, Len(T), DealtWith(cons'), T)
      BY <1>9 DEF ConsumerOK
    <3> QED BY <2>2, <3>1 DEF Upto, GivenUpto
  <2> QED BY <2>2, <2>3, <2>4 DEF AutoOK
<1>11. ~StoresIn(cons.set) => S = {}
  BY <1>t, <1>5 DEF Sound
<1> QED BY <1>1, <1>6, <1>7, <1>9, <1>10, <1>11 DEF ConsumerInv, Sound, Null

LEMMA HandleConsumer ==
  ASSUME ConsumerInv, Handle
  PROVE  ConsumerInv'
<1>t. ConsumerType(cons) /\ Sound(cons)
  BY DEF ConsumerInv
<1>p. cons.pos \in Nat /\ cons.taken \in Seq(Nat) /\ cons.handled \in SUBSET Nat
  BY <1>t DEF ConsumerType
<1> DEFINE T == Tail(cons.taken)
           h == Head(cons.taken)
<1>1. /\ cons.taken # << >> /\ cons' = [cons EXCEPT !.taken = T, !.handled = cons.handled \cup {h}, !.last = {h}]
      /\ cons.c = "ready"
  BY DEF Handle
<1>2. /\ T \in Seq(Nat) /\ h \in Nat /\ Len(T) = Len(cons.taken) - 1 /\ Len(cons.taken) \in Nat
      /\ \A j \in 1..Len(T) : T[j] = cons.taken[j + 1]
  BY <1>p, <1>1
<1>3. ConsumerOK(cons.pos, T, {h}, cons.commits, cons.committed, DealtWith(cons) \cup {h})
  BY <1>t, <1>p, <1>1, HandleNext DEF Sound
<1> HIDE DEF T, h
<1>5. ConsumerType(cons')
  BY <1>t, <1>p, <1>1, <1>2 DEF ConsumerType
<1>6. /\ cons'.pos = cons.pos /\ cons'.taken = T /\ cons'.last = {h} /\ cons'.stored = cons.stored
      /\ cons'.commits = cons.commits /\ cons'.committed = cons.committed /\ cons'.set = cons.set
      /\ cons'.handled = cons.handled \cup {h} /\ cons'.auto = cons.auto /\ cons'.reset = cons.reset
      /\ cons'.c = cons.c
  BY <1>t, <1>1 DEF ConsumerType
<1>7. DealtWith(cons') = DealtWith(cons) \cup {h}
  BY <1>6 DEF DealtWith
<1>8. ASSUME AutomaticIn(cons.set) PROVE AutoOK(cons.pos, T, cons.stored, DealtWith(cons'))
  <2>1. AutoOK(cons.pos, cons.taken, cons.stored, DealtWith(cons'))
    BY <1>t, <1>7, <1>8, MoreAuto DEF Sound
  <2>2. \A j \in 1..Len(T) : j + 1 \in 1..Len(cons.taken)
    BY <1>2
  <2> QED BY <1>2, <2>1, <2>2 DEF AutoOK
<1> QED BY <1>t, <1>1, <1>3, <1>5, <1>6, <1>7, <1>8 DEF ConsumerInv, Sound, Null

(* A step that changes only sub, the commits and what is stored.           *)
OnlyCommits(old, new) ==
  /\ new.pos = old.pos /\ new.taken = old.taken /\ new.set = old.set /\ new.c = old.c
  /\ new.handled = old.handled /\ new.auto = old.auto /\ new.reset = old.reset
  /\ new.last \subseteq old.last /\ new.stored \subseteq old.stored

LEMMA CommitsConsumer ==
  ASSUME ConsumerInv, ConsumerType(cons'), OnlyCommits(cons, cons'),
         \A o \in cons'.commits \cup cons'.committed : Upto(o, DealtWith(cons))
  PROVE  ConsumerInv'
<1>t. Sound(cons)
  BY DEF ConsumerInv
<1>1. DealtWith(cons') = DealtWith(cons)
  BY DEF DealtWith, OnlyCommits
<1>2. ConsumerOK(cons'.pos, cons'.taken, cons'.last, cons'.commits, cons'.committed, DealtWith(cons))
  BY <1>t DEF Sound, ConsumerOK, OnlyCommits
<1>3. AutomaticIn(cons'.set) => AutoOK(cons'.pos, cons'.taken, cons'.stored, DealtWith(cons))
  BY <1>t DEF Sound, AutoOK, OnlyCommits
<1>4. (~StoresIn(cons'.set) => cons'.stored = {}) /\ (cons'.c = Null => cons'.taken = << >> /\ cons'.stored = {})
  BY <1>t DEF Sound, OnlyCommits
<1> QED BY <1>1, <1>2, <1>3, <1>4 DEF ConsumerInv, Sound

LEMMA CommitConsumer ==
  ASSUME ConsumerInv, AsyncCommit \/ AutoCommit \/ Unsubscribe \/ Committed
  PROVE  ConsumerInv'
<1>t. ConsumerType(cons) /\ Sound(cons)
  BY DEF ConsumerInv
<1>p. /\ \A o \in cons.commits \cup cons.committed : Upto(o, DealtWith(cons))
      /\ \A o \in cons.last : Upto(o + 1, DealtWith(cons))
      /\ cons.commits \in SUBSET Nat /\ cons.last \in SUBSET Nat
  BY <1>t DEF Sound, ConsumerOK, ConsumerType
<1>1. CASE AsyncCommit
  <2>1. PICK msg \in cons.last : cons' = [cons EXCEPT !.commits = cons.commits \cup {msg + 1}, !.last = {}]
    BY <1>1 DEF AsyncCommit, CommitOf
  <2>n. cons.commits \cup {msg + 1} \in SUBSET Nat
    BY <1>p, <2>1
  <2>2. ConsumerType(cons') /\ OnlyCommits(cons, cons')
    BY <1>t, <2>1, <2>n DEF ConsumerType, OnlyCommits
  <2>3. cons'.commits = cons.commits \cup {msg + 1} /\ cons'.committed = cons.committed
    BY <1>t, <2>1 DEF ConsumerType
  <2> QED BY <1>p, <2>2, <2>3, CommitsConsumer
<1>2. CASE AutoCommit \/ Unsubscribe
  <2>1. \/ cons' = [cons EXCEPT !.commits = StoredCommits, !.stored = {}]
        \/ cons' = [cons EXCEPT !.sub = FALSE, !.commits = StoredCommits, !.stored = {}]
    BY <1>2 DEF AutoCommit, Unsubscribe
  <2>2. StoredCommits \in SUBSET Nat /\ \A o \in StoredCommits : Upto(o, DealtWith(cons))
    BY StoredSound
  <2>3. ConsumerType(cons') /\ OnlyCommits(cons, cons')
    BY <1>t, <2>1, <2>2 DEF ConsumerType, OnlyCommits
  <2>4. cons'.commits = StoredCommits /\ cons'.committed = cons.committed
    BY <1>t, <2>1 DEF ConsumerType
  <2> QED BY <1>p, <2>2, <2>3, <2>4, CommitsConsumer
<1>3. CASE Committed
  <2>1. PICK o \in cons.commits : \/ cons' = [cons EXCEPT !.commits = cons.commits \ {o}, !.committed = {o}]
                                  \/ cons' = [cons EXCEPT !.commits = cons.commits \ {o}]
    BY <1>3 DEF Committed
  <2>n. cons.commits \ {o} \in SUBSET Nat /\ {o} \in SUBSET Nat
    BY <1>p, <2>1
  <2>2. ConsumerType(cons') /\ OnlyCommits(cons, cons')
    <3>1. CASE cons' = [cons EXCEPT !.commits = cons.commits \ {o}, !.committed = {o}]
      BY <1>t, <2>n, <3>1 DEF ConsumerType, OnlyCommits
    <3>2. CASE cons' = [cons EXCEPT !.commits = cons.commits \ {o}]
      BY <1>t, <2>n, <3>2 DEF ConsumerType, OnlyCommits
    <3> QED BY <2>1, <3>1, <3>2
  <2>3. cons'.commits = cons.commits \ {o} /\ (cons'.committed = {o} \/ cons'.committed = cons.committed)
    BY <1>t, <2>1 DEF ConsumerType
  <2> QED BY <1>p, <2>2, <2>3, CommitsConsumer
<1> QED BY <1>1, <1>2, <1>3

LEMMA DestroyConsumerInv ==
  ASSUME ConsumerInv, DestroyConsumer \/ Killed
  PROVE  ConsumerInv'
<1>t. ConsumerType(cons) /\ Sound(cons)
  BY DEF ConsumerInv
<1>0. PICK commits : /\ cons' = Ended(commits) /\ commits \in SUBSET Nat
                     /\ \A o \in commits : Upto(o, DealtWith(cons))
  <2>1. CASE DestroyConsumer
    BY <2>1, StoredSound DEF DestroyConsumer
  <2>2. CASE Killed
    BY <1>t, <2>2 DEF Killed, Sound, ConsumerOK, ConsumerType
  <2> QED BY <2>1, <2>2
<1>1. cons' = [c |-> Null, set |-> {}, sub |-> FALSE, pos |-> 0, taken |-> << >>, last |-> {}, stored |-> {},
               commits |-> commits, committed |-> cons.committed, handled |-> cons.handled,
               auto |-> cons.auto, reset |-> cons.reset]
  BY <1>0 DEF Ended, ConsInit
<1>2. ConsumerType(cons')
  BY <1>t, <1>0, <1>1 DEF ConsumerType
<1>3. /\ cons'.pos = 0 /\ cons'.taken = << >> /\ cons'.last = {} /\ cons'.commits = commits
      /\ cons'.committed = cons.committed /\ cons'.stored = {} /\ cons'.set = {}
      /\ cons'.handled = cons.handled /\ cons'.auto = cons.auto /\ cons'.reset = cons.reset
  BY <1>1
<1>4. DealtWith(cons') = DealtWith(cons)
  BY <1>3 DEF DealtWith
<1>5. ConsumerOK(0, << >>, {}, commits, cons.committed, DealtWith(cons))
  <2>1. GivenUpto(0, 0, DealtWith(cons), << >>)
    BY DEF GivenUpto
  <2> QED BY <1>t, <1>0, <2>1 DEF Sound, ConsumerOK
<1>6. AutoOK(0, << >>, {}, DealtWith(cons))
  BY DEF AutoOK
<1> QED BY <1>2, <1>3, <1>4, <1>5, <1>6 DEF ConsumerInv, Sound

LEMMA NextConsumer == ConsumerInv /\ [KafkaNext]_kafkaVars => ConsumerInv'
<1> SUFFICES ASSUME ConsumerInv, [KafkaNext]_kafkaVars PROVE ConsumerInv'
  OBVIOUS
<1>1. CASE UNCHANGED cons
  BY <1>1 DEF ConsumerInv
<1>2. CASE ConsumerNext
  <2>1. CASE \E key \in ConsumerKeys : GlobalSet(key)
    BY <1>1, <2>1 DEF GlobalSet
  <2> QED BY <1>2, <2>1, StartConsumer, ConsumeConsumer, HandleConsumer, CommitConsumer,
             DestroyConsumerInv DEF ConsumerNext
<1>3. CASE ConfigNext
  BY <1>1, <1>3 DEF ConfigNext, SetDefaultTopicConf, TopicSet, GlobalSet, SetSslCert, SetOffsetCommitCallback,
                    SetEventCallback, SetSocketCallback, SetCallback
<1>4. CASE ProducerNext
  BY <1>1, <1>4 DEF ProducerNext, SetDeliveryReportCallback, SetCallback, ProducerInit, Acknowledge, Poll,
                    DestroyProducer, AddHeader, Produce, ProduceHeaders
<1> QED BY <1>1, <1>2, <1>3, <1>4 DEF KafkaNext, kafkaVars

(* What the consumer's offsets stand for, in every reachable state: all    *)
(* before a committed offset, a commit under way, a message just handled   *)
(* or an offset the library is to commit by itself has been handled, or    *)
(* was given out by a consumer that stores and commits by itself, or lies  *)
(* before the point where a group without an offset began; and all before  *)
(* the position has been given out.                                        *)
THEOREM ConsumerInvariant == KafkaSpec => []ConsumerInv
<1> QED BY InitConsumer, NextConsumer, PTL DEF KafkaSpec, KafkaNext

(* KafkaConsumer with commits of what was handled delivers every message   *)
(* at least once, over any number of crashes, lost and reordered commits,  *)
(* for a log of any length: before the committed offset lies only what was *)
(* handled, what a consumer with automatic commits gave out and what a     *)
(* reset to the end of the log passed over.                                *)
THEOREM ConsumerAtLeastOnce == KafkaSpec => []AtLeastOnce
<1>1. ConsumerInv => AtLeastOnce
  <2> SUFFICES ASSUME ConsumerInv, NEW c \in cons.committed, NEW o \in 0..LogEnd, o < c
               PROVE  o \in cons.handled \cup cons.auto \/ o < cons.reset
    BY DEF AtLeastOnce
  <2>1. o \in Nat /\ Upto(c, DealtWith(cons))
    BY KafkaAssumption DEF ConsumerInv, Sound, ConsumerOK
  <2> QED BY <2>1 DEF Upto, DealtWith
<1> QED BY <1>1, ConsumerInvariant, PTL
-----------------------------------------------------------------------------
(* The producer.  One entry of the queue per message, which carries the    *)
(* headers added; a message not accepted still has its headers itself.     *)

Entries == [m : Messages, hdr : SUBSET {0, 1}, at : {"queued", "done"}]

ProducerType(p) ==
  p \in [p : {Null, "ready"}, cbs : SUBSET Callbacks, q : SUBSET Entries,
         hdr : [Messages -> SUBSET {0, 1}], added : [Messages -> {0, 1}],
         accepted : SUBSET Messages, reported : [Messages -> Nat],
         silent : SUBSET Messages, lost : SUBSET Messages, ended : BOOLEAN]

Placed(m, ids, gone, accepted, reported) ==
  /\ ~(m \in ids /\ m \in gone)
  /\ reported[m] # 0 => m \notin ids \cup gone
  /\ m \in accepted <=> m \in ids \cup gone \/ reported[m] = 1
  /\ reported[m] <= 1

OnePlace(q, gone, accepted, reported) ==
  /\ \A m \in Messages : Placed(m, QueuedIds(q), gone, accepted, reported)
  /\ \A e, f \in q : e.m = f.m => e = f

Headed(q, hdr, added, accepted) ==
  /\ \A e \in q : e.hdr = {added[e.m]}
  /\ \A m \in Messages : m \notin accepted => hdr[m] = {added[m]}

Good(p) ==
  /\ OnePlace(p.q, p.lost \cup p.silent, p.accepted, p.reported)
  /\ Headed(p.q, p.hdr, p.added, p.accepted)

ProducerInv == ProducerType(prod) /\ Good(prod)

LEMMA InitProducer == KafkaInit => ProducerInv
BY DEF KafkaInit, ProdInit, ProducerInv, ProducerType, Good, OnePlace, Headed, Placed, QueuedIds, Null

(* A new message enters the queue.                                         *)
LEMMA EnterPlace ==
  ASSUME NEW q \in SUBSET Entries, NEW gone, NEW accepted, NEW reported \in [Messages -> Nat],
         OnePlace(q, gone, accepted, reported), NEW m \in Messages, m \notin accepted, NEW h
  PROVE  OnePlace(q \cup {Entry(m, h)}, gone, accepted \cup {m}, reported)
<1> DEFINE Q == q \cup {Entry(m, h)}
<1>e. Entry(m, h).m = m
  BY DEF Entry
<1>1. QueuedIds(Q) = QueuedIds(q) \cup {m}
  BY <1>e DEF QueuedIds
<1>2. m \notin QueuedIds(q) /\ m \notin gone /\ reported[m] = 0
  BY DEF OnePlace, Placed
<1>3. \A x \in Messages : Placed(x, QueuedIds(Q), gone, accepted \cup {m}, reported)
  BY <1>1, <1>2 DEF OnePlace, Placed
<1>4. \A e \in q : e.m # m
  BY <1>2 DEF QueuedIds
<1>5. \A e, f \in Q : e.m = f.m => e = f
  BY <1>4 DEF OnePlace, Entry
<1> QED BY <1>3, <1>5 DEF OnePlace

(* Some of the messages leave it without a report.                         *)
LEMMA LeavePlace ==
  ASSUME NEW q \in SUBSET Entries, NEW r \in SUBSET q, NEW gone, NEW accepted, NEW reported \in [Messages -> Nat],
         OnePlace(q, gone, accepted, reported)
  PROVE  OnePlace(q \ r, gone \cup QueuedIds(r), accepted, reported)
<1>1. \A m : m \in QueuedIds(q) <=> m \in QueuedIds(q \ r) \/ m \in QueuedIds(r)
  BY DEF QueuedIds
<1>2. \A m : ~(m \in QueuedIds(q \ r) /\ m \in QueuedIds(r))
  BY DEF QueuedIds, OnePlace
<1>3. \A m \in Messages : Placed(m, QueuedIds(q \ r), gone \cup QueuedIds(r), accepted, reported)
  BY <1>1, <1>2 DEF OnePlace, Placed
<1> QED BY <1>3 DEF OnePlace

(* Some of the messages leave it with one.                                 *)
LEMMA ReportPlace ==
  ASSUME NEW q \in SUBSET Entries, NEW r \in SUBSET q, NEW gone, NEW accepted, NEW reported \in [Messages -> Nat],
         OnePlace(q, gone, accepted, reported)
  PROVE  OnePlace(q \ r, gone, accepted, Counted(reported, QueuedIds(r)))
<1> DEFINE n == Counted(reported, QueuedIds(r))
<1>1. \A m : m \in QueuedIds(q) <=> m \in QueuedIds(q \ r) \/ m \in QueuedIds(r)
  BY DEF QueuedIds
<1>2. \A m : ~(m \in QueuedIds(q \ r) /\ m \in QueuedIds(r))
  BY DEF QueuedIds, OnePlace
<1>3. ASSUME NEW m \in Messages PROVE Placed(m, QueuedIds(q \ r), gone, accepted, n)
  <2>1. Placed(m, QueuedIds(q), gone, accepted, reported)
    BY DEF OnePlace
  <2>2. CASE m \in QueuedIds(r)
    <3>1. n[m] = 1
      BY <1>1, <2>1, <2>2 DEF Counted, Placed
    <3> QED BY <1>1, <1>2, <2>1, <2>2, <3>1 DEF Placed
  <2>3. CASE m \notin QueuedIds(r)
    <3>1. n[m] = reported[m]
      BY <2>3 DEF Counted
    <3> QED BY <1>1, <1>2, <2>1, <2>3, <3>1 DEF Placed
  <2> QED BY <2>2, <2>3
<1> QED BY <1>3 DEF OnePlace

(* A message of the queue is answered.                                     *)
LEMMA AnswerPlace ==
  ASSUME NEW q \in SUBSET Entries, NEW gone, NEW accepted, NEW reported, NEW e \in q,
         OnePlace(q, gone, accepted, reported)
  PROVE  OnePlace((q \ {e}) \cup {[e EXCEPT !.at = "done"]}, gone, accepted, reported)
<1> DEFINE d == [e EXCEPT !.at = "done"]
           Q == (q \ {e}) \cup {d}
<1>1. d.m = e.m
  BY DEF Entries
<1>2. QueuedIds(Q) = QueuedIds(q)
  BY <1>1 DEF QueuedIds
<1>3. \A x \in q \ {e} : x.m # d.m
  BY <1>1 DEF OnePlace
<1> HIDE DEF d
<1>4. \A x, y \in Q : x.m = y.m => x = y
  BY <1>3 DEF OnePlace
<1> QED BY <1>2, <1>4 DEF OnePlace, d

(* The reports that are due are made, and the messages leave the queue.    *)
LEMMA ServedGood ==
  ASSUME ProducerInv
  PROVE  /\ ProducerType(Served(prod)) /\ Good(Served(prod))
         /\ Served(prod).q \subseteq prod.q
<1> DEFINE r == Reported(prod.q)
           due == QueuedIds(r)
           s == Served(prod)
<1>t. ProducerType(prod) /\ Good(prod)
  BY DEF ProducerInv
<1>f. /\ prod.q \in SUBSET Entries /\ prod.reported \in [Messages -> Nat]
      /\ OnePlace(prod.q, prod.lost \cup prod.silent, prod.accepted, prod.reported)
      /\ prod.silent \subseteq Messages
  BY <1>t DEF ProducerType, Good
<1>1. r \in SUBSET prod.q /\ Waiting(prod.q) = prod.q \ r
  BY <1>f DEF Reported, Waiting, Entries
<1>2. due \subseteq Messages
  BY <1>f, <1>1 DEF QueuedIds, Entries
<1>3. CASE "dr_cb" \in prod.cbs
  <2>1. s = [prod EXCEPT !.q = prod.q \ r, !.reported = Counted(prod.reported, due)]
    BY <1>1, <1>3 DEF Served
  <2> DEFINE n == Counted(prod.reported, due)
  <2>2. n \in [Messages -> Nat]
    BY <1>f DEF Counted
  <2>3. OnePlace(prod.q \ r, prod.lost \cup prod.silent, prod.accepted, n)
    BY <1>f, <1>1, ReportPlace
  <2> HIDE DEF n, s, r, due
  <2>4. s = [prod EXCEPT !.q = prod.q \ r, !.reported = n]
    BY <2>1 DEF n
  <2>5. /\ s.q = prod.q \ r /\ s.lost = prod.lost /\ s.silent = prod.silent /\ s.reported = n
        /\ s.accepted = prod.accepted /\ s.hdr = prod.hdr /\ s.added = prod.added
    BY <1>t, <2>4 DEF ProducerType
  <2>6. ProducerType(s)
    BY <1>t, <1>1, <2>2, <2>4 DEF ProducerType
  <2>7. Good(s)
    BY <1>t, <2>3, <2>5 DEF Good, Headed
  <2> QED BY <2>5, <2>6, <2>7 DEF s
<1>4. CASE "dr_cb" \notin prod.cbs
  <2>1. s = [prod EXCEPT !.q = prod.q \ r, !.silent = prod.silent \cup due]
    BY <1>1, <1>4 DEF Served
  <2>3. OnePlace(prod.q \ r, (prod.lost \cup prod.silent) \cup due, prod.accepted, prod.reported)
    BY <1>f, <1>1, LeavePlace
  <2> HIDE DEF s, r, due
  <2>5. /\ s.q = prod.q \ r /\ s.lost = prod.lost /\ s.silent = prod.silent \cup due
        /\ s.reported = prod.reported /\ s.accepted = prod.accepted /\ s.hdr = prod.hdr /\ s.added = prod.added
    BY <1>t, <2>1 DEF ProducerType
  <2>6. ProducerType(s)
    BY <1>t, <1>1, <1>2, <2>1 DEF ProducerType
  <2>7. (prod.lost \cup prod.silent) \cup due = s.lost \cup s.silent
    BY <2>5
  <2>8. Good(s)
    BY <1>t, <2>3, <2>5, <2>7 DEF Good, Headed
  <2> QED BY <2>5, <2>6, <2>8 DEF s
<1> QED BY <1>3, <1>4

(* The queue is dropped with the producer.                                 *)
LEMMA DropGood ==
  ASSUME NEW p, ProducerType(p), Good(p), NEW np \in {Null, "ready"},
         NEW cbs \in SUBSET Callbacks, NEW ended \in BOOLEAN, NEW d,
         d = [p EXCEPT !.p = np, !.cbs = cbs, !.q = {}, !.lost = p.lost \cup QueuedIds(p.q), !.ended = ended]
  PROVE  ProducerType(d) /\ Good(d)
<1>1. /\ p.q \in SUBSET Entries /\ p.reported \in [Messages -> Nat]
      /\ OnePlace(p.q, p.lost \cup p.silent, p.accepted, p.reported)
  BY DEF ProducerType, Good
<1>2. QueuedIds(p.q) \subseteq Messages
  BY <1>1 DEF QueuedIds, Entries
<1>3. ProducerType(d)
  BY <1>2 DEF ProducerType
<1>4. /\ d.q = {} /\ d.lost = p.lost \cup QueuedIds(p.q) /\ d.silent = p.silent /\ d.reported = p.reported
      /\ d.accepted = p.accepted /\ d.hdr = p.hdr /\ d.added = p.added
  BY DEF ProducerType
<1>5. OnePlace(p.q \ p.q, (p.lost \cup p.silent) \cup QueuedIds(p.q), p.accepted, p.reported)
  BY <1>1, LeavePlace
<1>6. p.q \ p.q = d.q /\ (p.lost \cup p.silent) \cup QueuedIds(p.q) = d.lost \cup d.silent
  BY <1>4
<1>7. Good(d)
  BY <1>4, <1>5, <1>6 DEF Good, Headed
<1> QED BY <1>3, <1>7

LEMMA LifeProducer ==
  ASSUME ConfigInv, ProducerInv, ProducerInit \/ DestroyProducer \/ Poll
  PROVE  ProducerInv'
<1>t. ProducerType(prod) /\ Good(prod) /\ cfg.cbs \in SUBSET Callbacks
  BY DEF ConfigInv, ConfigType, ProducerInv
<1>1. CASE Poll
  BY <1>1, ServedGood DEF Poll, ProducerInv
<1>2. CASE prod' = [prod EXCEPT !.p = "ready", !.cbs = cfg.cbs]
  <2>1. ProducerType(prod')
    BY <1>t, <1>2 DEF ProducerType
  <2>2. Good(prod')
    BY <1>t, <1>2 DEF ProducerType, Good
  <2> QED BY <2>1, <2>2 DEF ProducerInv
<1>3. ASSUME NEW p \in {"ready", Null},
             prod' = [prod EXCEPT !.p = p, !.cbs = cfg.cbs, !.q = {}, !.lost = @ \cup QueuedIds(prod.q)]
      PROVE  ProducerInv'
  <2>1. prod' = [prod EXCEPT !.p = p, !.cbs = cfg.cbs, !.q = {}, !.lost = prod.lost \cup QueuedIds(prod.q),
                             !.ended = prod.ended] /\ prod.ended \in BOOLEAN
    BY <1>t, <1>3 DEF ProducerType
  <2> QED BY <1>t, <1>3, <2>1, DropGood DEF ProducerInv
<1>4. CASE DestroyProducer
  <2> DEFINE s == IF prod.p = Null THEN prod ELSE Served(prod)
  <2>1. ProducerType(s) /\ Good(s)
    BY <1>t, ServedGood
  <2>2. prod' = [s EXCEPT !.ended = TRUE, !.p = Null, !.q = {}, !.lost = @ \cup QueuedIds(s.q)]
    BY <1>4 DEF DestroyProducer
  <2> HIDE DEF s
  <2>3. s.cbs \in SUBSET Callbacks
        /\ prod' = [s EXCEPT !.p = Null, !.cbs = s.cbs, !.q = {}, !.lost = s.lost \cup QueuedIds(s.q), !.ended = TRUE]
    BY <2>1, <2>2 DEF ProducerType
  <2> QED BY <2>1, <2>3, DropGood DEF ProducerInv
<1> QED BY <1>1, <1>2, <1>3, <1>4 DEF ProducerInit

LEMMA AcknowledgeProducer ==
  ASSUME ProducerInv, Acknowledge
  PROVE  ProducerInv'
<1>t. ProducerType(prod) /\ Good(prod)
  BY DEF ProducerInv
<1>f. /\ prod.q \in SUBSET Entries
      /\ OnePlace(prod.q, prod.lost \cup prod.silent, prod.accepted, prod.reported)
      /\ Headed(prod.q, prod.hdr, prod.added, prod.accepted)
  BY <1>t DEF ProducerType, Good
<1>1. PICK e \in prod.q : prod' = [prod EXCEPT !.q = (prod.q \ {e}) \cup {[e EXCEPT !.at = "done"]}]
  BY DEF Acknowledge, Waiting
<1> DEFINE d == [e EXCEPT !.at = "done"]
           Q == (prod.q \ {e}) \cup {d}
<1>2. d \in Entries /\ d.hdr = e.hdr /\ d.m = e.m
  BY <1>f DEF Entries
<1>3. OnePlace(Q, prod.lost \cup prod.silent, prod.accepted, prod.reported)
  BY <1>f, AnswerPlace
<1> HIDE DEF d
<1>4. Headed(Q, prod.hdr, prod.added, prod.accepted) /\ Q \in SUBSET Entries
  BY <1>f, <1>2 DEF Headed
<1>5. prod' = [prod EXCEPT !.q = Q]
  BY <1>1 DEF d
<1> HIDE DEF Q
<1>6. ProducerType(prod')
  BY <1>t, <1>4, <1>5 DEF ProducerType
<1>7. /\ prod'.q = Q /\ prod'.lost = prod.lost /\ prod'.silent = prod.silent
      /\ prod'.reported = prod.reported /\ prod'.accepted = prod.accepted /\ prod'.hdr = prod.hdr
      /\ prod'.added = prod.added
  BY <1>t, <1>5 DEF ProducerType
<1> QED BY <1>3, <1>4, <1>6, <1>7 DEF ProducerInv, Good

LEMMA HeaderProducer ==
  ASSUME ProducerInv, NEW m \in Messages, AddHeader(m)
  PROVE  ProducerInv'
<1>t. ProducerType(prod) /\ Good(prod)
  BY DEF ProducerInv
<1>1. prod' = [prod EXCEPT !.hdr[m] = {1}, !.added[m] = 1] /\ m \notin prod.accepted
  BY DEF AddHeader
<1>2. ProducerType(prod')
  BY <1>t, <1>1 DEF ProducerType
<1>3. /\ prod'.q = prod.q /\ prod'.lost = prod.lost /\ prod'.silent = prod.silent
      /\ prod'.reported = prod.reported /\ prod'.accepted = prod.accepted
      /\ prod'.hdr = [prod.hdr EXCEPT ![m] = {1}] /\ prod'.added = [prod.added EXCEPT ![m] = 1]
  BY <1>t, <1>1 DEF ProducerType
<1>4. \A e \in prod.q : e.m \in Messages /\ e.m # m
  <2>1. \A e \in prod.q : e.m \in QueuedIds(prod.q) /\ e.m \in Messages
    BY <1>t DEF QueuedIds, ProducerType, Entries
  <2> QED BY <1>t, <1>1, <2>1 DEF Good, OnePlace, Placed
<1>5. prod.hdr \in [Messages -> SUBSET {0, 1}] /\ prod.added \in [Messages -> {0, 1}]
  BY <1>t DEF ProducerType
<1>6. Headed(prod.q, prod'.hdr, prod'.added, prod.accepted)
  BY <1>t, <1>3, <1>4, <1>5 DEF Good, Headed
<1> QED BY <1>t, <1>2, <1>3, <1>6 DEF ProducerInv, Good

LEMMA ProduceProducer ==
  ASSUME ProducerInv, NEW m \in Messages, Produce(m) \/ ProduceHeaders(m)
  PROVE  ProducerInv'
<1>t. ProducerType(prod) /\ Good(prod)
  BY DEF ProducerInv
<1>f. /\ prod.q \in SUBSET Entries /\ prod.reported \in [Messages -> Nat]
      /\ prod.hdr \in [Messages -> SUBSET {0, 1}] /\ prod.added \in [Messages -> {0, 1}]
      /\ OnePlace(prod.q, prod.lost \cup prod.silent, prod.accepted, prod.reported)
      /\ Headed(prod.q, prod.hdr, prod.added, prod.accepted)
  BY <1>t DEF ProducerType, Good
<1>g. m \notin prod.accepted /\ prod.hdr[m] = {prod.added[m]}
  BY <1>f DEF Produce, ProduceHeaders, Headed
<1>1. ASSUME NEW h, h = {prod.added[m]}, NEW hdr \in [Messages -> SUBSET {0, 1}],
             \A x \in Messages : x # m => hdr[x] = prod.hdr[x],
             prod' = [prod EXCEPT !.hdr = hdr, !.q = prod.q \cup {Entry(m, h)}, !.accepted = prod.accepted \cup {m}]
      PROVE  ProducerInv'
  <2> DEFINE Q == prod.q \cup {Entry(m, h)}
  <2>1. Entry(m, h) \in Entries /\ Entry(m, h).m = m /\ Entry(m, h).hdr = h
    BY <1>1, <1>f DEF Entry, Entries
  <2>2. OnePlace(Q, prod.lost \cup prod.silent, prod.accepted \cup {m}, prod.reported)
    BY <1>f, <1>g, EnterPlace
  <2>3. Headed(Q, hdr, prod.added, prod.accepted \cup {m})
    BY <1>1, <1>f, <2>1 DEF Headed
  <2>4. Q \in SUBSET Entries /\ prod' = [prod EXCEPT !.hdr = hdr, !.q = Q, !.accepted = prod.accepted \cup {m}]
    BY <1>1, <1>f, <2>1
  <2> HIDE DEF Q
  <2>5. ProducerType(prod')
    <3>1. prod.accepted \cup {m} \in SUBSET Messages
      BY <1>t DEF ProducerType
    <3> QED BY <1>1, <1>t, <2>4, <3>1 DEF ProducerType
  <2>6. /\ prod'.q = Q /\ prod'.lost = prod.lost /\ prod'.silent = prod.silent
        /\ prod'.reported = prod.reported /\ prod'.accepted = prod.accepted \cup {m} /\ prod'.hdr = hdr
        /\ prod'.added = prod.added
    BY <1>t, <2>4 DEF ProducerType
  <2> QED BY <2>2, <2>3, <2>5, <2>6 DEF ProducerInv, Good
<1>2. CASE UNCHANGED prod
  BY <1>2 DEF ProducerInv
<1>3. CASE Produce(m)
  <2>1. CASE prod' = [prod EXCEPT !.q = @ \cup {Entry(m, {0})}, !.accepted = @ \cup {m}]
    <3>1. {0} = {prod.added[m]}
      BY <1>3 DEF Produce
    <3>2. prod' = [prod EXCEPT !.hdr = prod.hdr, !.q = prod.q \cup {Entry(m, {0})}, !.accepted = prod.accepted \cup {m}]
      BY <1>t, <2>1 DEF ProducerType
    <3> QED BY <1>1, <1>f, <3>1, <3>2
  <2> QED BY <1>2, <1>3, <2>1 DEF Produce
<1>4. CASE ProduceHeaders(m)
  <2> DEFINE hdr == [prod.hdr EXCEPT ![m] = {}]
             h == prod.hdr[m]
  <2>1. hdr \in [Messages -> SUBSET {0, 1}] /\ \A x \in Messages : x # m => hdr[x] = prod.hdr[x]
    BY <1>f
  <2>2. CASE Cardinality(prod.q) < QueueMax
    <3>1. prod' = [prod EXCEPT !.hdr = hdr, !.q = prod.q \cup {Entry(m, h)}, !.accepted = prod.accepted \cup {m}]
      BY <1>t, <1>4, <2>2 DEF ProduceHeaders, ProducerType
    <3> HIDE DEF hdr
    <3> QED BY <1>1, <1>g, <2>1, <3>1
  <2>3. CASE ~(Cardinality(prod.q) < QueueMax)
    <3>1. prod' = [[prod EXCEPT !.hdr[m] = {}] EXCEPT !.hdr[m] = h]
      BY <1>4, <2>3 DEF ProduceHeaders
    <3>2. prod' = prod
      BY <1>t, <1>f, <3>1 DEF ProducerType
    <3> QED BY <1>2, <3>2
  <2> QED BY <2>2, <2>3
<1> QED BY <1>3, <1>4

LEMMA NextProducer == ConfigInv /\ ProducerInv /\ [KafkaNext]_kafkaVars => ProducerInv'
<1> SUFFICES ASSUME ConfigInv, ProducerInv, [KafkaNext]_kafkaVars PROVE ProducerInv'
  OBVIOUS
<1>1. CASE UNCHANGED prod
  BY <1>1 DEF ProducerInv
<1>2. CASE ProducerNext
  <2>1. CASE SetDeliveryReportCallback
    BY <1>1, <2>1 DEF SetDeliveryReportCallback, SetCallback
  <2> QED BY <1>2, <2>1, LifeProducer, AcknowledgeProducer, HeaderProducer, ProduceProducer DEF ProducerNext
<1>3. CASE ConfigNext
  BY <1>1, <1>3 DEF ConfigNext, SetDefaultTopicConf, TopicSet, GlobalSet, SetSslCert, SetOffsetCommitCallback,
                    SetEventCallback, SetSocketCallback, SetCallback
<1>4. CASE ConsumerNext
  BY <1>1, <1>4 DEF ConsumerNext, GlobalSet, ConsumerInit, Subscribe, Unsubscribe,
                    Consume, Handle, AsyncCommit, AutoCommit, Committed, DestroyConsumer, Killed
<1> QED BY <1>1, <1>2, <1>3, <1>4 DEF KafkaNext, kafkaVars

(* The inductive invariant of the configurations and of the producer.      *)
THEOREM ProducerInvariant == KafkaSpec => [](ConfigInv /\ ProducerInv)
<1> QED BY InitConfig, InitProducer, NextConfig, NextProducer, PTL DEF KafkaSpec, KafkaNext

(* KafkaProducer loses no message silently, reports none twice and sends   *)
(* the headers that were added, over any refusals and retries; the default *)
(* topic configuration is the one the library has copied.                  *)
THEOREM ProducerDelivers == KafkaSpec => []KafkaDelivers
<1>1. ConfigInv /\ ProducerInv => KafkaDelivers
  <2> SUFFICES ASSUME ConfigInv, ProducerInv PROVE KafkaDelivers
    OBVIOUS
  <2>1. \A m \in Messages : PlaceOf(m) /\ prod.reported[m] <= 1
    BY DEF ProducerInv, Good, OnePlace, Placed, PlaceOf
  <2>2. \A e \in prod.q : e.hdr = {prod.added[e.m]}
    BY DEF ProducerInv, Good, Headed
  <2> QED BY <2>1, <2>2 DEF KafkaDelivers, ConfigInv, OneOwner, CopyIsDefault
<1> QED BY <1>1, ProducerInvariant, PTL
===============================================================================
