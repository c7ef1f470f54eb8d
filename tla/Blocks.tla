-------------------------------- MODULE Blocks --------------------------------
(***************************************************************************)
(* The components that use none of the others, side by side: a behaviour   *)
(* is one of one of them (block).                                          *)
(***************************************************************************)
EXTENDS Kafka, BufferPool, ShmMapping, Daemon

VARIABLE block

blockVars == <<block, kafkaVars, bufferVars, shmVars, daemonVars>>

Kinds == {"config", "producer", "consumer", "buffers", "shm", "daemon"}

(* A component that is not the behaviour's stays in one of its states.     *)
Init ==
  /\ block \in Kinds /\ KafkaInit /\ BufferInit /\ ShmInit /\ DaemonInit
  /\ block # "daemon" => args = [noChgDir |-> TRUE, noClose |-> TRUE, closed |-> {}]

KafkaStep ==
  /\ \/ block = "config" /\ ConfigNext
     \/ block = "producer" /\ ProducerNext
     \/ block = "consumer" /\ ConsumerNext
  /\ UNCHANGED <<block, bufferVars, shmVars, daemonVars>>
BufferStep == block = "buffers" /\ BufferNext /\ UNCHANGED <<block, kafkaVars, shmVars, daemonVars>>
ShmStep == block = "shm" /\ ShmNext /\ UNCHANGED <<block, kafkaVars, bufferVars, daemonVars>>
DaemonStep == block = "daemon" /\ DaemonNext /\ UNCHANGED <<block, kafkaVars, bufferVars, shmVars>>

Next == KafkaStep \/ BufferStep \/ ShmStep \/ DaemonStep

Spec == Init /\ [][Next]_blockVars
===============================================================================
