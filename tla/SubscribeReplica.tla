-------------------------- MODULE SubscribeReplica --------------------------
(***************************************************************************)
(* One replica, any of those of SubscribeFlow, seen alone: it is a         *)
(* subscription list as SubscriberStore specifies it.                      *)
(***************************************************************************)
EXTENDS SubscribeFlow

CONSTANT Chosen

ASSUME ChosenAssumption == Chosen \in Replicas

Store ==
    INSTANCE SubscriberStore
      WITH Fans <- Forms, Amounts <- {"amount"}, Frequencies <- {"frequency"},
           Demo <- <<>>, MaxLen <- MaxSerial, MaxSerial <- MaxSerial,
           subs <- store[Chosen].subs, serial <- store[Chosen].serial,
           deleted <- store[Chosen].deleted

\* The lists of the replicas are separate: whichever POST goes elsewhere and
\* whichever other process restarts, a replica keeps to SubscriberStore, and
\* with it to what is proved of the ids there.
ReplicaIsStore == Store!Spec
=============================================================================
