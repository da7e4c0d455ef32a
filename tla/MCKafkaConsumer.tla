-------------------------- MODULE MCKafkaConsumer --------------------------
(* KafkaConsumer for TLC: three messages, the last a repetition of the first. *)
EXTENDS KafkaConsumer

CONSTANTS a, b

TwoIds == {a, b}
RepeatedLog == <<a, b, a>>
=============================================================================
