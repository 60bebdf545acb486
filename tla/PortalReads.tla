----------------------------- MODULE PortalReads -----------------------------
(***************************************************************************)
(* What the cache of the public portal promises (cache.js): "the TTL ...   *)
(* is the real upper bound on how long another worker can serve stale      *)
(* data".  An answer is a value the key had at some time of the last       *)
(* Staleness ticks, and nothing else is promised: not even that two        *)
(* answers follow the order of the writes.                                 *)
(***************************************************************************)
EXTENDS Naturals

CONSTANTS Keys, Values, NoAnswer, Staleness

VARIABLES
  value,           \* what each key resolves to
  recent,          \* recent[k][a]: the values k had a ticks ago
  answer           \* the answer just given, <<key, value>>, or NoAnswer

readVars == <<value, recent, answer>>

Ages == 0..Staleness

ReadInit ==
  /\ value \in [Keys -> Values]
  /\ recent = [k \in Keys |-> [a \in Ages |-> {value[k]}]]
  /\ answer = NoAnswer

\* A write may change several keys at once: a rename changes two.
Write ==
  /\ value' \in [Keys -> Values]
  /\ recent' = [k \in Keys |-> [recent[k] EXCEPT ![0] = @ \cup {value'[k]}]]
  /\ answer' = NoAnswer

Tick ==
  /\ recent' = [k \in Keys |-> [a \in Ages |-> IF a = 0 THEN {value[k]} ELSE recent[k][a - 1]]]
  /\ answer' = NoAnswer /\ UNCHANGED value

Answer ==
  /\ \E k \in Keys, a \in Ages : \E v \in recent[k][a] : answer' = <<k, v>>
  /\ UNCHANGED <<value, recent>>

Forget == answer' = NoAnswer /\ UNCHANGED <<value, recent>>

ReadNext == Write \/ Tick \/ Answer \/ Forget
ReadSpec == ReadInit /\ [][ReadNext]_readVars
=============================================================================
