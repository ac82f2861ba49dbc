------------------------------ MODULE ConfigMap ------------------------------
(***************************************************************************)
(* What the configuration table promises, without SQL: a map from keys to  *)
(* values that outlives the process.  A request to store a value takes     *)
(* effect at most once and at one instant, or is dropped without a word    *)
(* (updateKey reports nothing).  Creation fills in missing keys only.  No  *)
(* key is ever lost, whatever becomes of the process.                      *)
(***************************************************************************)
EXTENDS Naturals

CONSTANTS Keys,     \* names of settings
          Values,   \* their values
          Callers,  \* threads that store settings
          Missing   \* stands for "no value"

VARIABLES map,      \* the value of every key, or Missing
          request   \* per caller: the pair it is storing, or Missing

vars == <<map, request>>

Init ==
    /\ map = [k \in Keys |-> Missing]
    /\ request = [c \in Callers |-> Missing]

\* A caller asks for k to become v.
Request(c, k, v) ==
    /\ request[c] = Missing
    /\ request' = [request EXCEPT ![c] = <<k, v>>]
    /\ UNCHANGED map

\* The request takes effect and is answered.
Apply(c) ==
    /\ request[c] # Missing
    /\ map' = [map EXCEPT ![request[c][1]] = request[c][2]]
    /\ request' = [request EXCEPT ![c] = Missing]

\* The request is answered and has had no effect.
Drop(c) ==
    /\ request[c] # Missing
    /\ request' = [request EXCEPT ![c] = Missing]
    /\ UNCHANGED map

\* A missing key receives a value of its own, while nobody stores anything.
Fill(k, v) ==
    /\ map[k] = Missing
    /\ map' = [map EXCEPT ![k] = v]
    /\ UNCHANGED request

\* The process ends: requests are forgotten, the map is not.
Restart ==
    /\ request' = [c \in Callers |-> Missing]
    /\ UNCHANGED map

Next ==
    \/ \E c \in Callers :
         \/ \E k \in Keys, v \in Values : Request(c, k, v)
         \/ Apply(c)
         \/ Drop(c)
    \/ \E k \in Keys, v \in Values : Fill(k, v)
    \/ Restart

Spec == Init /\ [][Next]_vars
==============================================================================
