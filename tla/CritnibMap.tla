----------------------------- MODULE CritnibMap -----------------------------
(***************************************************************************)
(* What a critnib promises its writers: a map from machine words to opaque *)
(* values, changed by one call at a time.  A call of critnib_insert or     *)
(* critnib_remove begins (the writer takes the mutex), takes effect at one *)
(* instant, and is then over.  critnib_insert adds an absent key,          *)
(* overwrites a present one only with the update flag, and may fail with   *)
(* ENOMEM leaving the map alone; critnib_remove deletes the key if it is   *)
(* present.  The detailed module Critnib is checked to implement this      *)
(* specification, with the map read off the leaves reachable from the     *)
(* root and the call read off the writer holding the mutex.               *)
(***************************************************************************)
EXTENDS Naturals, FiniteSets

CONSTANTS Keys, Vals

VARIABLES
  map,    \* partial function from keys to values
  call    \* {} or the one call in progress

vars == <<map, call>>

Calls ==
  [op : {"insert"}, key : Keys, val : Vals, upd : BOOLEAN] \cup
  [op : {"remove"}, key : Keys]

Maps == UNION { [ks -> Vals] : ks \in SUBSET Keys }

TypeOK == map \in Maps /\ call \subseteq Calls /\ Cardinality(call) <= 1

Init == map = [k \in {} |-> CHOOSE v \in Vals : TRUE] /\ call = {}

Put(k, v) == [x \in DOMAIN map \cup {k} |-> IF x = k THEN v ELSE map[x]]
Drop(k) == [x \in DOMAIN map \ {k} |-> map[x]]

Begin(c) == call = {} /\ call' = {c} /\ UNCHANGED map

\* The call takes effect and ends.
Apply ==
  \E c \in call :
    /\ call' = {}
    /\ \/ /\ c.op = "insert"
          /\ map' = IF c.key \notin DOMAIN map \/ c.upd THEN Put(c.key, c.val) ELSE map
       \/ c.op = "insert" /\ UNCHANGED map            \* ENOMEM
       \/ c.op = "remove" /\ map' = Drop(c.key)

Next == (\E c \in Calls : Begin(c)) \/ Apply

Spec == Init /\ [][Next]_vars
=============================================================================
