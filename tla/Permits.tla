------------------------------ MODULE Permits ------------------------------
(***************************************************************************)
(* What the entries of the connection pool promise their callers.  Every   *)
(* pool has Size permits, given to clients in the order they came, each to *)
(* one client at a time.  A client in a queue may lose patience.  A pool   *)
(* that is shut gives no permit any more: its holders hand theirs in, and  *)
(* its queue is never served again.                                        *)
(***************************************************************************)
EXTENDS Naturals, Sequences, SequencesExt, FiniteSets

CONSTANTS
  Pools,
  Clients,
  Size        \* the number of permits of a pool

VARIABLES
  state,      \* of each pool: not open yet, open, or shut
  holders,    \* the clients that hold a permit of it
  queue       \* the clients that wait for one, in the order they came

vars == <<state, holders, queue>>

Init ==
  /\ state = [p \in Pools |-> "new"]
  /\ holders = [p \in Pools |-> {}]
  /\ queue = [p \in Pools |-> <<>>]

Outside(p, c) == c \notin holders[p] \cup ToSet(queue[p])
Full(p) == Cardinality(holders[p]) = Size

Open(p) ==
  /\ state[p] = "new"
  /\ state' = [state EXCEPT ![p] = "open"]
  /\ UNCHANGED <<holders, queue>>

Acquire(p, c) ==
  /\ state[p] = "open"
  /\ Outside(p, c)
  /\ queue[p] = <<>>
  /\ ~Full(p)
  /\ holders' = [holders EXCEPT ![p] = @ \cup {c}]
  /\ UNCHANGED <<state, queue>>

Enqueue(p, c) ==
  /\ state[p] = "open" => Full(p)
  /\ state[p] # "new"
  /\ Outside(p, c)
  /\ queue' = [queue EXCEPT ![p] = Append(@, c)]
  /\ UNCHANGED <<state, holders>>

(* The permit of c goes to the first in the queue. *)
HandOver(p, c) ==
  /\ state[p] = "open"
  /\ c \in holders[p]
  /\ queue[p] # <<>>
  /\ holders' = [holders EXCEPT ![p] = (@ \ {c}) \cup {Head(queue[p])}]
  /\ queue' = [queue EXCEPT ![p] = Tail(@)]
  /\ UNCHANGED state

(* A permit returns when nobody waits for it, or when the pool is shut. *)
HandIn(p, c) ==
  /\ c \in holders[p]
  /\ state[p] = "open" => queue[p] = <<>>
  /\ holders' = [holders EXCEPT ![p] = @ \ {c}]
  /\ UNCHANGED <<state, queue>>

LosePatience(p, c) ==
  /\ \E i \in DOMAIN queue[p] :
       /\ queue[p][i] = c
       /\ queue' = [queue EXCEPT ![p] = RemoveAt(@, i)]
  /\ UNCHANGED <<state, holders>>

(* Pools may be shut together. *)
Shut(S) ==
  /\ \A p \in S : state[p] = "open"
  /\ state' = [p \in Pools |-> IF p \in S THEN "shut" ELSE state[p]]
  /\ UNCHANGED <<holders, queue>>

Next ==
  \/ \E S \in SUBSET Pools : Shut(S)
  \/ \E p \in Pools :
       \/ Open(p)
       \/ \E c \in Clients :
            \/ Acquire(p, c)
            \/ Enqueue(p, c)
            \/ HandOver(p, c)
            \/ HandIn(p, c)
            \/ LosePatience(p, c)

Spec == Init /\ [][Next]_vars
=============================================================================
