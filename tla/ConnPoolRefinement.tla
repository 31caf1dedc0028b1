------------------------- MODULE ConnPoolRefinement -------------------------
(***************************************************************************)
(* The entries of the connection pool implement Permits: the connections   *)
(* of an entry are its permits, the running queries hold them, and the     *)
(* waiters queue.                                                          *)
(***************************************************************************)
EXTENDS ConnPool

EntryState ==
  [e \in Ids |-> IF e \notin Entries \/ entry[e].stage # "ready" THEN "new"
                 ELSE IF entry[e].closed THEN "shut" ELSE "open"]

EntryPermits == INSTANCE Permits
  WITH Pools <- Ids, Clients <- Queries, Size <- MaxConns,
       state <- EntryState,
       holders <- [e \in Ids |-> IF e \in Entries THEN Running(e) ELSE {}],
       queue <- [e \in Ids |-> IF e \in Entries THEN entry[e].waiters ELSE <<>>]

(* Each entry hands its connections out first come, first served, one query
   at a time, to no more queries than it has connections, until it is closed
   for good: what checkout, checkin, the waiter timeout, closeOne and the
   registration do to the entries is a step of the abstract pools or none. *)
ImplementsPermits == EntryPermits!Spec
=============================================================================
