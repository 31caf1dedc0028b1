--------------------------- MODULE CommitHistory ---------------------------
(***************************************************************************)
(* The pure part of packages/graphstore: the breadth-first walk over the   *)
(* commit graph and the common ancestor it finds (history/log.ts), and the *)
(* row-by-row three-way merge of manifests (merge/three-way.ts).           *)
(*                                                                         *)
(* A commit graph is a sequence dag; commit c is dag[c], a record with its *)
(* parents (a sequence of commit ids) and its snapshot.  A manifest maps   *)
(* every logical row id to the hash of its row, or to Null.                *)
(***************************************************************************)
EXTENDS Integers, Sequences, FiniteSets

CONSTANTS
  Ids,     \* logical row ids
  Values,  \* contents a row may have
  Null     \* no such row

ASSUME NullNotAValue == Null \notin Values

Manifests == [Ids -> Values \cup {Null}]

EmptyManifest == [i \in Ids |-> Null]

RowObjects == Ids \X Values

\* The row objects a manifest names; a row contains its id.
RowsOf(m) == {<<i, m[i]>> : i \in {j \in Ids : m[j] # Null}}

-----------------------------------------------------------------------------
(* Ancestry *)

ParentsOf(dag, c) == {dag[c].parents[k] : k \in DOMAIN dag[c].parents}

ParentClosed(dag, S) == \A c \in S \cap DOMAIN dag : ParentsOf(dag, c) \subseteq S

\* The least set that contains S and the parents of its members.
Reachable(dag, S) ==
  LET closed == {T \in SUBSET DOMAIN dag : S \subseteq T /\ ParentClosed(dag, T)}
  IN {c \in DOMAIN dag : \A T \in closed : c \in T}

Ancestors(dag, c) == Reachable(dag, {c})

\* Mutant of WalkStep: commits already yielded are yielded again.
WalkStepUnseen(dag, w) ==
  IF w.queue = <<>> THEN w
  ELSE LET c == Head(w.queue) IN
       [queue |-> Tail(w.queue) \o dag[c].parents, out |-> Append(w.out, c)]

\* The parents that are not in out, in their order.
Unseen(parents, out) ==
  LET new[k \in 0..Len(parents)] ==
        IF k = 0 THEN <<>>
        ELSE IF \E j \in DOMAIN out : out[j] = parents[k] THEN new[k - 1]
        ELSE Append(new[k - 1], parents[k])
  IN new[Len(parents)]

\* walkCommits: a queue, a seen set and the commits yielded, in order.
WalkStep(dag, w) ==
  IF w.queue = <<>> THEN w
  ELSE LET c == Head(w.queue) IN
       IF \E k \in DOMAIN w.out : w.out[k] = c
         THEN [w EXCEPT !.queue = Tail(@)]
         ELSE LET out == Append(w.out, c)
              IN [queue |-> Tail(w.queue) \o Unseen(dag[c].parents, out),
                  out |-> out]

\* Every commit is yielded once, so it queues its (at most two) parents once.
Walk(dag, from) ==
  LET walk[n \in 0..(2 * Len(dag) + 1)] ==
        IF n = 0 THEN [queue |-> <<from>>, out |-> <<>>]
        ELSE WalkStep(dag, walk[n - 1])
  IN walk[2 * Len(dag) + 1].out

\* Mutant of FindLCA: the walk goes on to the last common ancestor it meets.
FindLCALast(dag, a, b) ==
  LET w == Walk(dag, b)
      ancestorsOfA == Ancestors(dag, a)
      hits == {k \in DOMAIN w : w[k] \in ancestorsOfA}
  IN IF a = b THEN a
     ELSE IF hits = {} THEN 0
     ELSE w[CHOOSE k \in hits : \A j \in hits : k >= j]

\* Mutant of FindLCA: commit b itself is not looked at.
FindLCAProper(dag, a, b) ==
  LET w == Walk(dag, b)
      ancestorsOfA == Ancestors(dag, a)
      hits == {k \in DOMAIN w \ {1} : w[k] \in ancestorsOfA}
  IN IF a = b THEN a
     ELSE IF hits = {} THEN 0
     ELSE w[CHOOSE k \in hits : \A j \in hits : k <= j]

\* The first commit of the walk from b that is an ancestor of a; 0 for null.
FindLCA(dag, a, b) ==
  LET w == Walk(dag, b)
      ancestorsOfA == Ancestors(dag, a)
      hits == {k \in DOMAIN w : w[k] \in ancestorsOfA}
  IN IF a = b THEN a
     ELSE IF hits = {} THEN 0
     ELSE w[CHOOSE k \in hits : \A j \in hits : k <= j]

\* The commits findLowestCommonAncestor reads on its way from b.
WalkedFrom(dag, a, b) ==
  LET w == Walk(dag, b)
      ancestorsOfA == Ancestors(dag, a)
      before(k) == \A j \in 1..(k - 1) : w[j] \notin ancestorsOfA
  IN {w[k] : k \in {j \in DOMAIN w : before(j)}}

-----------------------------------------------------------------------------
(* mergeTable *)

\* Mutant of RowConflicts: a deletion is never a conflict.
RowConflictsUnlessDeleted(b, o, t) ==
  o # t /\ o # b /\ t # b /\ o # Null /\ t # Null

\* Both sides changed a row, and not to the same thing.
RowConflicts(b, o, t) == o # t /\ o # b /\ t # b

\* Mutant of MergeRow: a row that one side deleted comes back from the other.
MergeRowUndelete(b, o, t) ==
  IF o = Null THEN t ELSE IF o = t \/ o # b THEN o ELSE t

\* The side that changed a row wins; when both agree there is nothing to decide.
MergeRow(b, o, t) == IF o = t \/ o # b THEN o ELSE t

HasConflict(base, ours, theirs) ==
  \E i \in Ids : RowConflicts(base[i], ours[i], theirs[i])

MergeManifests(base, ours, theirs) ==
  [i \in Ids |-> MergeRow(base[i], ours[i], theirs[i])]

\* threeWayMerge, where manifest[c] is the manifest of commit c.
MergeKind(dag, manifest, ours, theirs) ==
  LET base == FindLCA(dag, ours, theirs) IN
  IF ours = theirs THEN "already-up-to-date"
  ELSE IF base = ours THEN "fast-forward"
  ELSE IF base = theirs THEN "already-up-to-date"
  ELSE IF base = 0 THEN "conflicts"
  ELSE IF HasConflict(manifest[base], manifest[ours], manifest[theirs])
    THEN "conflicts"
  ELSE "merged"

\* The manifest of a clean merge.
Merged(dag, manifest, ours, theirs) ==
  MergeManifests(manifest[FindLCA(dag, ours, theirs)], manifest[ours],
                 manifest[theirs])

=============================================================================
