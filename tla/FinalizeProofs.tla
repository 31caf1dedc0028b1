--------------------------- MODULE FinalizeProofs ---------------------------
(***************************************************************************)
(* Proofs about the search for components and about the linking of imports *)
(* for any number of files and any imports, in whatever order the search   *)
(* follows them.                                                           *)
(***************************************************************************)
EXTENDS Finalize, FiniteSetTheorems, FunctionTheorems, SequenceTheorems, TLAPS

-----------------------------------------------------------------------------
(* Numbers and sequences *)

LEMMA MinIs ==
  ASSUME NEW a \in Nat, NEW b \in Nat
  PROVE  /\ Min({a, b}) \in {a, b}
         /\ Min({a, b}) <= a /\ Min({a, b}) <= b
  <1> DEFINE P(x) == x \in {a, b} /\ \A y \in {a, b} : x <= y
  <1>1. \E x : P(x)
    <2>1. CASE a <= b
      <3>1. P(a)
        BY <2>1
      <3> QED
        BY <3>1
    <2>2. CASE ~(a <= b)
      <3>1. P(b)
        BY <2>2
      <3> QED
        BY <3>1
    <2> QED
      BY <2>1, <2>2
  <1>2. P(CHOOSE x : P(x))
    BY <1>1
  <1>3. Min({a, b}) = CHOOSE x : P(x)
    BY DEF Min
  <1> QED
    BY <1>2, <1>3

LEMMA MaxIs ==
  ASSUME NEW a \in Nat, NEW b \in Nat
  PROVE  /\ Max({a, b}) \in {a, b}
         /\ a <= Max({a, b}) /\ b <= Max({a, b})
  <1> DEFINE P(x) == x \in {a, b} /\ \A y \in {a, b} : x >= y
  <1>1. \E x : P(x)
    <2>1. CASE a <= b
      <3>1. P(b)
        BY <2>1
      <3> QED
        BY <3>1
    <2>2. CASE ~(a <= b)
      <3>1. P(a)
        BY <2>2
      <3> QED
        BY <3>1
    <2> QED
      BY <2>1, <2>2
  <1>2. P(CHOOSE x : P(x))
    BY <1>1
  <1>3. Max({a, b}) = CHOOSE x : P(x)
    BY DEF Max
  <1> QED
    BY <1>2, <1>3

LEMMA AppendIs ==
  ASSUME NEW A, NEW s \in Seq(A), NEW x \in A
  PROVE  \E n \in Nat :
           /\ n = Len(s) /\ Append(s, x) \in Seq(A) /\ Len(Append(s, x)) = n + 1
           /\ DOMAIN s = 1..n /\ DOMAIN Append(s, x) = 1..(n + 1)
           /\ \A i \in 1..n : Append(s, x)[i] = s[i]
           /\ Append(s, x)[n + 1] = x
  <1>1. PICK n \in Nat : n = Len(s)
    OBVIOUS
  <1>2. Append(s, x) \in Seq(A) /\ Len(Append(s, x)) = n + 1
    BY <1>1
  <1>3. \A i \in 1..n : Append(s, x)[i] = s[i]
    BY <1>1
  <1>4. Append(s, x)[n + 1] = x
    BY <1>1
  <1> QED
    BY <1>1, <1>2, <1>3, <1>4

LEMMA AppendSet ==
  ASSUME NEW A, NEW s \in Seq(A), NEW x \in A
  PROVE  ToSet(Append(s, x)) = ToSet(s) \cup {x}
  <1>1. PICK n \in Nat :
           /\ DOMAIN s = 1..n /\ DOMAIN Append(s, x) = 1..(n + 1)
           /\ \A i \in 1..n : Append(s, x)[i] = s[i]
           /\ Append(s, x)[n + 1] = x
    BY AppendIs
  <1>2. 1..(n + 1) = 1..n \cup {n + 1}
    OBVIOUS
  <1>3. \A i \in 1..n : Append(s, x)[i] = s[i]
    BY <1>1
  <1> QED
    BY <1>1, <1>2, <1>3 DEF ToSet

LEMMA PartIs ==
  ASSUME NEW A, NEW s \in Seq(A), NEW m \in Nat \ {0}, NEW n \in Nat, n <= Len(s)
  PROVE  /\ SubSeq(s, m, n) \in Seq(A)
         /\ ToSet(SubSeq(s, m, n)) = {s[i] : i \in m..n}
         /\ Len(SubSeq(s, m, n)) = IF m <= n THEN n - m + 1 ELSE 0
         /\ DOMAIN SubSeq(s, m, n) = 1..(n - m + 1)
         /\ \A i \in 1..(n - m + 1) : SubSeq(s, m, n)[i] = s[m + i - 1]
  <1>1. \A i \in m..n : s[i] \in A
    OBVIOUS
  <1>2. /\ SubSeq(s, m, n) \in Seq(A)
        /\ Len(SubSeq(s, m, n)) = IF m <= n THEN n - m + 1 ELSE 0
        /\ \A i \in 1..(n - m + 1) : SubSeq(s, m, n)[i] = s[m + i - 1]
    BY <1>1, SubSeqProperties
  <1>3. DOMAIN SubSeq(s, m, n) = 1..(n - m + 1)
    BY <1>2
  <1>4. \A i \in m..n : i - m + 1 \in 1..(n - m + 1) /\ m + (i - m + 1) - 1 = i
    OBVIOUS
  <1>5. \A i \in 1..(n - m + 1) : m + i - 1 \in m..n
    OBVIOUS
  <1>6. ToSet(SubSeq(s, m, n)) \subseteq {s[i] : i \in m..n}
    BY <1>2, <1>3, <1>5 DEF ToSet
  <1>7. {s[i] : i \in m..n} \subseteq ToSet(SubSeq(s, m, n))
    <2> SUFFICES ASSUME NEW i \in m..n PROVE s[i] \in ToSet(SubSeq(s, m, n))
      OBVIOUS
    <2>1. SubSeq(s, m, n)[i - m + 1] = s[i]
      BY <1>2, <1>4
    <2> QED
      BY <1>3, <1>4, <2>1 DEF ToSet
  <1> QED
    BY <1>2, <1>3, <1>6, <1>7

-----------------------------------------------------------------------------
(* Files that import each other *)

LEMMA ImportedFiles == \A f : Imported(f) \subseteq Files
  BY DEF Imported

LEMMA ReachSelf ==
  ASSUME NEW f \in Files
  PROVE  f \in Reached(f)
  BY DEF Reached

LEMMA ReachImport ==
  ASSUME NEW f \in Files, NEW g \in Reached(f), NEW h \in Imported(g)
  PROVE  h \in Reached(f)
  <1>1. h \in Files
    BY ImportedFiles
  <1>2. ASSUME NEW S \in SUBSET Files, f \in S, Closed(S)
        PROVE  h \in S
    <2>1. g \in S
      BY <1>2 DEF Reached
    <2> QED
      BY <1>2, <2>1 DEF Closed
  <1> QED
    BY <1>1, <1>2 DEF Reached

LEMMA ReachTrans ==
  ASSUME NEW f \in Files, NEW g \in Reached(f), NEW h \in Reached(g)
  PROVE  h \in Reached(f)
  BY DEF Reached

LEMMA ReachClosed ==
  ASSUME NEW S \in SUBSET Files, Closed(S), NEW f \in S, NEW g \in Reached(f)
  PROVE  g \in S
  BY DEF Reached

\* The imports stay as they are.
LEMMA ReachStays ==
  ASSUME UNCHANGED imports
  PROVE  \A f : Imported(f)' = Imported(f) /\ Reached(f)' = Reached(f) /\ Mutual(f)' = Mutual(f)
  <1>1. \A f : Imported(f)' = Imported(f)
    BY DEF Imported
  <1>2. \A S : Closed(S)' <=> Closed(S)
    BY <1>1 DEF Closed
  <1>3. \A f : Reached(f)' = Reached(f)
    BY <1>2 DEF Reached
  <1> QED
    BY <1>1, <1>3 DEF Mutual

-----------------------------------------------------------------------------
(* The invariant of the search *)

(* Each file is entered once, and entered files are numbered as they come. *)
Numbered ==
  /\ \A f \in Files : index[f] <= Entered /\ low[f] <= index[f]
  /\ \A f \in Files : index[f] # 0 => low[f] # 0
  /\ \A f, g \in Files : index[f] # 0 /\ index[f] = index[g] => f = g

(* The stack holds entered files in the order they were entered. *)
StackOK ==
  /\ \A i \in DOMAIN stack : index[stack[i]] # 0
  /\ \A i, j \in DOMAIN stack : i < j => index[stack[i]] < index[stack[j]]

(* The frames are a path in the import graph, and on the stack. *)
PathOK ==
  /\ \A k \in DOMAIN frames : OnStack(frames[k].node)
  /\ \A k \in DOMAIN frames : frames[k].children \subseteq Imported(frames[k].node)
  /\ \A k, l \in DOMAIN frames : k < l => index[frames[k].node] < index[frames[l].node]

(* What the search has seen of the imports of a file. *)
Seen(g) == {c \in Imported(g) :
              \A k \in DOMAIN frames : frames[k].node = g => c \notin frames[k].children}
SeenOK == \A g \in Files : index[g] # 0 => \A c \in Seen(g) : index[c] # 0

(* A file of the path reaches what is above it on the stack, and what is on the
   stack reaches a file of the path that is not above it. *)
PathReaches ==
  \A k \in DOMAIN frames : \A g \in ToSet(stack) :
    index[frames[k].node] <= index[g] => g \in Reached(frames[k].node)
StackReaches ==
  \A g \in ToSet(stack) : \E k \in DOMAIN frames :
    index[frames[k].node] <= index[g] /\ frames[k].node \in Reached(g)

(* A lowlink is the number of a file that is reached, *)
LowReached ==
  \A f \in ToSet(stack) : \E g \in ToSet(stack) : index[g] = low[f] /\ g \in Reached(f)
(* and none lower on the stack is imported from here up to the next file of the
   path. *)
Above(k, g) ==
  /\ index[frames[k].node] <= index[g]
  /\ \A l \in DOMAIN frames : k < l => index[g] < index[frames[l].node]
LowLowest ==
  \A k \in DOMAIN frames : \A g \in ToSet(stack) : Above(k, g) =>
    \A c \in Seen(g) \cap ToSet(stack) : low[frames[k].node] <= index[c]

(* The components found so far. *)
SccsOK ==
  /\ \A f \in Files : index[f] # 0 <=> OnStack(f) \/ \E i \in DOMAIN sccs : f \in sccs[i].files
  /\ \A i \in DOMAIN sccs : \A f \in sccs[i].files : ~OnStack(f)
  /\ \A i, j \in DOMAIN sccs : \A f \in sccs[i].files : f \in sccs[j].files => i = j
  /\ \A i \in DOMAIN sccs : sccs[i].files # {}
  /\ \A i \in DOMAIN sccs : \A f \in sccs[i].files : sccs[i].files = Mutual(f)
  /\ \A i \in DOMAIN sccs :
       sccs[i].isCycle <=> \E f, g \in sccs[i].files : g \in Imported(f)

Searched == \A f \in Files : \E i \in DOMAIN sccs : f \in sccs[i].files
SearchInv ==
  /\ Numbered /\ StackOK /\ PathOK /\ SeenOK
  /\ PathReaches /\ StackReaches /\ LowReached /\ LowLowest
  /\ SccsOK /\ LeavesFirst
  /\ pc # "tarjan" => Searched

Frame == [node : Files, children : SUBSET Files]
Found == [files : SUBSET Files, isCycle : BOOLEAN]
Types ==
  /\ imports \in Inputs
  /\ pc \in {"tarjan", "link", "done"}
  /\ index \in [Files -> Nat] /\ low \in [Files -> Nat]
  /\ stack \in Seq(Files)
  /\ frames \in Seq(Frame)
  /\ sccs \in Seq(Found)

-----------------------------------------------------------------------------
(* What the steps do *)

LEMMA FilesFinite == IsFiniteSet(Files) /\ Cardinality(Files) = N /\ N \in Nat
  BY FS_Interval, InputAssumption DEF Files

LEMMA EnteredIs ==
  /\ Entered \in Nat /\ Entered <= N
  /\ \A f \in Files : index[f] = 0 => Entered + 1 <= N
  <1> DEFINE T == {f \in Files : index[f] # 0}
  <1>1. IsFiniteSet(Files) /\ Cardinality(Files) = N /\ N \in Nat
    BY FilesFinite
  <1>2. IsFiniteSet(T) /\ Cardinality(T) <= N /\ (Cardinality(T) = N => T = Files)
    BY <1>1, FS_Subset
  <1>3. Cardinality(T) \in Nat
    BY <1>2, FS_CardinalityType
  <1>4. \A f \in Files : index[f] = 0 => Cardinality(T) # N
    BY <1>2
  <1>5. Entered = Cardinality(T)
    BY DEF Entered
  <1> HIDE DEF T
  <1> QED
    BY <1>1, <1>2, <1>3, <1>4, <1>5

LEMMA EnteredGrows ==
  ASSUME Types, NEW f \in Files, index[f] = 0, NEW i \in Nat \ {0}, index' = [index EXCEPT ![f] = i]
  PROVE  Entered' = Entered + 1
  <1> DEFINE T == {g \in Files : index[g] # 0}
  <1>1. IsFiniteSet(Files)
    BY FilesFinite
  <1>2. IsFiniteSet(T) /\ f \notin T
    BY <1>1, FS_Subset
  <1>3. Cardinality(T \cup {f}) = Cardinality(T) + 1
    BY <1>2, FS_AddElement
  <1>4. {g \in Files : index'[g] # 0} = T \cup {f}
    BY DEF Types
  <1> QED
    BY <1>3, <1>4 DEF Entered

\* The top of the frames.
LEMMA TopIs ==
  ASSUME Types, frames # <<>>
  PROVE  \E n \in Nat \ {0} :
           /\ n = Len(frames) /\ DOMAIN frames = 1..n
           /\ Top = frames[n] /\ Top.node \in Files /\ Top.children \subseteq Files
           /\ \A k \in 1..n : frames[k] \in Frame /\ frames[k].node \in Files
  <1>1. PICK n \in Nat : n = Len(frames)
    BY DEF Types
  <1>2. n # 0 /\ DOMAIN frames = 1..n
    BY <1>1 DEF Types
  <1>3. \A k \in 1..n : frames[k] \in Frame
    BY <1>1, <1>2 DEF Types
  <1>4. Top = frames[n] /\ n \in 1..n
    BY <1>1, <1>2 DEF Top, Last
  <1> QED
    BY <1>1, <1>2, <1>3, <1>4 DEF Frame

\* The frames without the child that is looked at.
Rested(n, c, path) ==
  /\ path \in Seq(Frame) /\ Len(path) = n /\ DOMAIN path = 1..n
  /\ \A k \in 1..n : path[k].node = frames[k].node
  /\ \A k \in 1..n : path[k].children = IF k = n THEN frames[k].children \ {c} ELSE frames[k].children
LEMMA RestIs ==
  ASSUME Types, frames # <<>>, NEW c, NEW n \in Nat \ {0}, n = Len(frames)
  PROVE  Rested(n, c, Rest(c))
  <1>1. /\ DOMAIN frames = 1..n /\ \A k \in 1..n : frames[k] \in Frame
    BY TopIs
  <1> DEFINE x == [frames[n] EXCEPT !.children = @ \ {c}]
  <1>2. x \in Frame /\ x.node = frames[n].node /\ x.children = frames[n].children \ {c}
    BY <1>1 DEF Frame
  <1>3. Rest(c) = [frames EXCEPT ![n] = x]
    BY DEF Rest
  <1> HIDE DEF x
  <1>4. /\ Rest(c) \in Seq(Frame) /\ Len(Rest(c)) = n
        /\ \A k \in 1..n : Rest(c)[k] = IF k = n THEN x ELSE frames[k]
    BY <1>2, <1>3, ExceptSeq DEF Types
  <1>5. DOMAIN Rest(c) = 1..n
    BY <1>4
  <1>6. \A k \in 1..n : /\ Rest(c)[k].node = frames[k].node
                        /\ Rest(c)[k].children = IF k = n THEN frames[k].children \ {c}
                                                ELSE frames[k].children
    BY <1>2, <1>4
  <1> QED
    BY <1>4, <1>5, <1>6 DEF Rested

\* Members of the stack are files that were entered.
LEMMA OnStackIs ==
  ASSUME Types, StackOK
  PROVE  \A g \in ToSet(stack) : g \in Files /\ index[g] # 0 /\ OnStack(g)
  BY DEF Types, StackOK, ToSet, OnStack

LEMMA SccIs ==
  ASSUME sccs \in Seq(Found)
  PROVE  \A i \in DOMAIN sccs : sccs[i] \in Found /\ sccs[i].files \subseteq Files
  <1>1. \A i \in DOMAIN sccs : sccs[i] \in Found
    OBVIOUS
  <1>2. \A x \in Found : x.files \subseteq Files
    BY DEF Found
  <1> QED
    BY <1>1, <1>2

-----------------------------------------------------------------------------
(* A file is entered *)

\* The frames a file is entered from: its import is not looked at again.
Leads(f, path, n) ==
  /\ n = Len(frames) /\ path \in Seq(Frame) /\ Len(path) = n /\ DOMAIN path = 1..n
  /\ DOMAIN frames = 1..n
  /\ \A k \in 1..n : frames[k].node \in Files /\ path[k].node = frames[k].node
  /\ \A k \in 1..n : /\ path[k].children \subseteq frames[k].children
                     /\ frames[k].children \subseteq path[k].children \cup {f}
  /\ n # 0 => f \in Imported(frames[n].node)

LEMMA EnterTyped ==
  ASSUME Types, NEW f \in Files, NEW path, NEW n \in Nat, Leads(f, path, n), Enter(f, path),
         UNCHANGED <<imports, pc>>
  PROVE  Types'
  <1>1. Entered + 1 \in Nat
    BY EnteredIs
  <1>2. [node |-> f, children |-> Imported(f)] \in Frame
    BY ImportedFiles DEF Frame
  <1>3. Append(path, [node |-> f, children |-> Imported(f)]) \in Seq(Frame)
    BY <1>2, AppendProperties DEF Leads
  <1>4. Append(stack, f) \in Seq(Files)
    BY AppendProperties DEF Types
  <1> QED
    BY <1>1, <1>3, <1>4 DEF Types, Enter

\* What entering a file changes.
Entering(f, n) ==
  /\ index'[f] = Entered + 1 /\ low'[f] = Entered + 1
  /\ \A g \in Files \ {f} : index'[g] = index[g] /\ low'[g] = low[g]
  /\ \A g \in Files \ {f} : index'[g] < index'[f]
  /\ Entered' = Entered + 1
  /\ ToSet(stack') = ToSet(stack) \cup {f} /\ f \notin ToSet(stack)
  /\ \A g \in ToSet(stack) : g # f
  /\ DOMAIN frames = 1..n /\ DOMAIN frames' = 1..(n + 1)
  /\ \A k \in 1..n : frames'[k].node = frames[k].node /\ frames[k].node # f
                     /\ frames[k].node \in Files
  /\ frames'[n + 1].node = f /\ frames'[n + 1].children = Imported(f)
  /\ \A k \in 1..n : /\ frames'[k].children \subseteq frames[k].children
                     /\ frames[k].children \subseteq frames'[k].children \cup {f}

LEMMA EnterIs ==
  ASSUME Types, Numbered, StackOK, PathOK, NEW f \in Files, index[f] = 0,
         NEW path, NEW n \in Nat, Leads(f, path, n), Enter(f, path)
  PROVE  Entering(f, n)
  <1>1. /\ index'[f] = Entered + 1 /\ low'[f] = Entered + 1
        /\ \A g \in Files \ {f} : index'[g] = index[g] /\ low'[g] = low[g]
    BY DEF Enter, Types
  <1>2. Entered \in Nat /\ Entered + 1 \in Nat \ {0} /\ Entered' = Entered + 1
    <2>1. Entered \in Nat /\ Entered + 1 \in Nat \ {0}
      BY EnteredIs
    <2> QED
      BY <2>1, EnteredGrows DEF Enter
  <1>3. \A g \in Files \ {f} : index'[g] < index'[f]
    BY <1>1, <1>2 DEF Numbered, Types
  <1>4. ToSet(stack') = ToSet(stack) \cup {f}
    BY AppendSet DEF Enter, Types
  <1>5. \A g \in ToSet(stack) : g # f
    BY OnStackIs
  <1> DEFINE x == [node |-> f, children |-> Imported(f)]
  <1>6. x \in Frame /\ x.node = f /\ x.children = Imported(f)
    BY ImportedFiles DEF Frame
  <1>7. frames' = Append(path, x)
    BY DEF Enter
  <1> HIDE DEF x
  <1>8. /\ DOMAIN frames' = 1..(n + 1) /\ frames'[n + 1] = x
        /\ \A k \in 1..n : frames'[k] = path[k]
    <2>1. PICK m \in Nat :
           /\ m = Len(path) /\ DOMAIN Append(path, x) = 1..(m + 1)
           /\ \A i \in 1..m : Append(path, x)[i] = path[i]
           /\ Append(path, x)[m + 1] = x
      BY <1>6, AppendIs DEF Leads
    <2>2. m = n
      BY <2>1 DEF Leads
    <2> QED
      BY <1>7, <2>1, <2>2
  <1>9. \A k \in 1..n : frames[k].node # f
    <2>1. \A k \in 1..n : OnStack(frames[k].node)
      BY DEF PathOK, Leads
    <2> QED
      BY <1>5, <2>1 DEF OnStack
  <1> QED
    BY <1>1, <1>2, <1>3, <1>4, <1>5, <1>6, <1>8, <1>9 DEF Entering, Leads

LEMMA EnterSeen ==
  ASSUME NEW f \in Files, NEW n \in Nat, Entering(f, n), UNCHANGED imports
  PROVE  /\ Seen(f)' = {}
         /\ \A g \in Files \ {f} : Seen(g)' \subseteq Seen(g) \cup {f}
  <1>1. n + 1 \in DOMAIN frames' /\ \A k \in 1..n : k \in DOMAIN frames'
    BY DEF Entering
  <1>2. \A g : Imported(g)' = Imported(g)
    BY ReachStays
  <1>3. Seen(f)' = {}
    BY <1>1, <1>2 DEF Seen, Entering
  <1>4. ASSUME NEW g \in Files \ {f}, NEW c \in Seen(g)', c # f
        PROVE  c \in Seen(g)
    BY <1>1, <1>2, <1>4 DEF Seen, Entering
  <1> QED
    BY <1>3, <1>4

LEMMA EnterStack ==
  ASSUME Types, Numbered, StackOK, NEW f \in Files, NEW n \in Nat, Entering(f, n),
         stack' = Append(stack, f)
  PROVE  StackOK'
  <1>1. PICK m \in Nat :
           /\ DOMAIN stack = 1..m /\ DOMAIN stack' = 1..(m + 1)
           /\ \A i \in 1..m : stack'[i] = stack[i]
           /\ stack'[m + 1] = f
    <2>1. stack \in Seq(Files)
      BY DEF Types
    <2>2. \E m \in Nat :
           /\ m = Len(stack) /\ Append(stack, f) \in Seq(Files) /\ Len(Append(stack, f)) = m + 1
           /\ DOMAIN stack = 1..m /\ DOMAIN Append(stack, f) = 1..(m + 1)
           /\ \A i \in 1..m : Append(stack, f)[i] = stack[i]
           /\ Append(stack, f)[m + 1] = f
      BY <2>1, AppendIs
    <2> QED
      BY <2>2
  <1>2. \A i \in 1..m : stack[i] \in Files \ {f} /\ index[stack[i]] # 0
    <2>1. \A i \in 1..m : stack[i] \in ToSet(stack)
      BY <1>1 DEF ToSet
    <2> QED
      BY <2>1, OnStackIs DEF Entering
  <1>3. \A i \in 1..m : index'[stack'[i]] = index[stack[i]]
    BY <1>1, <1>2 DEF Entering
  <1>4. index'[f] # 0
    BY EnteredIs DEF Entering
  <1>5. ASSUME NEW i \in DOMAIN stack'
        PROVE  index'[stack'[i]] # 0
    BY <1>1, <1>2, <1>3, <1>4
  <1>6. ASSUME NEW i \in DOMAIN stack', NEW j \in DOMAIN stack', i < j
        PROVE  index'[stack'[i]] < index'[stack'[j]]
    <2>1. i \in 1..m
      BY <1>1, <1>6
    <2>2. CASE j \in 1..m
      BY <1>1, <1>3, <1>6, <2>1, <2>2 DEF StackOK
    <2>3. CASE j = m + 1
      BY <1>1, <1>2, <2>1, <2>3 DEF Entering
    <2> QED
      BY <1>1, <2>2, <2>3
  <1> QED
    BY <1>5, <1>6 DEF StackOK

\* The new file is on top of the path and of the stack; the others are below.
LEMMA EnterOrder ==
  ASSUME Types, Numbered, StackOK, PathOK, SeenOK, NEW f \in Files, index[f] = 0,
         NEW n \in Nat, Entering(f, n), UNCHANGED imports
  PROVE  Numbered' /\ PathOK' /\ SeenOK'
  <1>0. Entered \in Nat /\ index \in [Files -> Nat] /\ low \in [Files -> Nat]
    BY EnteredIs DEF Types
  <1>1. Numbered'
    <2>1. ASSUME NEW g \in Files
          PROVE  /\ index'[g] <= Entered' /\ low'[g] <= index'[g]
                 /\ index'[g] # 0 => low'[g] # 0
      <3>1. CASE g = f
        BY <1>0, <3>1 DEF Entering
      <3>2. CASE g # f
        BY <1>0, <3>2 DEF Entering, Numbered
      <3> QED
        BY <3>1, <3>2
    <2>2. ASSUME NEW g \in Files, NEW h \in Files, index'[g] # 0, index'[g] = index'[h]
          PROVE  g = h
      <3>1. CASE g = f \/ h = f
        BY <1>0, <2>2, <3>1 DEF Entering
      <3>2. CASE g # f /\ h # f
        BY <2>2, <3>2 DEF Entering, Numbered
      <3> QED
        BY <3>1, <3>2
    <2> QED
      BY <2>1, <2>2 DEF Numbered
  <1>2. \A k \in 1..n : k \in DOMAIN frames /\ OnStack(frames[k].node)
                       /\ frames[k].children \subseteq Imported(frames[k].node)
    BY DEF PathOK, Entering
  <1>3. \A g : Imported(g)' = Imported(g)
    BY ReachStays
  <1>4. \A k \in 1..n : index'[frames'[k].node] = index[frames[k].node]
    BY DEF Entering
  <1>5. PathOK'
    <2>1. ASSUME NEW k \in DOMAIN frames'
          PROVE  /\ frames'[k].node \in ToSet(stack')
                 /\ frames'[k].children \subseteq Imported(frames'[k].node)
      <3>1. CASE k \in 1..n
        BY <1>2, <3>1 DEF Entering, OnStack
      <3>2. CASE k = n + 1
        BY <3>2 DEF Entering
      <3> QED
        BY <3>1, <3>2 DEF Entering
    <2>2. ASSUME NEW k \in DOMAIN frames', NEW l \in DOMAIN frames', k < l
          PROVE  index'[frames'[k].node] < index'[frames'[l].node]
      <3>1. k \in 1..n /\ (l \in 1..n \/ l = n + 1)
        BY <2>2 DEF Entering
      <3>2. CASE l \in 1..n
        <4>1. index[frames[k].node] < index[frames[l].node]
          BY <2>2, <3>1, <3>2 DEF PathOK, Entering
        <4> QED
          BY <1>4, <3>1, <3>2, <4>1
      <3>3. CASE l = n + 1
        BY <3>1, <3>3 DEF Entering
      <3> QED
        BY <3>1, <3>2, <3>3
    <2> QED
      BY <2>1, <2>2 DEF PathOK, OnStack, Imported, Files
  <1>6. SeenOK'
    <2> SUFFICES ASSUME NEW g \in Files, index'[g] # 0, NEW c \in Seen(g)'
                 PROVE  index'[c] # 0
      BY DEF SeenOK
    <2>1. g # f /\ c \in Seen(g) \cup {f} /\ c \in Files
      BY <1>3, EnterSeen, ImportedFiles DEF Seen
    <2>2. CASE c = f
      BY <1>0, <2>2 DEF Entering
    <2>3. CASE c # f
      <3>1. index[g] # 0
        BY <2>1 DEF Entering
      <3>2. index[c] # 0
        BY <2>1, <2>3, <3>1 DEF SeenOK
      <3> QED
        BY <2>1, <2>3, <3>2 DEF Entering
    <2> QED
      BY <2>2, <2>3
  <1> QED
    BY <1>1, <1>5, <1>6

LEMMA EnterReaches ==
  ASSUME Types, Numbered, StackOK, PathOK, PathReaches, StackReaches, LowReached, LowLowest, SeenOK,
         NEW f \in Files, index[f] = 0, NEW n \in Nat, Entering(f, n),
         n # 0 => f \in Imported(frames[n].node), UNCHANGED imports
  PROVE  PathReaches' /\ StackReaches' /\ LowReached' /\ LowLowest'
  <1>0. /\ Entered \in Nat /\ index \in [Files -> Nat] /\ low \in [Files -> Nat]
        /\ \A g \in ToSet(stack) : g \in Files /\ g # f /\ index[g] # 0
    BY EnteredIs, OnStackIs DEF Types, Entering
  <1>1. \A g : Reached(g)' = Reached(g)
    BY ReachStays
  <1>2. \A g \in ToSet(stack) : index'[g] = index[g] /\ low'[g] = low[g] /\ index[g] < index'[f]
    BY <1>0 DEF Entering
  <1>3. \A k \in 1..n : frames'[k].node = frames[k].node /\ frames[k].node \in ToSet(stack)
                       /\ k \in DOMAIN frames
    BY DEF Entering, PathOK, OnStack
  <1>4. \A k \in 1..n : f \in Reached(frames[k].node)
    <2> SUFFICES ASSUME NEW k \in 1..n PROVE f \in Reached(frames[k].node)
      OBVIOUS
    <2>1. n \in 1..n /\ (k = n \/ k < n)
      OBVIOUS
    <2>2. index[frames[k].node] <= index[frames[n].node]
      BY <1>0, <1>3, <2>1 DEF PathOK
    <2>3. frames[n].node \in Reached(frames[k].node)
      BY <1>3, <2>1, <2>2 DEF PathReaches
    <2> QED
      BY <1>0, <1>3, <2>1, <2>3, ReachImport
  <1>5. PathReaches'
    <2> SUFFICES ASSUME NEW k \in DOMAIN frames', NEW g \in ToSet(stack'),
                        index'[frames'[k].node] <= index'[g]
                 PROVE  g \in Reached(frames'[k].node)
      BY <1>1 DEF PathReaches
    <2>1. CASE k \in 1..n
      <3>1. CASE g = f
        BY <1>3, <1>4, <2>1, <3>1
      <3>2. CASE g # f
        <4>1. g \in ToSet(stack) /\ index[frames[k].node] <= index[g]
          BY <1>2, <1>3, <2>1, <3>2 DEF Entering
        <4> QED
          BY <1>3, <2>1, <4>1 DEF PathReaches
      <3> QED
        BY <3>1, <3>2
    <2>2. CASE k = n + 1
      <3>1. frames'[k].node = f
        BY <2>2 DEF Entering
      <3>2. g = f
        <4>1. g # f => g \in ToSet(stack)
          BY DEF Entering
        <4>2. index'[f] \in Nat
          BY <1>0 DEF Entering
        <4> QED
          BY <1>0, <1>2, <3>1, <4>1, <4>2
      <3> QED
        BY <3>1, <3>2, ReachSelf
    <2> QED
      BY <2>1, <2>2 DEF Entering
  <1>6. StackReaches'
    <2> SUFFICES ASSUME NEW g \in ToSet(stack')
                 PROVE  \E k \in DOMAIN frames' :
                          /\ index'[frames'[k].node] <= index'[g]
                          /\ frames'[k].node \in Reached(g)
      BY <1>1 DEF StackReaches
    <2>1. CASE g = f
      <3>1. n + 1 \in DOMAIN frames' /\ frames'[n + 1].node = f /\ index'[f] \in Nat
        BY <1>0 DEF Entering
      <3> QED
        BY <2>1, <3>1, ReachSelf
    <2>2. CASE g # f
      <3>1. g \in ToSet(stack)
        BY <2>2 DEF Entering
      <3>2. PICK k \in 1..n : index[frames[k].node] <= index[g] /\ frames[k].node \in Reached(g)
        BY <3>1 DEF StackReaches, Entering
      <3>3. k \in DOMAIN frames'
        BY DEF Entering
      <3> QED
        BY <1>2, <1>3, <3>1, <3>2, <3>3
    <2> QED
      BY <2>1, <2>2
  <1>7. LowReached'
    <2> SUFFICES ASSUME NEW g \in ToSet(stack')
                 PROVE  \E h \in ToSet(stack') : index'[h] = low'[g] /\ h \in Reached(g)
      BY <1>1 DEF LowReached
    <2>1. CASE g = f
      BY <2>1, ReachSelf DEF Entering
    <2>2. CASE g # f
      <3>1. g \in ToSet(stack)
        BY <2>2 DEF Entering
      <3>2. PICK h \in ToSet(stack) : index[h] = low[g] /\ h \in Reached(g)
        BY <3>1 DEF LowReached
      <3>3. h \in ToSet(stack')
        BY DEF Entering
      <3> QED
        BY <1>2, <3>1, <3>2, <3>3
    <2> QED
      BY <2>1, <2>2
  <1>8. LowLowest'
    <2> SUFFICES ASSUME NEW k \in DOMAIN frames', NEW g \in ToSet(stack'), Above(k, g)',
                        NEW c \in Seen(g)' \cap ToSet(stack')
                 PROVE  low'[frames'[k].node] <= index'[c]
      BY DEF LowLowest
    <2>1. g # f /\ g \in ToSet(stack) /\ c \in Seen(g) \cup {f}
      BY EnterSeen, <1>0 DEF Entering
    <2>2. k \in 1..n
      <3>1. k # n + 1
        <4>1. frames'[n + 1].node = f /\ index'[f] \in Nat /\ index[g] \in Nat
          BY <1>0, <2>1 DEF Entering
        <4>2. index'[frames'[k].node] <= index[g]
          BY <1>2, <2>1 DEF Above
        <4> QED
          BY <1>2, <2>1, <4>1, <4>2
      <3> QED
        BY <3>1 DEF Entering
    <2>3. low'[frames'[k].node] = low[frames[k].node] /\ low[frames[k].node] <= index[frames[k].node]
      BY <1>0, <1>2, <1>3, <2>2 DEF Numbered
    <2>4. CASE c = f
      <3>1. index[frames[k].node] < index'[f] /\ index'[f] \in Nat
        BY <1>0, <1>2, <1>3, <2>2 DEF Entering
      <3>2. low[frames[k].node] \in Nat /\ index[frames[k].node] \in Nat
        BY <1>0, <1>3, <2>2
      <3> QED
        BY <2>3, <2>4, <3>1, <3>2
    <2>5. CASE c # f
      <3>1. c \in Seen(g) \cap ToSet(stack)
        BY <2>1, <2>5 DEF Entering
      <3>2. Above(k, g)
        <4>1. \A l \in DOMAIN frames : l \in DOMAIN frames' /\ index'[frames'[l].node] = index[frames[l].node]
          BY <1>2, <1>3 DEF Entering
        <4> QED
          BY <1>2, <1>3, <2>1, <2>2, <4>1 DEF Above
      <3>3. low[frames[k].node] <= index[c]
        BY <1>3, <2>1, <2>2, <3>1, <3>2 DEF LowLowest
      <3> QED
        BY <1>2, <2>3, <3>1, <3>3
    <2> QED
      BY <2>4, <2>5
  <1> QED
    BY <1>5, <1>6, <1>7, <1>8

-----------------------------------------------------------------------------
(* What does not concern the components *)

LEMMA SccsStay ==
  ASSUME SccsOK, LeavesFirst, UNCHANGED <<imports, sccs>>,
         \A g \in Files : index[g] # 0 /\ g \notin ToSet(stack) <=> index'[g] # 0 /\ g \notin ToSet(stack'),
         \A g \in ToSet(stack') : index'[g] # 0,
         \A g \in ToSet(stack) : index[g] # 0,
         Types
  PROVE  SccsOK' /\ LeavesFirst'
  <1>1. \A f : Imported(f)' = Imported(f) /\ Mutual(f)' = Mutual(f)
    BY ReachStays
  <1>2. \A i \in DOMAIN sccs : sccs[i].files \subseteq Files
    BY SccIs DEF Types
  <1>3. ASSUME NEW f \in Files
        PROVE  index'[f] # 0 <=> f \in ToSet(stack') \/ \E i \in DOMAIN sccs : f \in sccs[i].files
    <2>1. (\E i \in DOMAIN sccs : f \in sccs[i].files) <=> index[f] # 0 /\ f \notin ToSet(stack)
      BY DEF SccsOK, OnStack
    <2> QED
      BY <2>1
  <1>4. \A i \in DOMAIN sccs : \A f \in sccs[i].files : f \notin ToSet(stack')
    <2> SUFFICES ASSUME NEW i \in DOMAIN sccs, NEW f \in sccs[i].files PROVE f \notin ToSet(stack')
      OBVIOUS
    <2>1. f \in Files /\ f \notin ToSet(stack) /\ index[f] # 0
      BY <1>2 DEF SccsOK, OnStack
    <2> QED
      BY <2>1
  <1>5. \A i, j \in DOMAIN sccs : \A f \in sccs[i].files : f \in sccs[j].files => i = j
    BY DEF SccsOK
  <1>6. \A i \in DOMAIN sccs : sccs[i].files # {}
    BY DEF SccsOK
  <1>7. \A i \in DOMAIN sccs : \A f \in sccs[i].files : sccs[i].files = Mutual(f)'
    BY <1>1 DEF SccsOK
  <1>8. \A i \in DOMAIN sccs :
          sccs[i].isCycle <=> \E f, g \in sccs[i].files : g \in Imported(f)'
    BY <1>1 DEF SccsOK
  <1>9. \A i \in DOMAIN sccs : \A f \in sccs[i].files :
          Imported(f)' \subseteq UNION {sccs[j].files : j \in 1..i}
    BY <1>1 DEF LeavesFirst
  <1>10. SccsOK'
    BY <1>3, <1>4, <1>5, <1>6, <1>7, <1>8 DEF SccsOK, OnStack, Files
  <1> QED
    BY <1>9, <1>10 DEF LeavesFirst

LEMMA SearchStays ==
  ASSUME SearchInv, Types, UNCHANGED <<imports, search>>, pc' = "tarjan" \/ Searched
  PROVE  SearchInv'
  <1>1. \A f : Imported(f)' = Imported(f) /\ Reached(f)' = Reached(f)
    BY ReachStays
  <1>2. Entered' = Entered /\ \A g : Seen(g)' = Seen(g)
    BY <1>1 DEF search, Entered, Seen
  <1>3. Numbered' /\ StackOK' /\ SeenOK'
    BY <1>2 DEF SearchInv, search, Numbered, StackOK, SeenOK
  <1>4. PathOK'
    BY DEF SearchInv, search, PathOK, OnStack, Imported, Files
  <1>5. PathReaches' /\ StackReaches' /\ LowReached'
    BY DEF SearchInv, search, PathReaches, StackReaches, LowReached, Reached, Closed, Imported, Files
  <1>6. LowLowest'
    BY <1>2 DEF SearchInv, search, LowLowest, Above
  <1>7. SccsOK' /\ LeavesFirst'
    BY SccsStay, OnStackIs DEF SearchInv, search
  <1>8. pc' # "tarjan" => Searched'
    BY DEF search, Searched
  <1> QED
    BY <1>3, <1>4, <1>5, <1>6, <1>7, <1>8 DEF SearchInv

LEMMA EnterKeeps ==
  ASSUME SearchInv, Types, pc = "tarjan", NEW f \in Files, index[f] = 0,
         NEW path, NEW n \in Nat, Leads(f, path, n), Enter(f, path), UNCHANGED <<imports, pc>>
  PROVE  SearchInv' /\ Types'
  <1>1. Entering(f, n)
    BY EnterIs DEF SearchInv
  <1>2. Types'
    BY EnterTyped
  <1>3. StackOK'
    BY <1>1, EnterStack DEF SearchInv, Enter
  <1>4. Numbered' /\ PathOK' /\ SeenOK'
    BY <1>1, EnterOrder DEF SearchInv
  <1>5. PathReaches' /\ StackReaches' /\ LowReached' /\ LowLowest'
    BY <1>1, EnterReaches DEF SearchInv, Leads
  <1>6. SccsOK' /\ LeavesFirst'
    <2>1. \A g \in ToSet(stack) : g \in Files /\ index[g] # 0 /\ g # f
      BY <1>1, OnStackIs DEF SearchInv, Entering
    <2>2. \A g \in ToSet(stack') : index'[g] # 0
      BY <1>1, <2>1, EnteredIs DEF Entering
    <2>3. \A g \in Files : index[g] # 0 /\ g \notin ToSet(stack)
                              <=> index'[g] # 0 /\ g \notin ToSet(stack')
      BY <1>1, <2>1 DEF Entering
    <2>4. UNCHANGED sccs
      BY DEF Enter
    <2> QED
      BY <2>1, <2>2, <2>3, <2>4, SccsStay DEF SearchInv
  <1> QED
    BY <1>2, <1>3, <1>4, <1>5, <1>6 DEF SearchInv

LEMMA RootKeeps ==
  ASSUME SearchInv, Types, Root
  PROVE  SearchInv' /\ Types'
  <1>1. PICK f \in Files : index[f] = 0 /\ Enter(f, frames)
    BY DEF Root
  <1>2. frames = <<>> /\ pc = "tarjan" /\ UNCHANGED <<imports, pc>>
    BY DEF Root
  <1>3. Leads(f, frames, 0)
    BY <1>2 DEF Leads
  <1> QED
    BY <1>1, <1>2, <1>3, EnterKeeps

LEMMA NewChildKeeps ==
  ASSUME SearchInv, Types, pc = "tarjan", frames # <<>>, NEW c \in Top.children, NewChild(c),
         UNCHANGED <<imports, pc>>
  PROVE  SearchInv' /\ Types'
  <1>1. PICK n \in Nat \ {0} :
          /\ n = Len(frames) /\ DOMAIN frames = 1..n /\ Top = frames[n] /\ Top.children \subseteq Files
          /\ \A k \in 1..n : frames[k].node \in Files
    BY TopIs
  <1>2. Rested(n, c, Rest(c))
    BY <1>1, RestIs
  <1>3. c \in Files /\ index[c] = 0 /\ Enter(c, Rest(c))
    BY <1>1 DEF NewChild
  <1>4. c \in Imported(frames[n].node)
    BY <1>1 DEF SearchInv, PathOK
  <1>5. Leads(c, Rest(c), n)
    BY <1>1, <1>2, <1>4 DEF Leads, Rested
  <1> QED
    BY <1>3, <1>5, EnterKeeps

-----------------------------------------------------------------------------
(* An import that was entered before *)

\* What looking at it changes.
Looking(c, f, n) ==
  /\ DOMAIN frames = 1..n /\ DOMAIN frames' = 1..n /\ frames[n].node = f
  /\ \A k \in 1..n : frames'[k].node = frames[k].node /\ frames[k].node \in Files
  /\ \A k \in 1..n : frames'[k].children = IF k = n THEN frames[k].children \ {c}
                                          ELSE frames[k].children
  /\ UNCHANGED <<imports, index, stack, sccs>>
  /\ index[c] # 0 /\ c \in Imported(f)
  /\ \A g \in Files \ {f} : low'[g] = low[g]
  /\ low'[f] \in {low[f], index[c]} /\ low'[f] <= low[f]
  /\ c \in ToSet(stack) => low'[f] <= index[c]
  /\ c \notin ToSet(stack) => low'[f] = low[f]

LEMMA LookIs ==
  ASSUME PathOK, Types, pc = "tarjan", frames # <<>>, NEW c \in Top.children, OldChild(c),
         UNCHANGED <<imports, pc>>
  PROVE  \E n \in Nat \ {0} : \E f \in Files : Looking(c, f, n) /\ Types'
  <1>1. PICK n \in Nat \ {0} :
          /\ n = Len(frames) /\ DOMAIN frames = 1..n /\ Top = frames[n] /\ Top.children \subseteq Files
          /\ Top.node \in Files
          /\ \A k \in 1..n : frames[k].node \in Files
    BY TopIs
  <1>2. Rested(n, c, Rest(c))
    BY <1>1, RestIs
  <1>3. PICK f \in Files : f = Top.node
    BY <1>1
  <1>4. c \in Files /\ c \in Imported(f)
    BY <1>1, <1>3 DEF PathOK
  <1>5. low[f] \in Nat /\ index[c] \in Nat
    BY <1>3, <1>4 DEF Types
  <1>6. /\ low' \in [Files -> Nat]
        /\ \A g \in Files \ {f} : low'[g] = low[g]
        /\ low'[f] \in {low[f], index[c]} /\ low'[f] <= low[f]
        /\ c \in ToSet(stack) => low'[f] <= index[c]
        /\ c \notin ToSet(stack) => low'[f] = low[f]
    <2>1. CASE c \in ToSet(stack)
      <3>1. PICK m : m = Min({low[f], index[c]})
        OBVIOUS
      <3>2. m \in {low[f], index[c]} /\ m <= low[f] /\ m <= index[c]
        BY <1>5, <3>1, MinIs
      <3>3. low' = [low EXCEPT ![f] = m]
        BY <1>3, <2>1, <3>1 DEF OldChild, OnStack
      <3> QED
        BY <1>5, <2>1, <3>2, <3>3 DEF Types
    <2>2. CASE c \notin ToSet(stack)
      <3>1. low' = low
        BY <2>2 DEF OldChild, OnStack
      <3> QED
        BY <1>5, <2>2, <3>1 DEF Types
    <2> QED
      BY <2>1, <2>2
  <1>7. frames' = Rest(c) /\ index[c] # 0 /\ UNCHANGED <<index, stack, sccs>>
    BY DEF OldChild
  <1>8. Types'
    BY <1>2, <1>6, <1>7 DEF Types, Rested
  <1>9. Looking(c, f, n)
    BY <1>1, <1>2, <1>3, <1>4, <1>6, <1>7 DEF Looking, Rested
  <1> QED
    BY <1>8, <1>9

LEMMA LookSeen ==
  ASSUME PathOK, NEW n \in Nat \ {0}, NEW f \in Files, NEW c, Looking(c, f, n)
  PROVE  /\ \A g \in Files \ {f} : Seen(g)' = Seen(g)
         /\ Seen(f)' \subseteq Seen(f) \cup {c}
  <1>1. \A g : Imported(g)' = Imported(g)
    BY ReachStays DEF Looking
  <1>2. ASSUME NEW g \in Files \ {f}
        PROVE  Seen(g)' = Seen(g)
    <2>1. \A k \in 1..n : frames[k].node = g => frames'[k].children = frames[k].children
      BY DEF Looking
    <2> QED
      BY <1>1, <2>1 DEF Seen, Looking
  <1>3. \A k \in DOMAIN frames : k \in DOMAIN frames' /\ frames'[k].node = frames[k].node
                              /\ frames[k].children \ {c} \subseteq frames'[k].children
    BY DEF Looking
  <1>4. Seen(f)' \subseteq Seen(f) \cup {c}
    BY <1>1, <1>3 DEF Seen
  <1> QED
    BY <1>2, <1>4

LEMMA OldChildKeeps ==
  ASSUME SearchInv, Types, pc = "tarjan", frames # <<>>, NEW c \in Top.children, OldChild(c),
         UNCHANGED <<imports, pc>>
  PROVE  SearchInv' /\ Types'
  <1>1. PICK n \in Nat \ {0}, f \in Files : Looking(c, f, n) /\ Types'
    BY LookIs DEF SearchInv
  <1>2. /\ \A g \in Files \ {f} : Seen(g)' = Seen(g)
        /\ Seen(f)' \subseteq Seen(f) \cup {c}
    BY <1>1, LookSeen DEF SearchInv
  <1>3. \A g : Imported(g)' = Imported(g) /\ Reached(g)' = Reached(g)
    BY <1>1, ReachStays DEF Looking
  <1>4. /\ index \in [Files -> Nat] /\ low \in [Files -> Nat] /\ low' \in [Files -> Nat]
        /\ \A g \in ToSet(stack) : g \in Files /\ index[g] # 0
    BY <1>1, OnStackIs DEF Types, SearchInv
  <1>5. \A g \in Files : low'[g] <= low[g]
    <2>1. low'[f] <= low[f] /\ \A g \in Files \ {f} : low'[g] = low[g]
      BY <1>1 DEF Looking
    <2>2. \A g \in Files : low[g] <= low[g]
      BY <1>4
    <2> QED
      BY <2>1, <2>2
  <1>6. \A k \in 1..n : k \in DOMAIN frames /\ frames'[k].node = frames[k].node
    BY <1>1 DEF Looking
  <1>7. n \in 1..n /\ frames[n].node = f /\ f \in ToSet(stack)
    BY <1>1 DEF Looking, SearchInv, PathOK, OnStack
  <1>8. Numbered'
    <2>1. Entered' = Entered
      BY <1>1 DEF Looking, Entered
    <2>2. ASSUME NEW g \in Files
          PROVE  /\ index[g] <= Entered /\ low'[g] <= index[g]
                 /\ index[g] # 0 => low'[g] # 0
      <3>1. index[g] <= Entered /\ low[g] <= index[g] /\ (index[g] # 0 => low[g] # 0)
        BY DEF SearchInv, Numbered
      <3>2. g # f => low'[g] = low[g]
        BY <1>1 DEF Looking
      <3>3. low'[f] \in {low[f], index[c]} /\ index[c] # 0
        BY <1>1 DEF Looking
      <3> QED
        BY <1>4, <1>5, <3>1, <3>2, <3>3
    <2> QED
      BY <1>1, <2>1, <2>2 DEF SearchInv, Numbered, Looking
  <1>9. StackOK'
    BY <1>1 DEF SearchInv, StackOK, Looking
  <1>10. PathOK'
    <2>1. ASSUME NEW k \in 1..n
          PROVE  OnStack(frames[k].node) /\ frames'[k].children \subseteq Imported(frames[k].node)
      <3>1. OnStack(frames[k].node) /\ frames[k].children \subseteq Imported(frames[k].node)
        BY <1>6 DEF SearchInv, PathOK
      <3> QED
        BY <1>1, <3>1 DEF Looking
    <2>2. \A k, l \in 1..n : k < l => index[frames[k].node] < index[frames[l].node]
      BY <1>6 DEF SearchInv, PathOK
    <2> QED
      BY <1>1, <2>1, <2>2 DEF PathOK, Looking, OnStack, Imported, Files
  <1>11. SeenOK'
    <2> SUFFICES ASSUME NEW g \in Files, index[g] # 0, NEW d \in Seen(g)'
                 PROVE  index[d] # 0
      BY <1>1 DEF SeenOK, Looking
    <2>1. d \in Seen(g) \cup {c}
      BY <1>2
    <2> QED
      BY <1>1, <2>1 DEF SearchInv, SeenOK, Looking
  <1>12. PathReaches' /\ StackReaches'
    BY <1>1, <1>3, <1>6 DEF SearchInv, PathReaches, StackReaches, Looking
  <1>13. LowReached'
    <2> SUFFICES ASSUME NEW g \in ToSet(stack)
                 PROVE  \E h \in ToSet(stack) : index[h] = low'[g] /\ h \in Reached(g)
      BY <1>1, <1>3 DEF LowReached, Looking
    <2>1. CASE low'[g] = low[g]
      BY <2>1 DEF SearchInv, LowReached
    <2>2. CASE low'[g] # low[g]
      <3>1. g = f /\ low'[g] = index[c] /\ c \in ToSet(stack)
        BY <1>1, <1>4, <2>2 DEF Looking
      <3>2. c \in Reached(f)
        BY <1>1, ReachSelf, ReachImport DEF Looking
      <3> QED
        BY <3>1, <3>2
    <2> QED
      BY <2>1, <2>2
  <1>14. LowLowest'
    <2> SUFFICES ASSUME NEW k \in 1..n, NEW g \in ToSet(stack), Above(k, g)',
                        NEW d \in Seen(g)' \cap ToSet(stack)
                 PROVE  low'[frames[k].node] <= index[d]
      BY <1>1 DEF LowLowest, Looking
    <2>1. Above(k, g)
      BY <1>1 DEF Above, Looking
    <2>2. frames[k].node \in Files /\ d \in Files
      BY <1>1, <1>4 DEF Looking
    <2>3. CASE d \in Seen(g)
      <3>1. low[frames[k].node] <= index[d]
        BY <1>6, <2>1, <2>3 DEF SearchInv, LowLowest
      <3> QED
        BY <1>4, <1>5, <2>2, <3>1
    <2>4. CASE d \notin Seen(g)
      <3>1. g = f /\ d = c
        BY <1>2, <1>4, <2>4
      <3>2. k = n
        <4>1. k # n => k < n /\ index[f] < index[f]
          BY <1>6, <1>7, <2>1, <3>1 DEF Above
        <4> QED
          BY <1>4, <4>1
      <3> QED
        BY <1>1, <1>7, <3>1, <3>2 DEF Looking
    <2> QED
      BY <2>3, <2>4
  <1>15. SccsOK' /\ LeavesFirst'
    <2>1. \A g \in ToSet(stack') : index'[g] # 0
      BY <1>1, <1>4 DEF Looking
    <2> QED
      BY <1>1, <1>4, <2>1, SccsStay DEF SearchInv, Looking
  <1>16. pc' # "tarjan" => Searched'
    OBVIOUS
  <1> QED
    BY <1>1, <1>8, <1>9, <1>10, <1>11, <1>12, <1>13, <1>14, <1>15, <1>16 DEF SearchInv

-----------------------------------------------------------------------------
(* A file is left *)

\* The path without its last file, whose lowlink the file before learns.
Leaving(f, n) ==
  /\ DOMAIN frames = 1..n /\ DOMAIN frames' = 1..(n - 1)
  /\ frames[n].node = f /\ frames[n].children = {}
  /\ \A k \in 1..(n - 1) : frames'[k] = frames[k]
  /\ \A k \in 1..n : frames[k].node \in Files
  /\ UNCHANGED <<imports, pc, index>>
  /\ \A g \in Files : low'[g] = low[g] \/ (n # 1 /\ g = frames[n - 1].node /\ low'[g] = low[f])
  /\ \A g \in Files : low'[g] <= low[g]
  /\ n # 1 => low'[frames[n - 1].node] <= low[f]

LEMMA LeaveIs ==
  ASSUME Types, Leave
  PROVE  \E n \in Nat \ {0} : \E f \in Files :
           /\ Leaving(f, n) /\ f = Top.node
           /\ low' \in [Files -> Nat] /\ frames' \in Seq(Frame)
  <1>1. PICK n \in Nat \ {0} :
          /\ n = Len(frames) /\ DOMAIN frames = 1..n /\ Top = frames[n] /\ Top.node \in Files
          /\ \A k \in 1..n : frames[k] \in Frame /\ frames[k].node \in Files
    BY TopIs DEF Leave
  <1>2. PICK f \in Files : f = Top.node
    BY <1>1
  <1>3. frames' = Front(frames)
    BY DEF Leave
  <1>4. n - 1 \in Nat /\ n - 1 <= Len(frames)
    BY <1>1
  <1>5. Front(frames) = SubSeq(frames, 1, n - 1)
    BY <1>1 DEF Front
  <1>6. /\ SubSeq(frames, 1, n - 1) \in Seq(Frame)
        /\ DOMAIN SubSeq(frames, 1, n - 1) = 1..(n - 1)
        /\ \A k \in 1..(n - 1) : SubSeq(frames, 1, n - 1)[k] = frames[k]
    <2>1. frames \in Seq(Frame) /\ 1 \in Nat \ {0}
      BY DEF Types
    <2>2. /\ SubSeq(frames, 1, n - 1) \in Seq(Frame)
          /\ DOMAIN SubSeq(frames, 1, n - 1) = 1..((n - 1) - 1 + 1)
          /\ \A k \in 1..((n - 1) - 1 + 1) : SubSeq(frames, 1, n - 1)[k] = frames[1 + k - 1]
      BY <1>4, <2>1, PartIs
    <2>3. (n - 1) - 1 + 1 = n - 1 /\ \A k \in 1..(n - 1) : 1 + k - 1 = k
      OBVIOUS
    <2> QED
      BY <2>2, <2>3
  <1>7. /\ low' \in [Files -> Nat]
        /\ \A g \in Files : low'[g] = low[g] \/ (n # 1 /\ g = frames[n - 1].node /\ low'[g] = low[f])
        /\ \A g \in Files : low'[g] <= low[g]
        /\ n # 1 => low'[frames[n - 1].node] <= low[f]
    <2>1. low \in [Files -> Nat] /\ low[f] \in Nat
      BY DEF Types
    <2>2. CASE n = 1
      <3>1. low' = low
        BY <1>1, <2>2 DEF Leave, Propagate
      <3>2. \A g \in Files : low[g] <= low[g]
        BY <2>1
      <3> QED
        BY <2>1, <2>2, <3>1, <3>2
    <2>3. CASE n # 1
      <3>1. PICK p \in Files : p = frames[n - 1].node
        BY <1>1, <2>3
      <3>2. PICK m : m = Min({low[p], low[f]})
        OBVIOUS
      <3>3. m \in {low[p], low[f]} /\ m <= low[p] /\ m <= low[f]
        BY <2>1, <3>2, MinIs
      <3>4. low' = [low EXCEPT ![p] = m]
        BY <1>1, <1>2, <2>3, <3>1, <3>2 DEF Leave, Propagate, Parent
      <3>5. m \in Nat /\ \A g \in Files : low[g] <= low[g]
        BY <2>1, <3>3
      <3> QED
        BY <2>1, <2>3, <3>1, <3>3, <3>4, <3>5
    <2> QED
      BY <2>2, <2>3
  <1>8. frames[n].node = f /\ frames[n].children = {} /\ UNCHANGED <<imports, pc, index>>
    BY <1>1, <1>2 DEF Leave
  <1>9. Leaving(f, n)
    BY <1>1, <1>3, <1>5, <1>6, <1>7, <1>8 DEF Leaving
  <1> QED
    BY <1>2, <1>3, <1>5, <1>6, <1>7, <1>9

LEMMA LeaveSeen ==
  ASSUME NEW n \in Nat \ {0}, NEW f \in Files, Leaving(f, n)
  PROVE  \A g : Seen(g)' = Seen(g)
  <1>1. \A g : Imported(g)' = Imported(g)
    BY ReachStays DEF Leaving
  <1>2. \A k \in DOMAIN frames : k = n \/ (k \in DOMAIN frames' /\ frames'[k] = frames[k])
    BY DEF Leaving
  <1>3. \A k \in DOMAIN frames' : k \in DOMAIN frames /\ frames'[k] = frames[k]
    BY DEF Leaving
  <1>4. \A c : c \notin frames[n].children
    BY DEF Leaving
  <1> QED
    BY <1>1, <1>2, <1>3, <1>4 DEF Seen

\* The files that stay on the stack: all of them, or those below a file that is
\* its own lowlink.
Staying(f) == {g \in ToSet(stack) : low[f] = index[f] => index[g] < index[f]}

LEMMA LeaveOrder ==
  ASSUME SearchInv, Types, NEW n \in Nat \ {0}, NEW f \in Files, Leaving(f, n),
         low' \in [Files -> Nat], ToSet(stack') = Staying(f)
  PROVE  Numbered' /\ PathOK' /\ SeenOK'
  <1>0. index \in [Files -> Nat] /\ low \in [Files -> Nat]
    BY DEF Types
  <1>1. Numbered'
    <2>1. Entered' = Entered /\ UNCHANGED index
      BY DEF Entered, Leaving
    <2>2. ASSUME NEW g \in Files
          PROVE  /\ index[g] <= Entered /\ low'[g] <= index[g]
                 /\ index[g] # 0 => low'[g] # 0
      <3>1. index[g] <= Entered /\ low[g] <= index[g] /\ (index[g] # 0 => low[g] # 0)
        BY DEF SearchInv, Numbered
      <3>2. low'[g] <= low[g] /\ (low'[g] = low[g] \/ low'[g] = low[f])
        BY DEF Leaving
      <3>3. low[f] # 0
        <4>1. f \in ToSet(stack)
          BY DEF Leaving, SearchInv, PathOK, OnStack
        <4>2. index[f] # 0
          BY <4>1, OnStackIs DEF SearchInv
        <4> QED
          BY <4>2 DEF SearchInv, Numbered
      <3> QED
        BY <1>0, <3>1, <3>2, <3>3
    <2> QED
      BY <2>1, <2>2 DEF SearchInv, Numbered
  <1>2. PathOK'
    <2>1. ASSUME NEW k \in 1..(n - 1)
          PROVE  /\ frames[k].node \in Staying(f)
                 /\ frames[k].children \subseteq Imported(frames[k].node)
      <3>1. k \in DOMAIN frames /\ n \in DOMAIN frames /\ k < n /\ frames[n].node = f
        BY DEF Leaving
      <3>2. /\ OnStack(frames[k].node) /\ frames[k].children \subseteq Imported(frames[k].node)
            /\ index[frames[k].node] < index[f]
        BY <3>1 DEF SearchInv, PathOK
      <3> QED
        BY <3>2 DEF Staying, OnStack
    <2>2. \A k \in 1..(n - 1) : k \in DOMAIN frames /\ frames'[k] = frames[k]
      BY DEF Leaving
    <2>3. DOMAIN frames' = 1..(n - 1) /\ UNCHANGED <<imports, index>>
      BY DEF Leaving
    <2>4. \A k, l \in 1..(n - 1) : k < l => index[frames[k].node] < index[frames[l].node]
      BY <2>2 DEF SearchInv, PathOK
    <2> QED
      BY <2>1, <2>2, <2>3, <2>4 DEF PathOK, OnStack, Imported, Files
  <1>3. SeenOK'
    BY LeaveSeen DEF SearchInv, SeenOK, Leaving
  <1> QED
    BY <1>1, <1>2, <1>3

LEMMA LeaveReaches ==
  ASSUME SearchInv, Types, NEW n \in Nat \ {0}, NEW f \in Files, Leaving(f, n),
         low' \in [Files -> Nat], ToSet(stack') = Staying(f)
  PROVE  PathReaches' /\ StackReaches' /\ LowReached' /\ LowLowest'
  <1>1. /\ index \in [Files -> Nat] /\ low \in [Files -> Nat]
        /\ \A g \in ToSet(stack) : g \in Files /\ index[g] # 0
    BY OnStackIs DEF Types, SearchInv
  <1>2. \A g : Reached(g)' = Reached(g)
    BY ReachStays DEF Leaving
  <1>3. \A k \in 1..n : k \in DOMAIN frames /\ frames[k].node \in ToSet(stack)
    BY DEF Leaving, SearchInv, PathOK, OnStack
  <1>4. n \in 1..n /\ frames[n].node = f /\ \A k \in 1..(n - 1) : k \in 1..n /\ k < n
    BY DEF Leaving
  <1>5. \A k \in 1..(n - 1) : index[frames[k].node] < index[f]
    BY <1>3, <1>4 DEF SearchInv, PathOK
  <1>6. \A g \in Files : low[g] <= index[g]
    BY DEF SearchInv, Numbered
  <1>7. \A g \in ToSet(stack) : g \in Staying(f) <=> (low[f] = index[f] => index[g] < index[f])
    BY DEF Staying
  <1>8. Staying(f) \subseteq ToSet(stack)
    BY DEF Staying
  <1>9. PathReaches'
    BY <1>2, <1>3, <1>4, <1>8 DEF SearchInv, PathReaches, Leaving
  <1>10. StackReaches'
    <2> SUFFICES ASSUME NEW g \in Staying(f)
                 PROVE  \E k \in 1..(n - 1) :
                          index[frames[k].node] <= index[g] /\ frames[k].node \in Reached(g)
      BY <1>2 DEF StackReaches, Leaving
    <2>1. PICK k \in 1..n : index[frames[k].node] <= index[g] /\ frames[k].node \in Reached(g)
      BY <1>8 DEF SearchInv, StackReaches, Leaving
    <2>2. CASE k # n
      BY <2>1, <2>2
    <2>3. CASE k = n
      <3>1. index[f] <= index[g] /\ f \in Reached(g)
        BY <1>4, <2>1, <2>3
      <3>2. low[f] < index[f]
        BY <1>1, <1>6, <1>7, <1>8, <3>1
      <3>3. PICK h \in ToSet(stack) : index[h] = low[f] /\ h \in Reached(f)
        BY <1>3, <1>4 DEF SearchInv, LowReached
      <3>4. PICK l \in 1..n : index[frames[l].node] <= index[h] /\ frames[l].node \in Reached(h)
        BY <3>3 DEF SearchInv, StackReaches, Leaving
      <3>5. l \in 1..(n - 1) /\ index[frames[l].node] <= index[g]
        <4>1. /\ index[frames[l].node] \in Nat /\ index[g] \in Nat /\ index[f] \in Nat
              /\ index[h] \in Nat
          BY <1>1, <1>3, <1>8, <3>3
        <4>2. l # n
          BY <1>4, <3>2, <3>3, <3>4, <4>1
        <4>3. index[frames[l].node] <= index[g]
          BY <3>1, <3>2, <3>3, <3>4, <4>1
        <4> QED
          BY <4>2, <4>3
      <3>6. frames[l].node \in Reached(g)
        BY <1>1, <1>8, <3>1, <3>3, <3>4, ReachTrans
      <3> QED
        BY <3>5, <3>6
    <2> QED
      BY <2>2, <2>3
  <1>11. LowReached'
    <2> SUFFICES ASSUME NEW g \in Staying(f)
                 PROVE  \E h \in Staying(f) : index[h] = low'[g] /\ h \in Reached(g)
      BY <1>2 DEF LowReached, Leaving
    <2>1. g \in Files
      BY <1>1, <1>8
    <2>2. CASE low'[g] = low[g]
      <3>1. PICK h \in ToSet(stack) : index[h] = low[g] /\ h \in Reached(g)
        BY <1>8 DEF SearchInv, LowReached
      <3>2. h \in Staying(f)
        <4>1. index[h] <= index[g]
          BY <1>6, <2>1, <3>1
        <4>2. low[f] = index[f] => index[g] < index[f]
          BY DEF Staying
        <4> QED
          BY <1>1, <1>7, <2>1, <4>1, <4>2
      <3> QED
        BY <2>2, <3>1, <3>2
    <2>3. CASE low'[g] # low[g]
      <3>1. n - 1 \in 1..(n - 1) /\ g = frames[n - 1].node /\ low'[g] = low[f] /\ low'[g] <= low[g]
        BY <2>1, <2>3 DEF Leaving
      <3>2. index[g] < index[f]
        BY <1>5, <3>1
      <3>3. low[f] < index[f]
        BY <1>1, <1>6, <2>1, <3>1, <3>2
      <3>4. PICK h \in ToSet(stack) : index[h] = low[f] /\ h \in Reached(f)
        BY <1>3, <1>4 DEF SearchInv, LowReached
      <3>5. f \in Reached(g)
        <4>1. f \in ToSet(stack) /\ n - 1 \in DOMAIN frames /\ index[g] <= index[f]
          BY <1>1, <1>3, <1>4, <2>1, <3>1, <3>2
        <4> QED
          BY <3>1, <4>1 DEF SearchInv, PathReaches
      <3>6. h \in Staying(f) /\ h \in Reached(g)
        BY <1>1, <1>7, <2>1, <3>3, <3>4, <3>5, ReachTrans
      <3> QED
        BY <3>1, <3>4, <3>6
    <2> QED
      BY <2>2, <2>3
  <1>12. LowLowest'
    <2> SUFFICES ASSUME NEW k \in 1..(n - 1), NEW g \in Staying(f), Above(k, g)',
                        NEW c \in Seen(g) \cap Staying(f)
                 PROVE  low'[frames[k].node] <= index[c]
      BY LeaveSeen DEF LowLowest, Leaving
    <2>1. frames[k].node \in Files /\ c \in Files /\ g \in Files
      BY <1>1, <1>3, <1>4, <1>8
    <2>2. /\ index[frames[k].node] <= index[g]
          /\ \A l \in 1..(n - 1) : k < l => index[g] < index[frames[l].node]
      BY DEF Above, Leaving
    <2>3. \A j \in 1..n : Above(j, g) => low[frames[j].node] <= index[c]
      BY <1>3, <1>8 DEF SearchInv, LowLowest
    <2>4. low'[frames[k].node] <= low[frames[k].node]
      BY <2>1 DEF Leaving
    <2>5. CASE index[g] < index[f]
      <3>1. Above(k, g)
        <4>1. \A l \in DOMAIN frames : l \in 1..(n - 1) \/ l = n
          BY DEF Leaving
        <4> QED
          BY <1>4, <2>2, <2>5, <4>1 DEF Above
      <3>2. low[frames[k].node] <= index[c]
        BY <1>4, <2>3, <3>1
      <3> QED
        BY <1>1, <2>1, <2>4, <3>2
    <2>6. CASE ~(index[g] < index[f])
      <3>1. index[f] <= index[g]
        BY <1>1, <2>1, <2>6
      <3>2. Above(n, g)
        <4>1. \A l \in DOMAIN frames : ~(n < l)
          BY DEF Leaving
        <4> QED
          BY <1>4, <3>1, <4>1 DEF Above
      <3>3. low[f] <= index[c]
        BY <1>4, <2>3, <3>2
      <3>4. k = n - 1
        <4>1. k # n - 1 => n - 1 \in 1..(n - 1) /\ k < n - 1
          OBVIOUS
        <4>2. k # n - 1 => index[g] < index[frames[n - 1].node] /\ index[frames[n - 1].node] < index[f]
                           /\ frames[n - 1].node \in Files
          BY <1>1, <1>3, <1>4, <1>5, <2>2, <4>1
        <4> QED
          BY <1>1, <2>1, <3>1, <4>2
      <3>5. low'[frames[k].node] <= low[f]
        BY <3>4 DEF Leaving
      <3> QED
        BY <1>1, <2>1, <3>3, <3>5
    <2> QED
      BY <2>5, <2>6
  <1> QED
    BY <1>9, <1>10, <1>11, <1>12

-----------------------------------------------------------------------------
(* A component is emitted *)

\* The stack up to a file, and from it on.
LEMMA CutIs ==
  ASSUME Types, StackOK, NEW f \in ToSet(stack), NEW rest, rest = SubSeq(stack, 1, From(f) - 1)
  PROVE  /\ rest \in Seq(Files)
         /\ ToSet(rest) = {g \in ToSet(stack) : index[g] < index[f]}
         /\ Component(f) = {g \in ToSet(stack) : index[f] <= index[g]}
         /\ \A i \in DOMAIN rest : index[rest[i]] # 0
         /\ \A i, j \in DOMAIN rest : i < j => index[rest[i]] < index[rest[j]]
  <1>1. PICK m \in Nat : m = Len(stack) /\ DOMAIN stack = 1..m
    BY DEF Types
  <1>2. stack \in Seq(Files)
    BY DEF Types
  <1>3. PICK i \in 1..m : i = From(f) /\ stack[i] = f
    <2>1. \E i \in DOMAIN stack : stack[i] = f
      BY DEF ToSet
    <2> QED
      BY <1>1, <2>1 DEF From
  <1>4. i \in Nat \ {0} /\ i <= m /\ i - 1 \in Nat /\ i - 1 <= Len(stack) /\ m <= Len(stack)
    BY <1>1
  <1>5. /\ rest \in Seq(Files)
        /\ ToSet(rest) = {stack[j] : j \in 1..(i - 1)}
        /\ DOMAIN rest = 1..(i - 1)
        /\ \A j \in 1..(i - 1) : rest[j] = stack[j]
    <2>1. rest = SubSeq(stack, 1, i - 1) /\ 1 \in Nat \ {0}
      BY <1>3
    <2>2. /\ SubSeq(stack, 1, i - 1) \in Seq(Files)
          /\ ToSet(SubSeq(stack, 1, i - 1)) = {stack[j] : j \in 1..(i - 1)}
          /\ DOMAIN SubSeq(stack, 1, i - 1) = 1..((i - 1) - 1 + 1)
          /\ \A j \in 1..((i - 1) - 1 + 1) : SubSeq(stack, 1, i - 1)[j] = stack[1 + j - 1]
      BY <1>2, <1>4, <2>1, PartIs
    <2>3. (i - 1) - 1 + 1 = i - 1 /\ \A j \in 1..(i - 1) : 1 + j - 1 = j
      OBVIOUS
    <2> QED
      BY <2>1, <2>2, <2>3
  <1>6. Component(f) = {stack[j] : j \in i..m}
    <2>1. ToSet(SubSeq(stack, i, m)) = {stack[j] : j \in i..m}
      BY <1>2, <1>4, PartIs
    <2> QED
      BY <1>1, <1>3, <2>1 DEF Component
  <1>7. ToSet(stack) = {stack[j] : j \in 1..m}
    BY <1>1 DEF ToSet
  <1>8. \A j \in 1..m : index[stack[j]] \in Nat
    BY <1>1 DEF Types
  <1>9. \A j \in 1..(i - 1) : j \in 1..m /\ index[stack[j]] < index[f]
    BY <1>1, <1>3 DEF StackOK
  <1>10. \A j \in i..m : j \in 1..m /\ ~(index[stack[j]] < index[f]) /\ index[f] <= index[stack[j]]
    <2> SUFFICES ASSUME NEW j \in i..m
                 PROVE  j \in 1..m /\ ~(index[stack[j]] < index[f]) /\ index[f] <= index[stack[j]]
      OBVIOUS
    <2>1. j \in 1..m /\ (i = j \/ i < j)
      OBVIOUS
    <2>2. i < j => index[f] < index[stack[j]]
      BY <1>1, <1>3, <2>1 DEF StackOK
    <2>3. index[f] \in Nat /\ index[stack[j]] \in Nat
      BY <1>3, <1>8, <2>1
    <2> QED
      BY <1>3, <2>1, <2>2, <2>3
  <1>11. \A j \in 1..m : j \in 1..(i - 1) \/ j \in i..m
    BY <1>4
  <1>12. \A j \in 1..(i - 1) : ~(index[f] <= index[stack[j]])
    BY <1>3, <1>8, <1>9
  <1>13. ToSet(rest) = {g \in ToSet(stack) : index[g] < index[f]}
    BY <1>5, <1>7, <1>9, <1>10, <1>11
  <1>14. Component(f) = {g \in ToSet(stack) : index[f] <= index[g]}
    BY <1>6, <1>7, <1>10, <1>11, <1>12
  <1>15. \A j \in 1..(i - 1) : j \in DOMAIN stack
    BY <1>1, <1>9
  <1>16. /\ \A j \in 1..(i - 1) : index[rest[j]] # 0
         /\ \A j, k \in 1..(i - 1) : j < k => index[rest[j]] < index[rest[k]]
    BY <1>5, <1>15 DEF StackOK
  <1> QED
    BY <1>5, <1>13, <1>14, <1>16

\* The files that have a component.
Done == {g \in Files : index[g] # 0 /\ g \notin ToSet(stack)}
LEMMA DoneIs ==
  ASSUME SccsOK, LeavesFirst, Types
  PROVE  /\ \A g : g \in Done <=> \E i \in DOMAIN sccs : g \in sccs[i].files
         /\ Closed(Done)
         /\ \A i \in DOMAIN sccs : UNION {sccs[j].files : j \in 1..i} \subseteq Done
  <1>1. \A i \in DOMAIN sccs : sccs[i].files \subseteq Files
    BY SccIs DEF Types
  <1>2. \A g : g \in Done <=> \E i \in DOMAIN sccs : g \in sccs[i].files
    <2>1. \A g \in Files : g \in Done <=> \E i \in DOMAIN sccs : g \in sccs[i].files
      BY DEF SccsOK, Done, OnStack
    <2> QED
      BY <1>1, <2>1 DEF Done
  <1>3. \A i \in DOMAIN sccs : 1..i \subseteq DOMAIN sccs
    BY DEF Types
  <1>4. \A i \in DOMAIN sccs : UNION {sccs[j].files : j \in 1..i} \subseteq Done
    BY <1>2, <1>3
  <1>5. Closed(Done)
    BY <1>2, <1>4 DEF Closed, LeavesFirst
  <1> QED
    BY <1>2, <1>4, <1>5

\* What is on the stack from a file on that is its own lowlink: its imports are
\* in it or have a component, and its files import each other.
LEMMA ComponentIs ==
  ASSUME SearchInv, Types, NEW n \in Nat \ {0}, NEW f \in Files,
         DOMAIN frames = 1..n, frames[n].node = f, frames[n].children = {}, low[f] = index[f],
         NEW C, C = {g \in ToSet(stack) : index[f] <= index[g]}
  PROVE  /\ f \in C /\ C \subseteq Files /\ C \cap Done = {}
         /\ \A g \in C : Imported(g) \subseteq C \cup Done
         /\ \A g \in C : Mutual(g) = C
         /\ Cardinality(C) > 1 \/ f \in Imported(f) <=> \E g, h \in C : h \in Imported(g)
  <1>0. /\ index \in [Files -> Nat]
        /\ \A g \in ToSet(stack) : g \in Files /\ index[g] # 0
    BY OnStackIs DEF Types, SearchInv
  <1>1. \A k \in 1..n : frames[k].node \in ToSet(stack)
    BY DEF SearchInv, PathOK, OnStack
  <1>2. n \in 1..n /\ f \in ToSet(stack) /\ f \in C /\ C \subseteq Files /\ C \cap Done = {}
    BY <1>0, <1>1 DEF Done
  <1>3. \A k \in 1..n : k # n => index[frames[k].node] < index[f]
    BY DEF SearchInv, PathOK
  <1>4. \A k \in 1..n : frames[k].node \in C => k = n
    BY <1>0, <1>1, <1>3
  <1>5. ASSUME NEW g \in C
        PROVE  Imported(g) \subseteq C \cup Done
    <2> SUFFICES ASSUME NEW c \in Imported(g) PROVE c \in C \cup Done
      OBVIOUS
    <2>1. c \in Seen(g)
      BY <1>4 DEF Seen
    <2>2. c \in Files /\ index[c] # 0
      BY <1>0, <2>1, ImportedFiles DEF SearchInv, SeenOK
    <2>3. ASSUME c \in ToSet(stack)
          PROVE  c \in C
      <3>1. \A l \in DOMAIN frames : ~(n < l)
        OBVIOUS
      <3>2. Above(n, g)
        BY <3>1 DEF Above
      <3>3. low[f] <= index[c]
        BY <1>2, <2>1, <2>3, <3>2 DEF SearchInv, LowLowest
      <3> QED
        BY <2>3, <3>3
    <2> QED
      BY <2>2, <2>3 DEF Done
  <1>6. Closed(Done)
    BY DoneIs DEF SearchInv
  <1>7. Closed(C \cup Done)
    BY <1>5, <1>6 DEF Closed
  <1>8. C \cup Done \in SUBSET Files /\ Done \in SUBSET Files
    BY <1>2 DEF Done
  <1>9. ASSUME NEW x \in C
        PROVE  Mutual(x) = C
    <2>1. ASSUME NEW y \in Mutual(x)
          PROVE  y \in C
      <3>1. y \in Reached(x) /\ x \in Reached(y)
        BY DEF Mutual
      <3>2. y \in C \cup Done
        BY <1>7, <1>8, <3>1, ReachClosed
      <3>3. y \in Done => x \in Done
        BY <1>6, <1>8, <3>1, ReachClosed
      <3> QED
        BY <1>2, <3>2, <3>3
    <2>2. ASSUME NEW y \in C
          PROVE  y \in Reached(f) /\ f \in Reached(y)
      <3>1. y \in Reached(f)
        BY <1>2 DEF SearchInv, PathReaches
      <3>2. PICK k \in 1..n : frames[k].node \in Reached(y)
        BY DEF SearchInv, StackReaches
      <3>3. frames[k].node \in C \cup Done
        BY <1>7, <1>8, <3>2, ReachClosed
      <3>4. k = n
        BY <1>1, <1>4, <3>3 DEF Done
      <3> QED
        BY <3>1, <3>2, <3>4
    <2>3. ASSUME NEW y \in C
          PROVE  y \in Mutual(x)
      <3>1. y \in Reached(x)
        BY <1>2, <2>2, ReachTrans
      <3>2. x \in Reached(y)
        BY <1>2, <2>2, ReachTrans
      <3> QED
        BY <3>1, <3>2 DEF Mutual
    <2> QED
      BY <2>1, <2>3
  <1>10. IsFiniteSet(C)
    BY <1>2, FilesFinite, FS_Subset
  <1>11. Cardinality(C) \in Nat
    BY <1>10, FS_CardinalityType
  <1>12. ASSUME Cardinality(C) > 1
         PROVE  \E g, h \in C : h \in Imported(g)
    <2>1. C # {f}
      <3>1. Cardinality({f}) = 1
        BY FS_Singleton
      <3>2. ~(1 > 1)
        OBVIOUS
      <3> QED
        BY <1>12, <3>1, <3>2
    <2>2. PICK x \in C : x # f
      BY <1>2, <2>1
    <2>3. ASSUME \A g, h \in C : h \notin Imported(g)
          PROVE  FALSE
      <3>1. Closed({f} \cup Done)
        BY <1>2, <1>5, <1>6, <2>3 DEF Closed
      <3>2. x \in Reached(f)
        BY <1>2, <1>9 DEF Mutual
      <3>3. {f} \cup Done \in SUBSET Files
        BY <1>8
      <3>4. x \in {f} \cup Done
        BY <3>1, <3>2, <3>3, ReachClosed
      <3> QED
        BY <1>2, <2>2, <3>4
    <2> QED
      BY <2>3
  <1>13. ASSUME NEW g \in C, NEW h \in C, h \in Imported(g), ~(Cardinality(C) > 1)
         PROVE  f \in Imported(f)
    <2>1. Cardinality(C) # 0
      BY <1>2, <1>10, FS_EmptySet
    <2>2. Cardinality(C) = 1
      BY <1>11, <1>13, <2>1
    <2>3. \E x : C = {x}
      BY <1>10, <2>2, FS_Singleton
    <2>4. g = f /\ h = f
      BY <1>2, <2>3
    <2> QED
      BY <1>13, <2>4
  <1>14. Cardinality(C) > 1 \/ f \in Imported(f) <=> \E g, h \in C : h \in Imported(g)
    BY <1>2, <1>12, <1>13
  <1> QED
    BY <1>2, <1>5, <1>9, <1>14

\* A component that follows the others in the list.
LEMMA EmitIs ==
  ASSUME SccsOK, LeavesFirst, Types, UNCHANGED <<imports, index>>,
         NEW C \in SUBSET Files, C # {}, C \subseteq ToSet(stack),
         \A g \in ToSet(stack) : g \in Files /\ index[g] # 0,
         \A g \in C : Imported(g) \subseteq C \cup Done,
         \A g \in C : Mutual(g) = C,
         NEW b \in BOOLEAN, b <=> \E g, h \in C : h \in Imported(g),
         sccs' = Append(sccs, [files |-> C, isCycle |-> b]),
         ToSet(stack') = ToSet(stack) \ C
  PROVE  SccsOK' /\ LeavesFirst' /\ sccs' \in Seq(Found)
  <1> DEFINE x == [files |-> C, isCycle |-> b]
  <1>1. x \in Found /\ x.files = C /\ x.isCycle = b
    BY DEF Found
  <1>2. sccs' = Append(sccs, x)
    OBVIOUS
  <1> HIDE DEF x
  <1>3. PICK q \in Nat :
          /\ sccs' \in Seq(Found) /\ DOMAIN sccs = 1..q /\ DOMAIN sccs' = 1..(q + 1)
          /\ \A i \in 1..q : sccs'[i] = sccs[i]
          /\ sccs'[q + 1] = x
    <2>1. sccs \in Seq(Found)
      BY DEF Types
    <2>2. \E m \in Nat :
            /\ m = Len(sccs) /\ Append(sccs, x) \in Seq(Found) /\ Len(Append(sccs, x)) = m + 1
            /\ DOMAIN sccs = 1..m /\ DOMAIN Append(sccs, x) = 1..(m + 1)
            /\ \A i \in 1..m : Append(sccs, x)[i] = sccs[i]
            /\ Append(sccs, x)[m + 1] = x
      BY <1>1, <2>1, AppendIs
    <2> QED
      BY <1>2, <2>2
  <1>4. \A f : Imported(f)' = Imported(f) /\ Mutual(f)' = Mutual(f)
    BY ReachStays
  <1>5. \A i \in 1..q : sccs'[i].files = sccs[i].files /\ sccs'[i].isCycle = sccs[i].isCycle
    BY <1>3
  <1>6. sccs'[q + 1].files = C /\ sccs'[q + 1].isCycle = b
    BY <1>1, <1>3
  <1>7. /\ \A g : g \in Done <=> \E i \in 1..q : g \in sccs[i].files
        /\ \A i \in 1..q : UNION {sccs[j].files : j \in 1..i} \subseteq Done
    BY <1>3, DoneIs
  <1>8. \A i \in 1..(q + 1) : i \in 1..q \/ i = q + 1
    OBVIOUS
  <1>9. \A i \in 1..q : i \in 1..(q + 1) /\ q + 1 \in 1..(q + 1)
    OBVIOUS
  <1>10. C \cap Done = {} /\ C \subseteq Files
    BY DEF Done
  <1>11. \A g : (\E i \in 1..(q + 1) : g \in sccs'[i].files) <=> g \in C \/ g \in Done
    <2>1. q + 1 \in 1..(q + 1)
      OBVIOUS
    <2> QED
      BY <1>5, <1>6, <1>7, <1>8, <1>9, <2>1
  <1>12. ASSUME NEW g \in Files
         PROVE  index[g] # 0 <=> g \in ToSet(stack') \/ \E i \in 1..(q + 1) : g \in sccs'[i].files
    <2>1. g \in Done <=> index[g] # 0 /\ g \notin ToSet(stack)
      BY DEF Done
    <2> QED
      BY <1>11, <2>1
  <1>13. \A i \in 1..(q + 1) : \A g \in sccs'[i].files : g \notin ToSet(stack')
    BY <1>11 DEF Done
  <1>14. ASSUME NEW i \in 1..(q + 1), NEW j \in 1..(q + 1), NEW g \in sccs'[i].files,
                g \in sccs'[j].files
         PROVE  i = j
    <2>1. CASE i \in 1..q /\ j \in 1..q
      BY <1>3, <1>5, <1>14, <2>1 DEF SccsOK
    <2>2. CASE i \in 1..q /\ j = q + 1
      BY <1>5, <1>6, <1>7, <1>10, <1>14, <2>2
    <2>3. CASE i = q + 1 /\ j \in 1..q
      BY <1>5, <1>6, <1>7, <1>10, <1>14, <2>3
    <2>4. CASE i = q + 1 /\ j = q + 1
      BY <2>4
    <2> QED
      BY <1>8, <2>1, <2>2, <2>3, <2>4
  <1>15. ASSUME NEW i \in 1..(q + 1)
         PROVE  /\ sccs'[i].files # {}
                /\ \A f \in sccs'[i].files : sccs'[i].files = Mutual(f)
                /\ sccs'[i].isCycle <=> \E f, g \in sccs'[i].files : g \in Imported(f)
    <2>1. CASE i \in 1..q
      <3>1. /\ sccs[i].files # {}
            /\ \A f \in sccs[i].files : sccs[i].files = Mutual(f)
            /\ sccs[i].isCycle <=> \E f, g \in sccs[i].files : g \in Imported(f)
        BY <1>3, <2>1 DEF SccsOK
      <3> QED
        BY <1>5, <2>1, <3>1
    <2>2. CASE i = q + 1
      BY <1>6, <2>2
    <2> QED
      BY <1>8, <2>1, <2>2
  <1>16. ASSUME NEW i \in 1..(q + 1), NEW f \in sccs'[i].files, NEW g \in Imported(f)
         PROVE  \E j \in 1..i : g \in sccs'[j].files
    <2>1. CASE i \in 1..q
      <3>1. \E j \in 1..i : g \in sccs[j].files
        BY <1>3, <1>5, <2>1 DEF LeavesFirst
      <3>2. \A j \in 1..i : j \in 1..q
        BY <2>1
      <3> QED
        BY <1>5, <3>1, <3>2
    <2>2. CASE i = q + 1
      <3>1. g \in C \cup Done
        BY <1>6, <2>2
      <3>2. \E j \in 1..(q + 1) : g \in sccs'[j].files
        BY <1>11, <3>1
      <3> QED
        BY <2>2, <3>2
    <2> QED
      BY <1>8, <2>1, <2>2
  <1>17. SccsOK'
    <2>1. /\ \A f \in Files : index'[f] # 0 <=>
               f \in ToSet(stack') \/ \E i \in DOMAIN sccs' : f \in sccs'[i].files
          /\ \A i \in DOMAIN sccs' : \A f \in sccs'[i].files : f \notin ToSet(stack')
          /\ \A i, j \in DOMAIN sccs' : \A f \in sccs'[i].files : f \in sccs'[j].files => i = j
          /\ \A i \in DOMAIN sccs' : sccs'[i].files # {}
          /\ \A i \in DOMAIN sccs' : \A f \in sccs'[i].files : sccs'[i].files = Mutual(f)'
          /\ \A i \in DOMAIN sccs' :
               sccs'[i].isCycle <=> \E f, g \in sccs'[i].files : g \in Imported(f)'
      BY <1>3, <1>4, <1>12, <1>13, <1>14, <1>15
    <2> QED
      BY <2>1 DEF SccsOK, OnStack, Files
  <1>18. LeavesFirst'
    <2>1. \A i \in DOMAIN sccs' : \A f \in sccs'[i].files :
            Imported(f)' \subseteq UNION {sccs'[j].files : j \in 1..i}
      BY <1>3, <1>4, <1>16
    <2> QED
      BY <2>1 DEF LeavesFirst
  <1> QED
    BY <1>3, <1>17, <1>18

LEMMA LeaveKeeps ==
  ASSUME SearchInv, Types, Leave
  PROVE  SearchInv' /\ Types'
  <1>1. PICK n \in Nat \ {0}, f \in Files :
          /\ Leaving(f, n) /\ f = Top.node
          /\ low' \in [Files -> Nat] /\ frames' \in Seq(Frame)
    BY LeaveIs
  <1>2. /\ index \in [Files -> Nat] /\ low \in [Files -> Nat]
        /\ \A g \in ToSet(stack) : g \in Files /\ index[g] # 0
    BY OnStackIs DEF Types, SearchInv
  <1>3. /\ f \in ToSet(stack) /\ DOMAIN frames = 1..n
        /\ frames[n].node = f /\ frames[n].children = {}
    BY <1>1 DEF Leaving, SearchInv, PathOK, OnStack
  <1>4. UNCHANGED <<imports, pc, index>>
    BY <1>1 DEF Leaving
  <1>5. pc' # "tarjan" => Searched'
    BY <1>4 DEF Leave
  <1>6. ASSUME stack' \in Seq(Files), ToSet(stack') = Staying(f), StackOK', SccsOK', LeavesFirst',
               sccs' \in Seq(Found)
        PROVE  SearchInv' /\ Types'
    <2>1. Numbered' /\ PathOK' /\ SeenOK'
      BY <1>1, <1>6, LeaveOrder
    <2>2. PathReaches' /\ StackReaches' /\ LowReached' /\ LowLowest'
      BY <1>1, <1>6, LeaveReaches
    <2>3. Types'
      BY <1>1, <1>4, <1>6 DEF Types
    <2> QED
      BY <1>5, <1>6, <2>1, <2>2, <2>3 DEF SearchInv
  <1>7. CASE low[f] # index[f]
    <2>1. UNCHANGED <<sccs, stack>>
      BY <1>1, <1>7 DEF Leave
    <2>2. ToSet(stack') = Staying(f)
      BY <1>7, <2>1 DEF Staying
    <2>3. StackOK'
      BY <1>4, <2>1 DEF SearchInv, StackOK
    <2>4. SccsOK' /\ LeavesFirst'
      BY <1>2, <1>4, <2>1, SccsStay DEF SearchInv
    <2>5. stack' \in Seq(Files) /\ sccs' \in Seq(Found)
      BY <2>1 DEF Types
    <2> QED
      BY <1>6, <2>2, <2>3, <2>4, <2>5
  <1>8. CASE low[f] = index[f]
    <2>1. /\ stack' = SubSeq(stack, 1, From(f) - 1)
          /\ sccs' = Append(sccs, [files |-> Component(f), isCycle |-> IsCycle(f)])
      BY <1>1, <1>8 DEF Leave, Emit
    <2>2. PICK C : C = Component(f)
      OBVIOUS
    <2>3. PICK b : b = IsCycle(f)
      OBVIOUS
    <2>4. /\ stack' \in Seq(Files)
          /\ ToSet(stack') = {g \in ToSet(stack) : index[g] < index[f]}
          /\ Component(f) = {g \in ToSet(stack) : index[f] <= index[g]}
          /\ \A i \in DOMAIN stack' : index[stack'[i]] # 0
          /\ \A i, j \in DOMAIN stack' : i < j => index[stack'[i]] < index[stack'[j]]
      BY <1>3, <2>1, CutIs DEF SearchInv
    <2>5. C = {g \in ToSet(stack) : index[f] <= index[g]}
      BY <2>2, <2>4
    <2>6. /\ f \in C /\ C \subseteq Files /\ C \cap Done = {}
          /\ \A g \in C : Imported(g) \subseteq C \cup Done
          /\ \A g \in C : Mutual(g) = C
          /\ Cardinality(C) > 1 \/ f \in Imported(f) <=> \E g, h \in C : h \in Imported(g)
      BY <1>3, <1>8, <2>5, ComponentIs
    <2>7. b \in BOOLEAN /\ (b <=> \E g, h \in C : h \in Imported(g))
      BY <2>2, <2>3, <2>6 DEF IsCycle
    <2>8. ToSet(stack') = ToSet(stack) \ C
      <3>1. \A g \in ToSet(stack) : index[g] < index[f] <=> ~(index[f] <= index[g])
        BY <1>2
      <3> QED
        BY <2>4, <2>5, <3>1
    <2>9. ToSet(stack') = Staying(f)
      BY <1>8, <2>4 DEF Staying
    <2>10. StackOK'
      BY <1>4, <2>4 DEF StackOK
    <2>11. sccs' = Append(sccs, [files |-> C, isCycle |-> b])
      BY <2>1, <2>2, <2>3
    <2>12. C \in SUBSET Files /\ C # {} /\ C \subseteq ToSet(stack)
      BY <2>5, <2>6
    <2>13. SccsOK' /\ LeavesFirst' /\ sccs' \in Seq(Found)
      BY <1>2, <1>4, <2>6, <2>7, <2>8, <2>11, <2>12, EmitIs DEF SearchInv
    <2> QED
      BY <1>6, <2>4, <2>9, <2>10, <2>13
  <1> QED
    BY <1>7, <1>8

-----------------------------------------------------------------------------
(* The search as a whole *)

LEMMA SearchInit ==
  ASSUME Init
  PROVE  SearchInv /\ Types
  <1>1. /\ imports \in Inputs /\ pc = "tarjan"
        /\ \A f \in Files : index[f] = 0 /\ low[f] = 0
        /\ index = [f \in Files |-> 0] /\ low = [f \in Files |-> 0]
        /\ stack = <<>> /\ frames = <<>> /\ sccs = <<>>
    BY DEF Init
  <1>2. DOMAIN stack = {} /\ DOMAIN frames = {} /\ DOMAIN sccs = {} /\ ToSet(stack) = {}
    BY <1>1 DEF ToSet
  <1>3. Types
    <2>1. <<>> \in Seq(Files) /\ <<>> \in Seq(Frame) /\ <<>> \in Seq(Found)
      OBVIOUS
    <2> QED
      BY <1>1, <2>1 DEF Types
  <1>4. Numbered
    <2>1. Entered \in Nat
      BY EnteredIs
    <2> QED
      BY <1>1, <2>1 DEF Numbered
  <1>5. StackOK /\ PathOK /\ SeenOK /\ PathReaches /\ StackReaches /\ LowReached /\ LowLowest
    BY <1>1, <1>2 DEF StackOK, PathOK, SeenOK, PathReaches, StackReaches, LowReached, LowLowest
  <1>6. SccsOK /\ LeavesFirst
    BY <1>1, <1>2 DEF SccsOK, LeavesFirst, OnStack
  <1> QED
    BY <1>1, <1>3, <1>4, <1>5, <1>6 DEF SearchInv

LEMMA SearchEnds ==
  ASSUME SearchInv, Types, SearchDone
  PROVE  Searched
  <1>1. frames = <<>> /\ \A f \in Files : index[f] # 0
    BY DEF SearchDone
  <1>2. DOMAIN frames = {}
    BY <1>1
  <1>3. ToSet(stack) = {}
    BY <1>2 DEF SearchInv, StackReaches
  <1> QED
    BY <1>1, <1>3 DEF Searched, SearchInv, SccsOK, OnStack

LEMMA SearchNext ==
  ASSUME SearchInv, Types, [Next]_vars
  PROVE  SearchInv' /\ Types'
  <1>1. ASSUME UNCHANGED <<imports, search>>, pc' \in {"tarjan", "link", "done"},
               pc' = "tarjan" \/ Searched
        PROVE  SearchInv' /\ Types'
    <2>1. SearchInv'
      BY <1>1, SearchStays
    <2>2. Types'
      BY <1>1 DEF Types, search
    <2> QED
      BY <2>1, <2>2
  <1>2. pc \in {"tarjan", "link", "done"} /\ (pc # "tarjan" => Searched)
    BY DEF Types, SearchInv
  <1>3. CASE Root
    BY <1>3, RootKeeps
  <1>4. CASE Child
    <2>1. pc = "tarjan" /\ frames # <<>> /\ UNCHANGED <<imports, pc>>
      BY <1>4 DEF Child
    <2>2. PICK c \in Top.children : NewChild(c) \/ OldChild(c)
      BY <1>4 DEF Child
    <2>3. CASE NewChild(c)
      BY <2>1, <2>3, NewChildKeeps
    <2>4. CASE OldChild(c)
      BY <2>1, <2>4, OldChildKeeps
    <2> QED
      BY <2>2, <2>3, <2>4
  <1>5. CASE Leave
    BY <1>5, LeaveKeeps
  <1>6. CASE SearchDone
    <2>1. Searched
      BY <1>6, SearchEnds
    <2>2. UNCHANGED <<imports, search>> /\ pc' = "link"
      BY <1>6 DEF SearchDone
    <2> QED
      BY <1>1, <2>1, <2>2
  <1>7. CASE Pass
    <2>1. UNCHANGED <<imports, search>> /\ pc = "link" /\ pc' = pc
      BY <1>7 DEF Pass
    <2> QED
      BY <1>1, <1>2, <2>1
  <1>8. CASE GiveUp
    <2>1. UNCHANGED <<imports, search>> /\ pc = "link" /\ pc' = pc
      BY <1>8 DEF GiveUp
    <2> QED
      BY <1>1, <1>2, <2>1
  <1>9. CASE LinkDone
    <2>1. UNCHANGED <<imports, search>> /\ pc = "link" /\ pc' = "done"
      BY <1>9 DEF LinkDone
    <2> QED
      BY <1>1, <1>2, <2>1
  <1>10. CASE Returned \/ UNCHANGED vars
    <2>1. UNCHANGED <<imports, search>> /\ pc' = pc
      BY <1>10 DEF Returned, vars, search
    <2> QED
      BY <1>1, <1>2, <2>1
  <1> QED
    BY <1>3, <1>4, <1>5, <1>6, <1>7, <1>8, <1>9, <1>10 DEF Next

\* The components of the search are the classes of files that import each other.
LEMMA ExactIs ==
  ASSUME SearchInv, Types, Searched
  PROVE  /\ {sccs[i].files : i \in DOMAIN sccs} = {Mutual(f) : f \in Files}
         /\ \A i, j \in DOMAIN sccs : sccs[i].files = sccs[j].files => i = j
  <1>1. /\ \A i \in DOMAIN sccs : sccs[i].files # {}
        /\ \A i \in DOMAIN sccs : \A f \in sccs[i].files : sccs[i].files = Mutual(f)
        /\ \A i, j \in DOMAIN sccs : \A f \in sccs[i].files : f \in sccs[j].files => i = j
    BY DEF SearchInv, SccsOK
  <1>2. \A i \in DOMAIN sccs : sccs[i].files \subseteq Files
    BY SccIs DEF Types
  <1>3. ASSUME NEW i \in DOMAIN sccs
        PROVE  \E f \in Files : sccs[i].files = Mutual(f)
    BY <1>1, <1>2
  <1>4. ASSUME NEW f \in Files
        PROVE  \E i \in DOMAIN sccs : sccs[i].files = Mutual(f)
    BY <1>1 DEF Searched
  <1>5. ASSUME NEW i \in DOMAIN sccs, NEW j \in DOMAIN sccs, sccs[i].files = sccs[j].files
        PROVE  i = j
    BY <1>1, <1>5
  <1> QED
    BY <1>3, <1>4, <1>5

LEMMA FewSccs ==
  ASSUME SearchInv, Types
  PROVE  Len(sccs) \in Nat /\ DOMAIN sccs = 1..Len(sccs) /\ Len(sccs) <= N
  <1>1. PICK q \in Nat : q = Len(sccs) /\ DOMAIN sccs = 1..q
    BY DEF Types
  <1>2. \A i \in 1..q : sccs[i].files # {} /\ sccs[i].files \subseteq Files
    BY <1>1, SccIs DEF Types, SearchInv, SccsOK
  <1>3. \A i, j \in 1..q : \A f \in sccs[i].files : f \in sccs[j].files => i = j
    BY <1>1 DEF SearchInv, SccsOK
  <1> DEFINE m == [i \in 1..q |-> CHOOSE f \in Files : f \in sccs[i].files]
  <1>4. \A i \in 1..q : m[i] \in Files /\ m[i] \in sccs[i].files
    BY <1>2
  <1>5. m \in Injection(1..q, Files)
    BY <1>3, <1>4 DEF Injection, IsInjective
  <1>6. Cardinality(1..q) = q
    BY FS_Interval
  <1>7. Cardinality(1..q) <= Cardinality(Files)
    BY <1>5, FilesFinite, FS_Injection
  <1> QED
    BY <1>1, <1>6, <1>7, FilesFinite

-----------------------------------------------------------------------------
(* The invariant of the linking *)

(* What an import is in the end, and what a pass makes of it. *)
Answer(x) ==
  IF \/ x.kind = "dynamic"
     \/ x.target = Outside
     \/ x.target \in Files /\ (x.kind = "named" => x.exported)
  THEN "linked" ELSE "unresolved"
Tried(x) == IF Draft(x) = "none" THEN TryFinalize(x) ELSE Draft(x)

(* The imports of a file in the component that is linked at this place. *)
StatusOK(f, j) ==
  \A i \in DOMAIN imports[f] :
    LET x == imports[f][i]
    IN  final[f][i] = IF j < now THEN Answer(x)
                      ELSE IF j = now /\ passes.count # 0 THEN Tried(x) ELSE Draft(x)

LinkInv ==
  /\ now \in 1..(Len(sccs) + 1)
  /\ passes.count = 0 => passes.progressed
  /\ pc = "tarjan" =>
       /\ now = 1 /\ passes.count = 0
       /\ \A f \in Files : \A i \in DOMAIN imports[f] : final[f][i] = Draft(imports[f][i])
  /\ pc # "tarjan" => \A j \in DOMAIN sccs : \A f \in sccs[j].files : StatusOK(f, j)
  /\ pc = "done" => now = Len(sccs) + 1

Statuses == {"none", "linked", "unresolved"}
LinkTypes ==
  /\ passes.count \in Nat /\ passes.progressed \in BOOLEAN
  /\ \A f \in Files : final[f] \in [DOMAIN imports[f] -> Statuses]

LEMMA ImportIs ==
  ASSUME Types, NEW f \in Files, NEW i \in DOMAIN imports[f]
  PROVE  /\ imports[f][i] \in Import
         /\ imports[f][i].kind = "dynamic" => imports[f][i].target = Nowhere
  <1>1. imports \in Inputs /\ imports \in [Files -> Seq(Import)]
    BY InputAssumption DEF Types
  <1>2. imports[f] \in Seq(Import)
    BY <1>1
  <1>3. imports[f][i] \in Import
    BY <1>2
  <1> QED
    BY <1>1, <1>3, InputAssumption

LEMMA StatusTypes == \A x : Draft(x) \in Statuses /\ TryFinalize(x) \in Statuses
  BY DEF Draft, TryFinalize, Statuses

\* An import that no pass has linked cannot be linked, and the others have their
\* answer.
LEMMA TriedIs ==
  ASSUME NEW x \in Import, x.kind = "dynamic" => x.target = Nowhere
  PROVE  /\ Answer(x) = IF Tried(x) = "none" THEN "unresolved" ELSE Tried(x)
         /\ Tried(x) = IF Draft(x) = "none" THEN TryFinalize(x) ELSE Draft(x)
         /\ Tried(x) = "none" => TryFinalize(x) = "none"
  <1>1. x.kind \in Kinds /\ x.target \in Files \cup {Nowhere, Outside}
    BY DEF Import
  <1>2. Nowhere \notin Files /\ Outside \notin Files /\ Nowhere # Outside
    BY InputAssumption
  <1> QED
    BY <1>1, <1>2 DEF Answer, Tried, Draft, TryFinalize, Kinds

\* A component gets at least one pass.
LEMMA OnePass ==
  ASSUME Types, NEW S \in SUBSET Files
  PROVE  Capacity(S) \in Nat /\ 1 <= Capacity(S)
  <1>1. ASSUME NEW f \in S
        PROVE  IsFiniteSet({f} \X {i \in DOMAIN imports[f] : imports[f][i].target \in S})
    <2>1. PICK m \in Nat : DOMAIN imports[f] = 1..m
      <3>1. imports[f] \in Seq(Import)
        BY InputAssumption DEF Types
      <3> QED
        BY <3>1
    <2>2. IsFiniteSet(1..m)
      BY FS_Interval
    <2>3. IsFiniteSet({i \in 1..m : imports[f][i].target \in S})
      BY <2>2, FS_Subset
    <2>4. IsFiniteSet({f})
      BY FS_Singleton
    <2> QED
      BY <2>1, <2>3, <2>4, FS_Product
  <1> DEFINE Of(f) == {f} \X {i \in DOMAIN imports[f] : imports[f][i].target \in S}
  <1>2. IsFiniteSet(S)
    BY FilesFinite, FS_Subset
  <1>3. IsFiniteSet({Of(f) : f \in S})
    <2> DEFINE m == [f \in S |-> Of(f)]
    <2>1. m \in Surjection(S, {Of(f) : f \in S})
      BY DEF Surjection
    <2> QED
      BY <1>2, <2>1, FS_Surjection
  <1>4. \A T \in {Of(f) : f \in S} : IsFiniteSet(T)
    BY <1>1
  <1>5. IsFiniteSet(UNION {Of(f) : f \in S})
    BY <1>3, <1>4, FS_UNION
  <1>6. Within(S) = UNION {Of(f) : f \in S}
    BY DEF Within
  <1>7. Cardinality(Within(S)) \in Nat
    BY <1>5, <1>6, FS_CardinalityType
  <1>8. PICK c \in Nat : c = Cardinality(Within(S))
    BY <1>7
  <1>9. Max({c, 1}) \in {c, 1} /\ 1 <= Max({c, 1})
    BY MaxIs
  <1> QED
    BY <1>8, <1>9 DEF Capacity

\* The component that is linked, and its imports.
LEMMA SccNow ==
  ASSUME SearchInv, Types, LinkInv, now <= Len(sccs)
  PROVE  /\ now \in DOMAIN sccs /\ now \in Nat /\ Scc \subseteq Files
         /\ \A j \in DOMAIN sccs : j \in Nat
         /\ \A j \in DOMAIN sccs : \A f \in sccs[j].files : f \in Files /\ (f \in Scc <=> j = now)
  <1>1. Len(sccs) \in Nat /\ DOMAIN sccs = 1..Len(sccs)
    BY FewSccs
  <1>2. now \in DOMAIN sccs /\ now \in Nat
    BY <1>1 DEF LinkInv
  <1>3. \A j \in DOMAIN sccs : sccs[j].files \subseteq Files
    BY SccIs DEF Types
  <1>4. \A j \in DOMAIN sccs : \A f \in sccs[j].files : f \in Scc <=> j = now
    BY <1>2 DEF SearchInv, SccsOK, Scc
  <1> QED
    BY <1>1, <1>2, <1>3, <1>4 DEF Scc

LEMMA PassKeeps ==
  ASSUME SearchInv, Types, LinkInv, LinkTypes, Pass
  PROVE  LinkInv' /\ LinkTypes'
  <1>1. /\ pc = "link" /\ now <= Len(sccs) /\ UNCHANGED <<imports, pc, search, now>>
        /\ final' = Linked
        /\ passes' = [count |-> passes.count + 1, progressed |-> Linked # final]
    BY DEF Pass
  <1>2. /\ now \in DOMAIN sccs /\ now \in Nat /\ \A j \in DOMAIN sccs : j \in Nat
        /\ \A j \in DOMAIN sccs : \A f \in sccs[j].files : f \in Files /\ (f \in Scc <=> j = now)
    BY <1>1, SccNow
  <1>3. passes'.count \in Nat /\ passes'.count # 0 /\ passes'.progressed \in BOOLEAN
    <2>1. passes.count + 1 \in Nat /\ passes.count + 1 # 0
      BY DEF LinkTypes
    <2> QED
      BY <1>1, <2>1
  <1>4. \A f \in Files : \A i \in DOMAIN imports[f] :
          final'[f][i] = IF f \in Scc /\ final[f][i] = "none" THEN TryFinalize(imports[f][i])
                        ELSE final[f][i]
    BY <1>1 DEF Linked, Open
  <1>5. \A f \in Files : final'[f] \in [DOMAIN imports[f] -> Statuses]
    <2> SUFFICES ASSUME NEW f \in Files PROVE final'[f] \in [DOMAIN imports[f] -> Statuses]
      OBVIOUS
    <2>1. final[f] \in [DOMAIN imports[f] -> Statuses]
      BY DEF LinkTypes
    <2>2. final'[f] = [i \in DOMAIN imports[f] |->
                         IF Open(f, i) THEN TryFinalize(imports[f][i]) ELSE final[f][i]]
      BY <1>1 DEF Linked
    <2> QED
      BY <2>1, <2>2, StatusTypes
  <1>6. ASSUME NEW j \in DOMAIN sccs, NEW f \in sccs[j].files, NEW i \in DOMAIN imports[f], NEW x,
               x = imports[f][i]
        PROVE  final'[f][i] = IF j < now THEN Answer(x)
                              ELSE IF j = now THEN Tried(x) ELSE Draft(x)
    <2>1. f \in Files /\ (f \in Scc <=> j = now)
      BY <1>2
    <2>2. final[f][i] = IF j < now THEN Answer(x)
                        ELSE IF j = now /\ passes.count # 0 THEN Tried(x) ELSE Draft(x)
      BY <1>1, <1>6 DEF LinkInv, StatusOK
    <2>3. /\ Tried(x) = IF Draft(x) = "none" THEN TryFinalize(x) ELSE Draft(x)
          /\ Tried(x) = "none" => TryFinalize(x) = "none"
      BY <1>6, <2>1, ImportIs, TriedIs
    <2>4. final'[f][i] = IF j = now /\ final[f][i] = "none" THEN TryFinalize(x) ELSE final[f][i]
      BY <1>4, <1>6, <2>1
    <2>5. CASE j = now
      <3>1. ~(j < now)
        BY <1>2, <2>5
      <3> QED
        BY <2>2, <2>3, <2>4, <2>5, <3>1
    <2>6. CASE j # now
      BY <2>2, <2>4, <2>6
    <2> QED
      BY <2>5, <2>6
  <1>7. \A j \in DOMAIN sccs : \A f \in sccs[j].files : \A i \in DOMAIN imports[f] :
          final'[f][i] = IF j < now THEN Answer(imports[f][i])
                         ELSE IF j = now THEN Tried(imports[f][i]) ELSE Draft(imports[f][i])
    BY <1>6
  <1>8. \A x : Answer(x)' = Answer(x) /\ Tried(x)' = Tried(x) /\ Draft(x)' = Draft(x)
    BY DEF Answer, Tried, Draft, TryFinalize, Files
  <1>9. /\ UNCHANGED <<imports, sccs, now, pc>>
        /\ now \in 1..(Len(sccs) + 1)
    BY <1>1 DEF search, LinkInv
  <1> QED
    BY <1>1, <1>3, <1>5, <1>7, <1>9
       DEF LinkInv, LinkTypes, StatusOK, Answer, Tried, Draft, TryFinalize, Files, Statuses

LEMMA GiveUpKeeps ==
  ASSUME SearchInv, Types, LinkInv, LinkTypes, GiveUp
  PROVE  LinkInv' /\ LinkTypes'
  <1>1. /\ pc = "link" /\ now <= Len(sccs) /\ UNCHANGED <<imports, pc, search>> /\ ~MorePasses
        /\ now' = now + 1 /\ passes' = [count |-> 0, progressed |-> TRUE]
        /\ final' = [f \in Files |-> [i \in DOMAIN imports[f] |->
                       IF Open(f, i) THEN "unresolved" ELSE final[f][i]]]
    BY DEF GiveUp
  <1>2. /\ now \in DOMAIN sccs /\ now \in Nat /\ Scc \subseteq Files
        /\ \A j \in DOMAIN sccs : j \in Nat
        /\ \A j \in DOMAIN sccs : \A f \in sccs[j].files : f \in Files /\ (f \in Scc <=> j = now)
    BY <1>1, SccNow
  <1>3. passes.count # 0
    <2>1. PICK m \in Nat : m = Capacity(Scc) /\ 1 <= m
      BY <1>2, OnePass
    <2>2. PICK k \in Nat : k = passes.count
      BY DEF LinkTypes
    <2>3. k = 0 => k < m
      BY <2>1, <2>2
    <2> QED
      BY <1>1, <2>1, <2>2, <2>3 DEF LinkInv, MorePasses
  <1>4. \A f \in Files : \A i \in DOMAIN imports[f] :
          final'[f][i] = IF f \in Scc /\ final[f][i] = "none" THEN "unresolved" ELSE final[f][i]
    BY <1>1 DEF Open
  <1>5. \A f \in Files : final'[f] \in [DOMAIN imports[f] -> Statuses]
    <2> SUFFICES ASSUME NEW f \in Files PROVE final'[f] \in [DOMAIN imports[f] -> Statuses]
      OBVIOUS
    <2>1. final[f] \in [DOMAIN imports[f] -> Statuses]
      BY DEF LinkTypes
    <2>2. final'[f] = [i \in DOMAIN imports[f] |->
                         IF Open(f, i) THEN "unresolved" ELSE final[f][i]]
      BY <1>1
    <2> QED
      BY <2>1, <2>2 DEF Statuses
  <1>6. ASSUME NEW j \in DOMAIN sccs, NEW f \in sccs[j].files, NEW i \in DOMAIN imports[f], NEW x,
               x = imports[f][i]
        PROVE  final'[f][i] = IF j < now + 1 THEN Answer(x) ELSE Draft(x)
    <2>1. f \in Files /\ (f \in Scc <=> j = now) /\ j \in Nat /\ now \in Nat
      BY <1>2
    <2>2. final[f][i] = IF j < now THEN Answer(x) ELSE IF j = now THEN Tried(x) ELSE Draft(x)
      BY <1>1, <1>3, <1>6 DEF LinkInv, StatusOK
    <2>3. Answer(x) = IF Tried(x) = "none" THEN "unresolved" ELSE Tried(x)
      BY <1>6, <2>1, ImportIs, TriedIs
    <2>4. final'[f][i] = IF j = now /\ final[f][i] = "none" THEN "unresolved" ELSE final[f][i]
      BY <1>4, <1>6, <2>1
    <2>5. CASE j = now
      <3>1. j < now + 1 /\ ~(j < now)
        BY <2>1, <2>5
      <3> QED
        BY <2>2, <2>3, <2>4, <2>5, <3>1
    <2>6. CASE j # now
      <3>1. j < now + 1 <=> j < now
        BY <2>1, <2>6
      <3> QED
        BY <2>2, <2>4, <2>6, <3>1
    <2> QED
      BY <2>5, <2>6
  <1>7. \A j \in DOMAIN sccs : \A f \in sccs[j].files : \A i \in DOMAIN imports[f] :
          final'[f][i] = IF j < now' THEN Answer(imports[f][i]) ELSE Draft(imports[f][i])
    BY <1>1, <1>6
  <1>8. /\ UNCHANGED <<imports, sccs, pc>> /\ pc = "link"
        /\ passes'.count = 0 /\ passes'.progressed = TRUE
    BY <1>1 DEF search
  <1>9. now' \in 1..(Len(sccs) + 1)
    <2>1. Len(sccs) \in Nat
      BY FewSccs
    <2> QED
      BY <1>1, <1>2, <2>1
  <1>10. LinkTypes'
    <2>1. passes'.count \in Nat
      BY <1>8
    <2>2. passes'.progressed \in BOOLEAN
      BY <1>8, Zenon
    <2> QED
      BY <1>5, <1>8, <2>1, <2>2 DEF LinkTypes, Files, Statuses
  <1>11. \A j \in DOMAIN sccs : \A f \in sccs[j].files : StatusOK(f, j)'
    BY <1>7, <1>8 DEF StatusOK, Answer, Tried, Draft, TryFinalize, Files
  <1>12. LinkInv'
    BY <1>8, <1>9, <1>11 DEF LinkInv
  <1> QED
    BY <1>10, <1>12

\* The search leaves the imports as they are.
LEMMA SearchLinks ==
  ASSUME Types, SearchInv, SearchInv', LinkInv, LinkTypes, pc = "tarjan", pc' = "tarjan",
         UNCHANGED <<imports, linking>>, Len(sccs') \in Nat
  PROVE  LinkInv' /\ LinkTypes'
  <1>1. now = 1 /\ passes.count = 0
    BY DEF LinkInv
  <1>2. now \in 1..(Len(sccs') + 1)
    BY <1>1
  <1>3. UNCHANGED <<imports, now, passes, final>>
    BY DEF linking
  <1>4. LinkInv'
    BY <1>1, <1>2, <1>3 DEF LinkInv, Draft, Files
  <1>5. LinkTypes'
    BY <1>3 DEF LinkTypes, Files, Statuses
  <1> QED
    BY <1>4, <1>5

LEMMA LinkNext ==
  ASSUME SearchInv, Types, SearchInv', Types', LinkInv, LinkTypes, [Next]_vars
  PROVE  LinkInv' /\ LinkTypes'
  <1>1. Len(sccs') \in Nat
    BY DEF Types
  <1>2. CASE Root \/ Child \/ Leave
    <2>1. pc = "tarjan" /\ pc' = pc /\ UNCHANGED <<imports, linking>>
      BY <1>2 DEF Root, Child, Leave
    <2> QED
      BY <1>1, <2>1, SearchLinks
  <1>3. CASE SearchDone
    <2>1. UNCHANGED <<imports, sccs, now, passes, final>> /\ pc = "tarjan" /\ pc' = "link"
      BY <1>3 DEF SearchDone, search, linking
    <2>2. /\ now = 1 /\ passes.count = 0 /\ passes.progressed
          /\ \A f \in Files : \A i \in DOMAIN imports[f] : final[f][i] = Draft(imports[f][i])
      BY <2>1 DEF LinkInv
    <2>3. ASSUME NEW j \in DOMAIN sccs, NEW f \in sccs[j].files
          PROVE  StatusOK(f, j)
      <3>1. f \in Files
        BY SccIs DEF Types
      <3>2. ~(j < now)
        <4>1. DOMAIN sccs = 1..Len(sccs) /\ Len(sccs) \in Nat
          BY FewSccs
        <4> QED
          BY <2>2, <4>1
      <3> QED
        BY <2>2, <3>1, <3>2 DEF StatusOK
    <2>4. now \in 1..(Len(sccs) + 1)
      BY DEF LinkInv
    <2> QED
      BY <2>1, <2>2, <2>3, <2>4 DEF LinkInv, LinkTypes, StatusOK, Draft, Answer, Tried, TryFinalize,
                                    Files, Statuses
  <1>4. CASE Pass
    BY <1>4, PassKeeps
  <1>5. CASE GiveUp
    BY <1>5, GiveUpKeeps
  <1>6. CASE LinkDone
    <2>1. /\ UNCHANGED <<imports, sccs, now, passes, final>> /\ pc = "link" /\ pc' = "done"
          /\ now > Len(sccs)
      BY <1>6 DEF LinkDone, search, linking
    <2>2. now = Len(sccs) + 1
      <3>1. Len(sccs) \in Nat
        BY FewSccs
      <3> QED
        BY <2>1, <3>1 DEF LinkInv
    <2> QED
      BY <2>1, <2>2 DEF LinkInv, LinkTypes, StatusOK, Draft, Answer, Tried, TryFinalize,
                        Files, Statuses
  <1>7. CASE Returned \/ UNCHANGED vars
    <2>1. UNCHANGED <<imports, pc, sccs, now, passes, final>>
      BY <1>7 DEF Returned, vars
    <2> QED
      BY <2>1 DEF LinkInv, LinkTypes, StatusOK, Draft, Answer, Tried, TryFinalize, Files, Statuses
  <1> QED
    BY <1>2, <1>3, <1>4, <1>5, <1>6, <1>7 DEF Next

LEMMA LinkInit ==
  ASSUME Init, Types
  PROVE  LinkInv /\ LinkTypes
  <1>1. /\ pc = "tarjan" /\ now = 1 /\ passes = [count |-> 0, progressed |-> TRUE]
        /\ final = [f \in Files |-> [i \in DOMAIN imports[f] |-> Draft(imports[f][i])]]
        /\ sccs = <<>>
    BY DEF Init
  <1>2. \A f \in Files : final[f] \in [DOMAIN imports[f] -> Statuses]
    <2> SUFFICES ASSUME NEW f \in Files PROVE final[f] \in [DOMAIN imports[f] -> Statuses]
      OBVIOUS
    <2>1. final[f] = [i \in DOMAIN imports[f] |-> Draft(imports[f][i])]
      BY <1>1
    <2> QED
      BY <2>1, StatusTypes
  <1>3. now \in 1..(Len(sccs) + 1)
    BY <1>1
  <1> QED
    BY <1>1, <1>2, <1>3 DEF LinkInv, LinkTypes

-----------------------------------------------------------------------------
(* Theorems *)

Inductive == SearchInv /\ Types /\ LinkInv /\ LinkTypes

LEMMA FinalizeInductive == Spec => []Inductive
  <1>1. Init => Inductive
    BY SearchInit, LinkInit DEF Inductive
  <1>2. Inductive /\ [Next]_vars => Inductive'
    <2> SUFFICES ASSUME Inductive, [Next]_vars PROVE Inductive'
      OBVIOUS
    <2>1. SearchInv' /\ Types'
      BY SearchNext DEF Inductive
    <2>2. LinkInv' /\ LinkTypes'
      BY <2>1, LinkNext DEF Inductive
    <2> QED
      BY <2>1, <2>2 DEF Inductive
  <1> QED
    BY <1>1, <1>2, PTL DEF Spec

(* The state of finalize has its type for any number of files: a lowlink is at
   most the number of its file, and there are no more components than files. *)
THEOREM FinalizeTypes == Spec => []TypeOK
  <1>1. ASSUME Inductive
        PROVE  TypeOK
    <2>1. imports \in [Files -> Seq(Import)]
      BY <1>1, InputAssumption DEF Inductive, Types
    <2>2. \A f \in Files : index[f] \in 0..N /\ low[f] \in 0..N /\ low[f] <= index[f]
                          /\ (index[f] # 0 => low[f] # 0)
      <3> SUFFICES ASSUME NEW f \in Files
                   PROVE  /\ index[f] \in 0..N /\ low[f] \in 0..N /\ low[f] <= index[f]
                          /\ (index[f] # 0 => low[f] # 0)
        OBVIOUS
      <3>1. index[f] <= Entered /\ low[f] <= index[f] /\ (index[f] # 0 => low[f] # 0)
        BY <1>1 DEF Inductive, SearchInv, Numbered
      <3>2. Entered \in Nat /\ Entered <= N /\ N \in Nat
        BY EnteredIs, InputAssumption
      <3>3. index[f] \in Nat /\ low[f] \in Nat
        BY <1>1 DEF Inductive, Types
      <3> QED
        BY <3>1, <3>2, <3>3
    <2>3. index \in [Files -> 0..N] /\ low \in [Files -> 0..N]
      BY <1>1, <2>2 DEF Inductive, Types
    <2>4. now \in 1..(N + 1)
      <3>1. Len(sccs) \in Nat /\ Len(sccs) <= N /\ N \in Nat
        BY <1>1, FewSccs, InputAssumption DEF Inductive
      <3>2. now \in 1..(Len(sccs) + 1)
        BY <1>1 DEF Inductive, LinkInv
      <3> QED
        BY <3>1, <3>2
    <2>5. passes.count \in Nat /\ passes.progressed \in BOOLEAN
      BY <1>1 DEF Inductive, LinkTypes
    <2>6. \A f \in Files : final[f] \in [DOMAIN imports[f] -> {"none", "linked", "unresolved"}]
      BY <1>1 DEF Inductive, LinkTypes, Statuses
    <2>7. /\ pc \in {"tarjan", "link", "done"} /\ stack \in Seq(Files)
          /\ frames \in Seq([node : Files, children : SUBSET Files])
          /\ sccs \in Seq([files : SUBSET Files, isCycle : BOOLEAN])
      BY <1>1 DEF Inductive, Types, Frame, Found
    <2> QED
      BY <2>1, <2>2, <2>3, <2>4, <2>5, <2>6, <2>7 DEF TypeOK
  <1> QED
    BY <1>1, FinalizeInductive, PTL

(* tarjanSccs finds the classes of files that import each other, directly or
   through others: all of them, each once, and it tells a cycle from a single
   file. *)
THEOREM SearchIsExact == Spec => []SccsExact
  <1>1. ASSUME Inductive
        PROVE  SccsExact
    <2> SUFFICES ASSUME pc = "link"
                 PROVE  /\ {sccs[i].files : i \in DOMAIN sccs} = {Mutual(f) : f \in Files}
                        /\ \A i, j \in DOMAIN sccs : sccs[i].files = sccs[j].files => i = j
                        /\ \A i \in DOMAIN sccs :
                             sccs[i].isCycle <=> \E f, g \in sccs[i].files : g \in Imported(f)
      BY DEF SccsExact
    <2>1. SearchInv /\ Types /\ Searched
      BY <1>1 DEF Inductive, SearchInv
    <2>2. \A i \in DOMAIN sccs :
            sccs[i].isCycle <=> \E f, g \in sccs[i].files : g \in Imported(f)
      BY <2>1 DEF SearchInv, SccsOK
    <2> QED
      BY <2>1, <2>2, ExactIs
  <1> QED
    BY <1>1, FinalizeInductive, PTL

(* At every point of the search, what a component imports is in it or in one
   that was found before: the targets of the imports that leave a component are
   finalized first. *)
THEOREM TargetsFirst == Spec => []LeavesFirst
  <1>1. Inductive => LeavesFirst
    BY DEF Inductive, SearchInv
  <1> QED
    BY <1>1, FinalizeInductive, PTL

(* When finalize has returned every import has its answer: the cap on the passes
   leaves none unresolved that could be linked. *)
THEOREM LinkingIsExact == Spec => []LinkExact
  <1>1. ASSUME Inductive
        PROVE  LinkExact
    <2> SUFFICES ASSUME pc = "done", NEW f \in Files, NEW i \in DOMAIN imports[f]
                 PROVE  final[f][i] = Answer(imports[f][i])
      BY DEF LinkExact, Answer
    <2>1. Searched /\ now = Len(sccs) + 1
      BY <1>1 DEF Inductive, SearchInv, LinkInv
    <2>2. PICK j \in DOMAIN sccs : f \in sccs[j].files
      BY <2>1 DEF Searched
    <2>3. StatusOK(f, j)
      BY <1>1, <2>2 DEF Inductive, LinkInv
    <2>4. j < now
      <3>1. Len(sccs) \in Nat /\ DOMAIN sccs = 1..Len(sccs)
        BY <1>1, FewSccs DEF Inductive
      <3> QED
        BY <2>1, <3>1
    <2> QED
      BY <2>3, <2>4 DEF StatusOK
  <1> QED
    BY <1>1, FinalizeInductive, PTL

=============================================================================
