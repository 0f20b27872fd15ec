-------------------------- MODULE DiscussionTreeProofs --------------------------
(***************************************************************************)
(* Theorems about DiscussionTree, for any items, groups, topics and        *)
(* limits, and any number of rounds and operations.                        *)
(*                                                                         *)
(* The operators that follow a chain of parents are recursive functions.   *)
(* No induction is needed to reason about them: a tree without cycles is   *)
(* one in which every set of nodes has a member whose parent is outside    *)
(* (Acyclic), so the set of the nodes that lack a property is empty once   *)
(* each of its members has its parent in it.                               *)
(***************************************************************************)
EXTENDS DiscussionTree, FiniteSetTheorems, TLAPS

-----------------------------------------------------------------------------
(* Functions that follow p from a member of S until it reaches T.          *)

Chain(S, T, p, n) ==
    {m \in S : \A C \in SUBSET S :
                   n \in C /\ (\A x \in C : x \notin T => p[x] \in C) => m \in C}

LEMMA ChainAtEnd ==
  ASSUME NEW S, NEW T, NEW p, NEW n \in S, n \in T
  PROVE  Chain(S, T, p, n) = {n}
  <1>1. {n} \in SUBSET S /\ \A x \in {n} : x \notin T => p[x] \in {n}
    OBVIOUS
  <1> QED
    BY <1>1 DEF Chain

LEMMA ChainGoesOn ==
  ASSUME NEW S, NEW T, NEW p, \A x \in S \ T : p[x] \in S, NEW n \in S \ T
  PROVE  Chain(S, T, p, n) = {n} \cup Chain(S, T, p, p[n])
  <1> DEFINE Closed(C) == \A x \in C : x \notin T => p[x] \in C
             Up == Chain(S, T, p, p[n])
  <1>1. p[n] \in Up
    BY DEF Chain
  <1>2. Closed(Up)
    BY DEF Chain
  <1>3. {n} \cup Up \in SUBSET S /\ Closed({n} \cup Up)
    BY <1>1, <1>2 DEF Chain
  <1>4. Chain(S, T, p, n) \subseteq {n} \cup Up
    <2> SUFFICES ASSUME NEW m \in Chain(S, T, p, n) PROVE m \in {n} \cup Up
      OBVIOUS
    <2> HIDE DEF Up
    <2> QED
      BY <1>3 DEF Chain
  <1>5. {n} \cup Up \subseteq Chain(S, T, p, n)
    <2>1. \A C \in SUBSET S : n \in C /\ Closed(C) => p[n] \in C
      OBVIOUS
    <2> QED
      BY <2>1 DEF Chain
  <1> QED
    BY <1>4, <1>5

Follows(f, S, T, p, v) == f = [m \in S |-> IF m \in T THEN v[m] ELSE f[p[m]]]

\* Such a function exists, whatever p is: one value for all that never reach T.
LEMMA FollowExists ==
  ASSUME NEW S, NEW T, NEW p, NEW v, \A x \in S \ T : p[x] \in S
  PROVE  \E f : Follows(f, S, T, p, v)
  <1> DEFINE End(m) == Chain(S, T, p, m) \cap T
             f == [m \in S |-> v[CHOOSE x \in End(m) : TRUE]]
  <1>1. ASSUME NEW m \in S, m \in T PROVE f[m] = v[m]
    <2>1. End(m) = {m}
      BY <1>1, ChainAtEnd
    <2> QED
      BY <2>1
  <1>2. ASSUME NEW m \in S, m \notin T PROVE f[m] = f[p[m]]
    <2>1. End(m) = End(p[m])
      BY <1>2, ChainGoesOn
    <2>2. p[m] \in S
      BY <1>2
    <2> QED
      BY <2>1, <2>2
  <1>3. f = [m \in S |-> IF m \in T THEN v[m] ELSE f[p[m]]]
    <2> HIDE DEF End
    <2> DEFINE g == [m \in S |-> IF m \in T THEN v[m] ELSE f[p[m]]]
    <2>1. \A m \in S : f[m] = g[m]
      <3> HIDE DEF f
      <3> QED
        BY <1>1, <1>2
    <2>2. f = [m \in S |-> f[m]] /\ g = [m \in S |-> g[m]]
      OBVIOUS
    <2> HIDE DEF f, g
    <2>3. f = g
      BY <2>1, <2>2
    <2> QED
      BY <2>3 DEF g
  <1> QED
    BY <1>3 DEF Follows

\* Without cycles a member is not on the chain of its successor.
LEMMA ChainDoesNotReturn ==
  ASSUME NEW S, NEW T, NEW p, \A x \in S \ T : p[x] \in S, NEW n \in S \ T,
         \A C \in SUBSET (S \ T) : C # {} => \E x \in C : p[x] \notin C
  PROVE  n \notin Chain(S, T, p, p[n])
  <1> SUFFICES ASSUME n \in Chain(S, T, p, p[n]) PROVE FALSE
    OBVIOUS
  <1> DEFINE Up(x) == Chain(S, T, p, x)
             C == {x \in S \ T : n \in Up(x)}
  <1>1. p[n] \in C
    <2>1. p[n] \in T => Up(p[n]) = {p[n]}
      BY ChainAtEnd
    <2> QED
      BY <2>1
  <1>2. ASSUME NEW x \in C PROVE p[x] \in C
    <2>1. Up(x) = {x} \cup Up(p[x])
      BY ChainGoesOn
    <2>2. CASE x = n
      BY <1>1, <2>2
    <2>3. CASE x # n
      <3>1. n \in Up(p[x]) /\ p[x] \in S
        BY <2>1, <2>3
      <3>2. p[x] \in T => Up(p[x]) = {p[x]}
        BY <3>1, ChainAtEnd
      <3> HIDE DEF Up
      <3> QED
        BY <3>1, <3>2
    <2> QED
      BY <2>2, <2>3
  <1>3. C \in SUBSET (S \ T)
    OBVIOUS
  <1> HIDE DEF C
  <1> QED
    BY <1>1, <1>2, <1>3

Counts(f, S, T, p, z) ==
    f = [m \in S |-> IF m = z THEN 0 ELSE IF m \in T THEN 1 ELSE 1 + f[p[m]]]

\* The function that counts the steps to T, one more for an end other than z.
LEMMA CountExists ==
  ASSUME NEW S, NEW T, NEW p, NEW z \in T, \A x \in S \ T : p[x] \in S, IsFiniteSet(S),
         \A C \in SUBSET (S \ T) : C # {} => \E x \in C : p[x] \notin C
  PROVE  \E f : Counts(f, S, T, p, z)
  <1> DEFINE Up(m) == Chain(S, T, p, m)
             f == [m \in S |-> Cardinality(Up(m) \ {z})]
             g == [m \in S |-> IF m = z THEN 0 ELSE IF m \in T THEN 1 ELSE 1 + f[p[m]]]
  <1>1. ASSUME NEW m \in S PROVE f[m] = g[m]
    <2>1. CASE m = z
      <3>1. Up(m) \ {z} = {}
        BY <2>1, ChainAtEnd
      <3> QED
        BY <2>1, <3>1, FS_EmptySet
    <2>2. CASE m \in T /\ m # z
      <3>1. Up(m) \ {z} = {m}
        BY <2>2, ChainAtEnd
      <3> QED
        BY <2>2, <3>1, FS_Singleton
    <2>3. CASE m \notin T
      <3>0. m \in S \ T /\ p[m] \in S
        BY <2>3
      <3>a. Up(m) = {m} \cup Up(p[m])
        BY <3>0, ChainGoesOn
      <3>b. m \notin Up(p[m])
        BY <3>0, ChainDoesNotReturn
      <3>1. Up(m) = {m} \cup Up(p[m]) /\ m \notin Up(p[m]) /\ p[m] \in S
        BY <3>0, <3>a, <3>b
      <3>2. Up(m) \ {z} = (Up(p[m]) \ {z}) \cup {m} /\ m \notin Up(p[m]) \ {z}
        BY <2>3, <3>1
      <3>3. IsFiniteSet(Up(p[m]) \ {z})
        <4>1. Up(p[m]) \ {z} \subseteq S
          BY DEF Chain
        <4> QED
          BY <4>1, FS_Subset
      <3>4. Cardinality(Up(m) \ {z}) = Cardinality(Up(p[m]) \ {z}) + 1
        <4> HIDE DEF Up
        <4> QED
          BY <3>2, <3>3, FS_AddElement
      <3>5. Cardinality(Up(p[m]) \ {z}) \in Nat
        BY <3>3, FS_CardinalityType
      <3>6. f[m] = 1 + f[p[m]]
        <4> HIDE DEF Up
        <4> QED
          BY <3>1, <3>4, <3>5
      <3> QED
        BY <2>3, <3>6
    <2> QED
      BY <2>1, <2>2, <2>3
  <1>2. f = [m \in S |-> f[m]] /\ g = [m \in S |-> g[m]]
    OBVIOUS
  <1>3. f = g
    <2> HIDE DEF f, g
    <2> QED
      BY <1>1, <1>2
  <1> QED
    BY <1>3 DEF Counts

-----------------------------------------------------------------------------
(* The recursive operators of the model, unfolded once.                    *)

Nodes == Items \cup Groups
Ends == Topics \cup {Nowhere}
Places == Nodes \cup Ends

LEMMA PlacesApart ==
  /\ Nowhere \notin Nodes /\ Nowhere \notin Topics /\ Nodes \cap Topics = {}
  /\ Items \cap Groups = {} /\ Unclassified \in Topics
  /\ Nodes \cap Ends = {} /\ Places \ Ends = Nodes
  BY TreeAssumption DEF TreeAssumption, Nodes, Ends, Places

LEMMA ParentsAreContainers ==
  ASSUME NEW t \in Tree, NEW n \in Nodes
  PROVE  /\ t.parent[n] \in Topics \cup Groups \cup {Nowhere}
         /\ t.parent[n] \in Places /\ t.parent[n] \notin Items
  <1>1. t.parent[n] \in Topics \cup Groups \cup {Nowhere}
    BY DEF Tree, Nodes
  <1> QED
    BY <1>1, PlacesApart DEF Places, Nodes, Ends

LEMMA TopicOfNext ==
  ASSUME NEW t \in Tree, NEW n \in Places
  PROVE  TopicOf(t, n) = IF n \in t.topics \cup {Nowhere} THEN n
                         ELSE IF n \in Topics THEN Nowhere ELSE TopicOf(t, t.parent[n])
  <1> DEFINE Is(f) == f = [m \in Items \cup Groups \cup Topics \cup {Nowhere} |->
                            IF m \in t.topics \cup {Nowhere} THEN m
                            ELSE IF m \in Topics THEN Nowhere ELSE f[t.parent[m]]]
             up == CHOOSE f : Is(f)
  <1>0. Items \cup Groups \cup Topics \cup {Nowhere} = Places
    BY DEF Places, Nodes, Ends
  <1>1. \E f : Is(f)
    <2> DEFINE v == [m \in Ends |-> IF m \in t.topics \cup {Nowhere} THEN m ELSE Nowhere]
               p == t.parent
    <2>1. \A x \in Places \ Ends : p[x] \in Places
      BY PlacesApart, ParentsAreContainers
    <2>2. t.topics \subseteq Topics
      BY DEF Tree
    <2> HIDE DEF v, p
    <2>3. PICK f : Follows(f, Places, Ends, p, v)
      BY <2>1, FollowExists
    <2>4. \A m \in Places :
             (IF m \in Ends THEN v[m] ELSE f[p[m]])
               = IF m \in t.topics \cup {Nowhere} THEN m
                 ELSE IF m \in Topics THEN Nowhere ELSE f[t.parent[m]]
      BY <2>2 DEF v, p, Ends
    <2>5. Is(f)
      BY <1>0, <2>3, <2>4 DEF Follows
    <2> QED
      BY <2>5
  <1>2. Is(up)
    <2> HIDE DEF Is
    <2> QED
      BY <1>1
  <1>3. \A m : TopicOf(t, m) = up[m]
    BY DEF TopicOf
  <1> HIDE DEF up
  <1> QED
    BY <1>0, <1>2, <1>3

\* No node is above itself: every set of nodes has one whose parent is outside.
Acyclic(t) == \A C \in SUBSET Nodes : C # {} => \E n \in C : t.parent[n] \notin C

LEMMA DepthNext ==
  ASSUME NEW t \in Tree, Acyclic(t), NEW n \in Places
  PROVE  Depth(t, n) = IF n = Nowhere THEN 0 ELSE IF n \in Topics THEN 1
                       ELSE 1 + Depth(t, t.parent[n])
  <1> DEFINE Is(f) == f = [m \in Items \cup Groups \cup Topics \cup {Nowhere} |->
                            IF m = Nowhere THEN 0 ELSE IF m \in Topics THEN 1
                            ELSE 1 + f[t.parent[m]]]
             down == CHOOSE f : Is(f)
  <1>0. Items \cup Groups \cup Topics \cup {Nowhere} = Places
    BY DEF Places, Nodes, Ends
  <1>1. \E f : Is(f)
    <2>0. Nowhere \in Ends
      BY DEF Ends
    <2>1. \A x \in Places \ Ends : t.parent[x] \in Places
      BY PlacesApart, ParentsAreContainers
    <2>2. IsFiniteSet(Places)
      <3>1. IsFiniteSet(Nodes \cup Topics) /\ Places = (Nodes \cup Topics) \cup {Nowhere}
        BY TreeAssumption DEF TreeAssumption, Nodes, Places, Ends
      <3> QED
        BY <3>1, FS_AddElement
    <2>3. \A C \in SUBSET (Places \ Ends) : C # {} => \E x \in C : t.parent[x] \notin C
      BY PlacesApart DEF Acyclic
    <2>4. PICK f : Counts(f, Places, Ends, t.parent, Nowhere)
      BY <2>0, <2>1, <2>2, <2>3, CountExists
    <2>5. \A m \in Places :
             (IF m = Nowhere THEN 0 ELSE IF m \in Ends THEN 1 ELSE 1 + f[t.parent[m]])
               = IF m = Nowhere THEN 0 ELSE IF m \in Topics THEN 1 ELSE 1 + f[t.parent[m]]
      BY DEF Ends
    <2>6. Is(f)
      BY <1>0, <2>4, <2>5 DEF Counts
    <2> QED
      BY <2>6
  <1>2. Is(down)
    <2> HIDE DEF Is
    <2> QED
      BY <1>1
  <1>3. \A m : Depth(t, m) = down[m]
    BY DEF Depth
  <1> HIDE DEF down
  <1> QED
    BY <1>0, <1>2, <1>3

\* The first of m and the containers above it that is a topic or is kept.
Upward(t, keep, m) ==
    LET up[k \in Items \cup Groups \cup Topics \cup {Nowhere}] ==
            IF k \in t.topics \cup keep THEN k
            ELSE IF k \in Topics \cup {Nowhere} THEN Unclassified ELSE up[t.parent[k]]
    IN  up[m]

LEMMA ClimbIsUpward ==
  ASSUME NEW t, NEW keep, NEW n PROVE Climb(t, keep, n) = Upward(t, keep, t.parent[n])
  BY DEF Climb, Upward

LEMMA UpwardNext ==
  ASSUME NEW t \in Tree, NEW keep \in SUBSET Groups, NEW n \in Places
  PROVE  Upward(t, keep, n) = IF n \in t.topics \cup keep THEN n
                              ELSE IF n \in Ends THEN Unclassified
                              ELSE Upward(t, keep, t.parent[n])
  <1> DEFINE Is(f) == f = [m \in Items \cup Groups \cup Topics \cup {Nowhere} |->
                            IF m \in t.topics \cup keep THEN m
                            ELSE IF m \in Topics \cup {Nowhere} THEN Unclassified
                            ELSE f[t.parent[m]]]
             up == CHOOSE f : Is(f)
  <1>0. Items \cup Groups \cup Topics \cup {Nowhere} = Places
    BY DEF Places, Nodes, Ends
  <1>1. \E f : Is(f)
    <2> DEFINE v == [m \in Places |-> IF m \in t.topics \cup keep THEN m ELSE Unclassified]
               p == t.parent
               T == Ends \cup keep
    <2>1. \A x \in Places \ T : p[x] \in Places
      BY PlacesApart, ParentsAreContainers
    <2>2. t.topics \subseteq Topics
      BY DEF Tree
    <2> HIDE DEF v, p, T
    <2>3. PICK f : Follows(f, Places, T, p, v)
      BY <2>1, FollowExists
    <2>4. \A m \in Places :
             (IF m \in T THEN v[m] ELSE f[p[m]])
               = IF m \in t.topics \cup keep THEN m
                 ELSE IF m \in Topics \cup {Nowhere} THEN Unclassified ELSE f[t.parent[m]]
      BY <2>2 DEF v, p, T, Ends
    <2>5. Is(f)
      BY <1>0, <2>3, <2>4 DEF Follows
    <2> QED
      BY <2>5
  <1>2. Is(up)
    <2> HIDE DEF Is
    <2> QED
      BY <1>1
  <1>3. \A m : Upward(t, keep, m) = up[m]
    BY DEF Upward
  <1> HIDE DEF up
  <1> QED
    BY <1>0, <1>2, <1>3 DEF Ends

\* m is below group g.
Under(t, g, m) ==
    LET under[k \in Items \cup Groups] ==
            t.parent[k] = g \/ (t.parent[k] \in t.groups /\ under[t.parent[k]])
    IN  under[m]

LEMMA BelowIsUnder ==
  ASSUME NEW t, NEW g PROVE Below(t, g) = {i \in Placed(t) : Under(t, g, i)}
  BY DEF Below, Under

LEMMA UnderNext ==
  ASSUME NEW t \in Tree, NEW g, NEW n \in Nodes
  PROVE  Under(t, g, n) <=> t.parent[n] = g \/ (t.parent[n] \in t.groups /\ Under(t, g, t.parent[n]))
  <1> DEFINE Is(f) == f = [k \in Items \cup Groups |->
                            t.parent[k] = g \/ (t.parent[k] \in t.groups /\ f[t.parent[k]])]
             under == CHOOSE f : Is(f)
  <1>0. Items \cup Groups = Nodes
    BY DEF Nodes
  <1>1. \E f : Is(f)
    <2> DEFINE v == [m \in Nodes |-> t.parent[m] = g]
               p == t.parent
               T == {m \in Nodes : p[m] = g \/ p[m] \notin t.groups}
    <2>1. \A x \in Nodes \ T : p[x] \in Nodes
      BY DEF Tree, Nodes
    <2> HIDE DEF v, p, T
    <2>2. PICK f : Follows(f, Nodes, T, p, v)
      BY <2>1, FollowExists
    <2> DEFINE h == [m \in Nodes |-> f[m] = TRUE]
    <2>3. ASSUME NEW m \in Nodes
          PROVE  h[m] = (t.parent[m] = g \/ (t.parent[m] \in t.groups /\ h[t.parent[m]]))
      <3>1. f[m] = IF m \in T THEN v[m] ELSE f[p[m]]
        BY <2>2 DEF Follows
      <3>2. CASE m \in T
        BY <3>1, <3>2 DEF T, v, p
      <3>3. CASE m \notin T
        <4>1. p[m] # g /\ p[m] \in t.groups /\ p[m] \in Nodes
          BY <2>1, <3>3 DEF T
        <4> QED
          BY <3>1, <3>3, <4>1 DEF p
      <3> QED
        BY <3>2, <3>3
    <2>4. Is(h)
      <3>1. h = [m \in Nodes |-> h[m]]
        OBVIOUS
      <3> HIDE DEF h
      <3> QED
        BY <1>0, <2>3, <3>1
    <2> QED
      BY <2>4
  <1>2. Is(under)
    <2> HIDE DEF Is
    <2> QED
      BY <1>1
  <1>3. \A m : Under(t, g, m) = under[m]
    BY DEF Under
  <1> HIDE DEF under
  <1> QED
    BY <1>0, <1>2, <1>3

-----------------------------------------------------------------------------
(* Trees that are sound: what every step keeps.                            *)

\* Every parent is in the tree, and the groups in the tree are those with a parent.
Rooted(t) ==
    /\ \A n \in Nodes : t.parent[n] \in t.topics \cup t.groups \cup {Nowhere}
    /\ \A g \in Groups : g \in t.groups <=> t.parent[g] # Nowhere

LEMMA RootedReaches ==
  ASSUME NEW t \in Tree, Acyclic(t), Rooted(t), NEW n \in Placed(t) \cup t.groups
  PROVE  TopicOf(t, n) \in t.topics
  <1> DEFINE Lost == {m \in Placed(t) \cup t.groups : TopicOf(t, m) \notin t.topics}
  <1>1. Lost \in SUBSET Nodes
    BY DEF Placed, Nodes, Tree
  <1>2. ASSUME NEW m \in Lost PROVE t.parent[m] \in Lost
    <2>1. m \in Nodes /\ t.parent[m] # Nowhere
      BY <1>2, PlacesApart DEF Placed, Nodes, Rooted, Tree
    <2>2. t.parent[m] \in t.topics \cup t.groups
      BY <2>1 DEF Rooted
    <2>3. TopicOf(t, m) = TopicOf(t, t.parent[m])
      <3>1. m \in Places /\ m \notin t.topics \cup {Nowhere} /\ m \notin Topics
        BY <2>1, PlacesApart DEF Places, Ends, Tree
      <3> QED
        BY <3>1, TopicOfNext
    <2>4. CASE t.parent[m] \in t.topics
      <3>1. t.parent[m] \in Places
        BY <2>1, ParentsAreContainers
      <3>2. TopicOf(t, t.parent[m]) = t.parent[m]
        BY <2>4, <3>1, TopicOfNext
      <3> QED
        BY <2>3, <2>4, <3>2
    <2>5. CASE t.parent[m] \in t.groups
      BY <2>3, <2>5
    <2> QED
      BY <2>2, <2>4, <2>5
  <1> HIDE DEF Lost
  <1>3. Lost = {}
    BY <1>1, <1>2 DEF Acyclic
  <1> QED
    BY <1>3 DEF Lost

-----------------------------------------------------------------------------
(* assembleTree.                                                           *)

LEMMA UpwardEnds ==
  ASSUME NEW t \in Tree, Acyclic(t), NEW keep \in SUBSET Groups, NEW n \in Places
  PROVE  Upward(t, keep, n) \in t.topics \cup keep \cup {Unclassified}
  <1> DEFINE Ok(m) == Upward(t, keep, m) \in t.topics \cup keep \cup {Unclassified}
             Bad == {m \in Nodes : ~Ok(m)}
  <1>1. \A m \in Ends : Ok(m)
    BY UpwardNext DEF Places
  <1>2. ASSUME NEW m \in Bad PROVE t.parent[m] \in Bad
    <2>1. m \in Places /\ m \notin Ends /\ t.parent[m] \in Places
      BY ParentsAreContainers, PlacesApart DEF Places
    <2>2. m \notin t.topics \cup keep /\ Upward(t, keep, m) = Upward(t, keep, t.parent[m])
      BY <2>1, UpwardNext
    <2> QED
      BY <1>1, <2>1, <2>2 DEF Places
  <1>3. Bad \in SUBSET Nodes
    OBVIOUS
  <1>4. Bad = {}
    <2> HIDE DEF Bad
    <2> QED
      BY <1>2, <1>3 DEF Acyclic
  <1> QED
    BY <1>1, <1>4 DEF Places

\* The fields of the tree a that is assembled from t.
IsAssembled(t, a) ==
    /\ a.groups \subseteq {g \in ValidGroups(t) : Below(t, g) # {}}
    /\ a.parent = [n \in Nodes |->
                     IF n \in Items \cup a.groups /\ t.parent[n] # Nowhere
                     THEN Upward(t, a.groups, t.parent[n]) ELSE Nowhere]
    /\ a.topics = (t.topics \ {Unclassified})
                     \cup {k \in {Unclassified} : \E n \in Items \cup a.groups : a.parent[n] = k}
    /\ a.dynamic = t.dynamic \cap a.topics
    /\ a.refs = [k \in Topics |-> IF k \in a.topics THEN t.refs[k] ELSE {}]
    /\ a.split = [k \in Topics |-> IF k \in a.topics THEN t.split[k] ELSE Nowhere]
    /\ a.dip \in [Groups -> 0..GraceVersions]
    /\ a = [topics |-> a.topics, groups |-> a.groups, dynamic |-> a.dynamic,
            parent |-> a.parent, refs |-> a.refs, split |-> a.split, dip |-> a.dip]

LEMMA Assembled ==
  ASSUME NEW t \in Tree, NEW age \in Nat
  PROVE  IsAssembled(t, Assemble(t, age))
  <1> DEFINE valid == ValidGroups(t)
             lone == {g \in valid : Cardinality(Below(t, g)) = 1}
             kept == {g \in valid : Below(t, g) # {}}
                       \ {g \in lone : t.dip[g] > 0 /\ t.dip[g] + age > GraceVersions}
             parent == [n \in Items \cup Groups |->
                          IF n \in Items \cup kept /\ t.parent[n] # Nowhere THEN Climb(t, kept, n)
                          ELSE Nowhere]
             rescued == {n \in Items \cup kept : parent[n] = Unclassified}
             topics == (t.topics \ {Unclassified})
                          \cup (IF rescued = {} THEN {} ELSE {Unclassified})
             dip == [g \in Groups |->
                       IF g \notin kept \cap lone THEN 0
                       ELSE IF t.dip[g] = 0 THEN 1 ELSE t.dip[g] + age]
             a == Assemble(t, age)
  <1>1. a = [topics |-> topics, groups |-> kept, dynamic |-> t.dynamic \cap topics,
             parent |-> parent,
             refs |-> [k \in Topics |-> IF k \in topics THEN t.refs[k] ELSE {}],
             split |-> [k \in Topics |-> IF k \in topics THEN t.split[k] ELSE Nowhere],
             dip |-> dip]
    <2>1. t = [topics |-> t.topics, groups |-> t.groups, dynamic |-> t.dynamic,
               parent |-> t.parent, refs |-> t.refs, split |-> t.split, dip |-> t.dip]
      BY DEF Tree
    <2>2. a = [t EXCEPT !.topics = topics, !.groups = kept, !.parent = parent,
                        !.dynamic = @ \cap topics,
                        !.refs = [k \in Topics |-> IF k \in topics THEN @[k] ELSE {}],
                        !.split = [k \in Topics |-> IF k \in topics THEN @[k] ELSE Nowhere],
                        !.dip = [g \in Groups |->
                                   IF g \notin kept \cap lone THEN 0
                                   ELSE IF @[g] = 0 THEN 1 ELSE @[g] + age]]
      BY DEF Assemble
    <2> HIDE DEF a, topics, kept, parent, lone
    <2>3. a = [t EXCEPT !.topics = topics, !.groups = kept, !.parent = parent,
                        !.dynamic = t.dynamic \cap topics,
                        !.refs = [k \in Topics |-> IF k \in topics THEN t.refs[k] ELSE {}],
                        !.split = [k \in Topics |-> IF k \in topics THEN t.split[k] ELSE Nowhere],
                        !.dip = dip]
      BY <2>1, <2>2
    <2> HIDE DEF dip
    <2> QED
      BY <2>1, <2>3
  <1>2. kept \subseteq {g \in valid : Below(t, g) # {}}
    OBVIOUS
  <1>3. parent = [n \in Nodes |-> IF n \in Items \cup kept /\ t.parent[n] # Nowhere
                                  THEN Upward(t, kept, t.parent[n]) ELSE Nowhere]
    BY ClimbIsUpward DEF Nodes
  <1>4. topics = (t.topics \ {Unclassified})
                    \cup {k \in {Unclassified} : \E n \in Items \cup kept : parent[n] = k}
    <2> HIDE DEF parent, kept
    <2> QED
      OBVIOUS
  <1>5. dip \in [Groups -> 0..GraceVersions]
    <2> SUFFICES ASSUME NEW g \in Groups PROVE dip[g] \in 0..GraceVersions
      OBVIOUS
    <2>1. t.dip[g] \in 0..GraceVersions /\ GraceVersions \in Nat \ {0}
      BY TreeAssumption DEF Tree, TreeAssumption
    <2>2. CASE g \in kept \cap lone
      <3>1. t.dip[g] = 0 \/ t.dip[g] + age <= GraceVersions
        BY <2>1, <2>2
      <3>2. dip[g] = IF t.dip[g] = 0 THEN 1 ELSE t.dip[g] + age
        BY <2>2
      <3> HIDE DEF dip
      <3> QED
        BY <2>1, <3>1, <3>2
    <2>3. CASE g \notin kept \cap lone
      <3>1. dip[g] = 0
        BY <2>3
      <3> QED
        BY <2>1, <3>1
    <2> QED
      BY <2>2, <2>3
  <1> HIDE DEF valid, lone, kept, parent, rescued, topics, dip, a
  <1>6. /\ a.topics = topics /\ a.groups = kept /\ a.dynamic = t.dynamic \cap topics
        /\ a.parent = parent /\ a.dip = dip
        /\ a.refs = [k \in Topics |-> IF k \in topics THEN t.refs[k] ELSE {}]
        /\ a.split = [k \in Topics |-> IF k \in topics THEN t.split[k] ELSE Nowhere]
    BY <1>1
  <1>7. a = [topics |-> a.topics, groups |-> a.groups, dynamic |-> a.dynamic,
             parent |-> a.parent, refs |-> a.refs, split |-> a.split, dip |-> a.dip]
    BY <1>1, <1>6
  <1> QED
    <2>1. valid = ValidGroups(t)
      BY DEF valid
    <2>2. a.parent = [n \in Nodes |->
                         IF n \in Items \cup a.groups /\ t.parent[n] # Nowhere
                         THEN Upward(t, a.groups, t.parent[n]) ELSE Nowhere]
      BY <1>3, <1>6
    <2>3. a.topics = (t.topics \ {Unclassified})
                       \cup {k \in {Unclassified} :
                               \E n \in Items \cup a.groups : a.parent[n] = k}
      BY <1>4, <1>6
    <2>4. /\ a.dynamic = t.dynamic \cap a.topics
          /\ a.refs = [k \in Topics |-> IF k \in a.topics THEN t.refs[k] ELSE {}]
          /\ a.split = [k \in Topics |-> IF k \in a.topics THEN t.split[k] ELSE Nowhere]
      BY <1>6
    <2>5. a.groups \subseteq {g \in ValidGroups(t) : Below(t, g) # {}}
      BY <1>2, <1>6, <2>1
    <2>6. a.dip \in [Groups -> 0..GraceVersions]
      BY <1>5, <1>6
    <2>7. IsAssembled(t, a)
      BY ONLY <1>7, <2>2, <2>3, <2>4, <2>5, <2>6, Zenon DEF IsAssembled
    <2> QED
      BY <2>7 DEF a

LEMMA AssembledSets ==
  ASSUME NEW t \in Tree, NEW a, IsAssembled(t, a)
  PROVE  /\ a.groups \in SUBSET Groups /\ a.groups \subseteq t.groups
         /\ a.topics \in SUBSET Topics
         /\ \A g \in a.groups : Depth(t, g) < HardMaxDepth /\ t.parent[g] # Nowhere
  <1>1. a.groups \subseteq t.groups /\ a.groups \in SUBSET Groups
    BY DEF IsAssembled, ValidGroups, Tree
  <1>2. a.topics \in SUBSET Topics
    BY PlacesApart DEF IsAssembled, Tree
  <1>3. ASSUME NEW g \in a.groups PROVE Depth(t, g) < HardMaxDepth /\ t.parent[g] # Nowhere
    <2>1. Depth(t, g) < HardMaxDepth /\ TopicOf(t, g) # Nowhere /\ g \in Groups
      BY <1>1 DEF IsAssembled, ValidGroups
    <2>2. g \in Places /\ g \notin Ends /\ g \notin t.topics \cup {Nowhere} /\ g \notin Topics
      BY <2>1, PlacesApart DEF Places, Nodes, Ends, Tree
    <2>3. TopicOf(t, g) = TopicOf(t, t.parent[g])
      BY <2>2, TopicOfNext
    <2>4. TopicOf(t, Nowhere) = Nowhere
      BY TopicOfNext DEF Places, Ends
    <2> QED
      BY <2>1, <2>3, <2>4
  <1> QED
    BY <1>1, <1>2, <1>3

\* Where a node of the assembled tree is.
LEMMA AssembledParent ==
  ASSUME NEW t \in Tree, Acyclic(t), NEW a, IsAssembled(t, a), NEW n \in Nodes
  PROVE  /\ n \in Items \cup a.groups /\ t.parent[n] # Nowhere =>
               /\ a.parent[n] = Upward(t, a.groups, t.parent[n])
               /\ a.parent[n] \in a.topics \cup a.groups
         /\ ~(n \in Items \cup a.groups /\ t.parent[n] # Nowhere) => a.parent[n] = Nowhere
  <1>1. CASE n \in Items \cup a.groups /\ t.parent[n] # Nowhere
    <2>1. a.parent[n] = Upward(t, a.groups, t.parent[n])
      BY <1>1 DEF IsAssembled
    <2>2. a.parent[n] \in t.topics \cup a.groups \cup {Unclassified}
      BY <2>1, AssembledSets, UpwardEnds, ParentsAreContainers
    <2>3. a.parent[n] # Unclassified /\ a.parent[n] \in t.topics => a.parent[n] \in a.topics
      BY DEF IsAssembled
    <2>4. a.parent[n] = Unclassified => a.parent[n] \in a.topics
      BY <1>1 DEF IsAssembled
    <2> QED
      BY <1>1, <2>1, <2>2, <2>3, <2>4
  <1>2. CASE ~(n \in Items \cup a.groups /\ t.parent[n] # Nowhere)
    BY <1>2 DEF IsAssembled
  <1> QED
    BY <1>1, <1>2

LEMMA AssembledIsTree ==
  ASSUME NEW t \in Tree, Acyclic(t), NEW a, IsAssembled(t, a)
  PROVE  a \in Tree
  <1>1. a.groups \in SUBSET Groups /\ a.topics \in SUBSET Topics
    BY AssembledSets
  <1>2. a.parent \in [Nodes -> Topics \cup Groups \cup {Nowhere}]
    <2>1. \A n \in Nodes : a.parent[n] \in Topics \cup Groups \cup {Nowhere}
      BY <1>1, AssembledParent
    <2>2. a.parent = [n \in Nodes |-> a.parent[n]]
      BY DEF IsAssembled
    <2> QED
      BY <2>1, <2>2
  <1>3. a.dynamic \in SUBSET Topics
    BY <1>1 DEF IsAssembled
  <1>4. a.refs \in [Topics -> SUBSET Agenda] /\ a.split \in [Topics -> Topics \cup {Nowhere}]
    BY DEF IsAssembled, Tree
  <1>5. a.dip \in [Groups -> 0..GraceVersions]
    BY DEF IsAssembled
  <1>6. a = [topics |-> a.topics, groups |-> a.groups, dynamic |-> a.dynamic,
             parent |-> a.parent, refs |-> a.refs, split |-> a.split, dip |-> a.dip]
    BY DEF IsAssembled
  <1> QED
    BY <1>1, <1>2, <1>3, <1>4, <1>5, <1>6 DEF Tree, Nodes

LEMMA AssembledRooted ==
  ASSUME NEW t \in Tree, Acyclic(t), NEW a, IsAssembled(t, a)
  PROVE  Rooted(a)
  <1>1. \A n \in Nodes : a.parent[n] \in a.topics \cup a.groups \cup {Nowhere}
    BY AssembledParent
  <1>2. ASSUME NEW g \in Groups PROVE g \in a.groups <=> a.parent[g] # Nowhere
    <2>1. g \in Nodes /\ g \notin Items
      BY PlacesApart DEF Nodes
    <2>2. Nowhere \notin a.topics \cup a.groups
      BY AssembledSets, PlacesApart DEF Nodes
    <2> QED
      BY <2>1, <2>2, AssembledParent, AssembledSets
  <1> QED
    BY <1>1, <1>2 DEF Rooted

(***************************************************************************)
(* Climbing makes no cycle: of a set of nodes that supports itself in the  *)
(* assembled tree, the nodes that climb into it support themselves in the  *)
(* old one.                                                                *)
(***************************************************************************)
LEMMA AssembledAcyclic ==
  ASSUME NEW t \in Tree, Acyclic(t), NEW a, IsAssembled(t, a)
  PROVE  Acyclic(a)
  <1> SUFFICES ASSUME NEW C \in SUBSET Nodes, C # {}, \A n \in C : a.parent[n] \in C
               PROVE  FALSE
    BY DEF Acyclic
  <1> DEFINE D == {m \in Nodes : Upward(t, a.groups, m) \in C}
  <1>0. \A m \in Ends : Upward(t, a.groups, m) \notin C
    <2> SUFFICES ASSUME NEW m \in Ends PROVE Upward(t, a.groups, m) \in Topics
      BY PlacesApart
    <2>1. m \notin a.groups /\ m \in Places
      BY AssembledSets, PlacesApart DEF Nodes, Places
    <2>2. Upward(t, a.groups, m) \in t.topics \cup {Unclassified}
      BY <2>1, AssembledSets, UpwardNext
    <2> QED
      BY <2>2, PlacesApart DEF Tree
  <1>1. ASSUME NEW n \in C PROVE t.parent[n] \in D
    <2>1. a.parent[n] # Nowhere
      BY PlacesApart
    <2>2. Upward(t, a.groups, t.parent[n]) \in C
      BY <2>1, AssembledParent
    <2>3. t.parent[n] \in Places
      BY ParentsAreContainers
    <2> QED
      BY <1>0, <2>2, <2>3 DEF Places
  <1>2. ASSUME NEW m \in D PROVE t.parent[m] \in D
    <2>1. m \in Places /\ m \notin t.topics /\ m \notin Ends
      BY PlacesApart DEF Places, Tree
    <2>2. CASE m \in a.groups
      <3>1. Upward(t, a.groups, m) = m
        BY <2>1, <2>2, AssembledSets, UpwardNext
      <3> QED
        BY <1>1, <3>1
    <2>3. CASE m \notin a.groups
      <3>1. Upward(t, a.groups, m) = Upward(t, a.groups, t.parent[m])
        BY <2>1, <2>3, AssembledSets, UpwardNext
      <3>2. t.parent[m] \in Places
        BY <2>1, ParentsAreContainers
      <3> QED
        BY <1>0, <3>1, <3>2 DEF Places
    <2> QED
      BY <2>2, <2>3
  <1>3. D \in SUBSET Nodes
    OBVIOUS
  <1>4. D # {}
    BY <1>1
  <1> HIDE DEF D
  <1> QED
    BY <1>2, <1>3, <1>4 DEF Acyclic

LEMMA DepthIsNat ==
  ASSUME NEW t \in Tree, Acyclic(t), NEW n \in Places
  PROVE  Depth(t, n) \in Nat /\ (n \in Topics => Depth(t, n) = 1)
  <1> DEFINE Bad == {m \in Nodes : Depth(t, m) \notin Nat}
  <1>1. \A m \in Ends : Depth(t, m) \in Nat /\ (m \in Topics => Depth(t, m) = 1)
    <2> SUFFICES ASSUME NEW m \in Ends
                 PROVE  Depth(t, m) \in Nat /\ (m \in Topics => Depth(t, m) = 1)
      OBVIOUS
    <2>1. Depth(t, m) = IF m = Nowhere THEN 0 ELSE 1
      BY DepthNext DEF Places, Ends
    <2> QED
      BY <2>1, PlacesApart
  <1>2. ASSUME NEW m \in Bad PROVE t.parent[m] \in Bad
    <2>1. m \in Places /\ m \notin Ends /\ t.parent[m] \in Places
      BY ParentsAreContainers, PlacesApart DEF Places
    <2>2. Depth(t, m) = 1 + Depth(t, t.parent[m])
      BY <2>1, DepthNext DEF Ends
    <2> QED
      BY <1>1, <2>1, <2>2 DEF Places
  <1>3. Bad \in SUBSET Nodes
    OBVIOUS
  <1>4. Bad = {}
    <2> HIDE DEF Bad
    <2> QED
      BY <1>2, <1>3 DEF Acyclic
  <1> QED
    BY <1>1, <1>4, PlacesApart DEF Places

LEMMA DepthOfNode ==
  ASSUME NEW t \in Tree, Acyclic(t), NEW n \in Nodes
  PROVE  Depth(t, n) = 1 + Depth(t, t.parent[n])
  <1>1. n \in Places /\ n \notin Topics /\ n # Nowhere
    BY PlacesApart DEF Places
  <1> QED
    BY <1>1, DepthNext

\* Climbing leads no deeper.
LEMMA UpwardIsNotDeeper ==
  ASSUME NEW t \in Tree, Acyclic(t), NEW keep \in SUBSET Groups, NEW n \in Places \ {Nowhere}
  PROVE  Depth(t, Upward(t, keep, n)) <= Depth(t, n)
  <1> DEFINE Ok(m) == Depth(t, Upward(t, keep, m)) <= Depth(t, m)
             Bad == {m \in Nodes : ~Ok(m)}
  <1>0. \A m \in Topics \cup {Nowhere} : Depth(t, Upward(t, keep, m)) = 1
    <2> SUFFICES ASSUME NEW m \in Topics \cup {Nowhere} PROVE Depth(t, Upward(t, keep, m)) = 1
      OBVIOUS
    <2>1. m \in Places /\ m \in Ends /\ m \notin keep
      BY PlacesApart DEF Places, Ends, Nodes
    <2>2. Upward(t, keep, m) \in Topics
      <3>1. Upward(t, keep, m) \in t.topics \cup {Unclassified}
        BY <2>1, UpwardNext
      <3> QED
        BY <3>1, PlacesApart DEF Tree
    <2>3. Upward(t, keep, m) \in Places
      BY <2>2 DEF Places, Ends
    <2> QED
      BY <2>2, <2>3, DepthIsNat
  <1>1. \A m \in Topics : Ok(m)
    <2> SUFFICES ASSUME NEW m \in Topics PROVE Ok(m)
      OBVIOUS
    <2>1. m \in Places
      BY DEF Places, Ends
    <2> QED
      BY <1>0, <2>1, DepthIsNat
  <1>2. ASSUME NEW m \in Bad PROVE t.parent[m] \in Bad
    <2>1. /\ m \in Places /\ m \notin Ends /\ m \notin t.topics
          /\ t.parent[m] \in Places
      BY ParentsAreContainers, PlacesApart DEF Places, Tree
    <2>2. Depth(t, m) = 1 + Depth(t, t.parent[m])
      BY DepthOfNode
    <2>3. Depth(t, m) \in Nat /\ Depth(t, t.parent[m]) \in Nat
      BY <2>1, DepthIsNat
    <2>4. m \notin keep
      <3> SUFFICES ASSUME m \in keep PROVE FALSE
        OBVIOUS
      <3>1. Upward(t, keep, m) = m
        BY <2>1, UpwardNext
      <3> QED
        BY <2>3, <3>1
    <2>5. Upward(t, keep, m) = Upward(t, keep, t.parent[m])
      BY <2>1, <2>4, UpwardNext
    <2>6. t.parent[m] \notin Topics \cup {Nowhere}
      <3> SUFFICES ASSUME t.parent[m] \in Topics \cup {Nowhere} PROVE FALSE
        OBVIOUS
      <3>1. Depth(t, Upward(t, keep, m)) = 1
        BY <1>0, <2>5
      <3> QED
        BY <2>2, <2>3, <3>1
    <2>7. t.parent[m] \in Nodes
      BY <2>1, <2>6 DEF Places, Ends
    <2>8. Upward(t, keep, m) \in Places
      <3>1. Upward(t, keep, m) \in t.topics \cup keep \cup {Unclassified}
        BY <2>1, UpwardEnds
      <3> QED
        BY <3>1, PlacesApart DEF Places, Nodes, Ends, Tree
    <2>9. Depth(t, Upward(t, keep, m)) \in Nat
      BY <2>8, DepthIsNat
    <2> QED
      BY <2>2, <2>3, <2>5, <2>7, <2>9
  <1>3. Bad \in SUBSET Nodes
    OBVIOUS
  <1>4. Bad = {}
    <2> HIDE DEF Bad
    <2> QED
      BY <1>2, <1>3 DEF Acyclic
  <1> QED
    BY <1>1, <1>4 DEF Places, Ends

\* A group that is kept is not deeper than it was.
LEMMA AssembledDepth ==
  ASSUME NEW t \in Tree, Acyclic(t), NEW a, IsAssembled(t, a), NEW g \in a.groups
  PROVE  Depth(a, g) < HardMaxDepth
  <1>0. a \in Tree /\ Acyclic(a)
    BY AssembledIsTree, AssembledAcyclic
  <1> DEFINE Deeper == {h \in a.groups : ~(Depth(a, h) <= Depth(t, h))}
  <1>1. ASSUME NEW h \in Deeper PROVE a.parent[h] \in Deeper
    <2>1. /\ h \in Nodes /\ h \in Places /\ t.parent[h] # Nowhere
          /\ t.parent[h] \in Places \ {Nowhere}
      BY AssembledSets, ParentsAreContainers DEF Nodes, Places
    <2>2. /\ a.parent[h] = Upward(t, a.groups, t.parent[h])
          /\ a.parent[h] \in a.topics \cup a.groups
      BY <2>1, AssembledParent
    <2>3. /\ Depth(a, h) = 1 + Depth(a, a.parent[h])
          /\ Depth(t, h) = 1 + Depth(t, t.parent[h])
      BY <1>0, <2>1, DepthOfNode
    <2>4. Depth(t, a.parent[h]) <= Depth(t, t.parent[h])
      BY <2>1, <2>2, AssembledSets, UpwardIsNotDeeper
    <2>5. a.parent[h] \in Places
      BY <2>2, AssembledSets DEF Places, Nodes, Ends
    <2>6. /\ Depth(t, a.parent[h]) \in Nat /\ Depth(a, a.parent[h]) \in Nat
          /\ Depth(t, t.parent[h]) \in Nat
          /\ a.parent[h] \in Topics => Depth(t, a.parent[h]) = 1 /\ Depth(a, a.parent[h]) = 1
      BY <1>0, <2>1, <2>5, DepthIsNat
    <2>7. ~(Depth(a, a.parent[h]) <= Depth(t, a.parent[h]))
      BY <2>3, <2>4, <2>6
    <2>8. a.parent[h] \notin a.topics
      BY <2>6, <2>7, AssembledSets
    <2> QED
      BY <2>2, <2>7, <2>8
  <1>2. Deeper \in SUBSET Nodes
    BY AssembledSets DEF Nodes
  <1>3. Deeper = {}
    <2> HIDE DEF Deeper
    <2> QED
      BY <1>0, <1>1, <1>2 DEF Acyclic
  <1>4. Depth(a, g) <= Depth(t, g) /\ Depth(t, g) < HardMaxDepth
    BY <1>3, AssembledSets
  <1>5. g \in Places
    BY AssembledSets DEF Places, Nodes
  <1>6. Depth(a, g) \in Nat /\ Depth(t, g) \in Nat /\ HardMaxDepth \in Nat
    BY <1>0, <1>5, DepthIsNat, TreeAssumption DEF TreeAssumption
  <1> QED
    BY <1>4, <1>6

\* From below a group that is kept nobody climbs past it.
LEMMA UpwardStaysBelow ==
  ASSUME NEW t \in Tree, Acyclic(t), NEW keep \in SUBSET t.groups, NEW g \in keep,
         NEW n \in t.groups, n = g \/ Under(t, g, n)
  PROVE  \/ Upward(t, keep, n) = g
         \/ Upward(t, keep, n) \in keep /\ Under(t, g, Upward(t, keep, n))
  <1> DEFINE Ok(m) == \/ Upward(t, keep, m) = g
                      \/ Upward(t, keep, m) \in keep /\ Under(t, g, Upward(t, keep, m))
             Bad == {m \in t.groups : Under(t, g, m) /\ ~Ok(m)}
  <1>0. keep \in SUBSET Groups /\ t.groups \subseteq Nodes /\ t.groups \subseteq Places
    BY DEF Tree, Nodes, Places
  <1>1. Ok(g)
    BY <1>0, UpwardNext
  <1>2. ASSUME NEW m \in Bad PROVE t.parent[m] \in Bad
    <2>1. m \in Places /\ m \notin t.topics /\ m \notin Ends
      BY <1>0, PlacesApart DEF Tree
    <2>2. m \notin keep
      BY <1>0, <2>1, UpwardNext
    <2>3. Upward(t, keep, m) = Upward(t, keep, t.parent[m])
      BY <1>0, <2>1, <2>2, UpwardNext
    <2>4. t.parent[m] = g \/ (t.parent[m] \in t.groups /\ Under(t, g, t.parent[m]))
      BY <1>0, UnderNext
    <2> QED
      BY <1>1, <2>3, <2>4
  <1>3. Bad \in SUBSET Nodes
    BY <1>0
  <1>4. Bad = {}
    <2> HIDE DEF Bad
    <2> QED
      BY <1>2, <1>3 DEF Acyclic
  <1> QED
    BY <1>1, <1>4

\* A group that is kept has a child: the topmost of what was below it.
LEMMA AssembledGroupsHold ==
  ASSUME NEW t \in Tree, Acyclic(t), NEW a, IsAssembled(t, a), NEW g \in a.groups
  PROVE  Children(a, g) # {}
  <1> SUFFICES ASSUME Children(a, g) = {} PROVE FALSE
    OBVIOUS
  <1>0. a \in Tree /\ Acyclic(a)
    BY AssembledIsTree, AssembledAcyclic
  <1> DEFINE C == {m \in Items \cup a.groups : t.parent[m] # Nowhere /\ Under(t, g, m)}
  <1>1. C # {}
    <2>1. PICK i \in Placed(t) : Under(t, g, i)
      BY BelowIsUnder DEF IsAssembled
    <2>2. i \in Items /\ t.parent[i] # Nowhere
      BY <2>1 DEF Placed
    <2> QED
      BY <2>1, <2>2
  <1>2. ASSUME NEW m \in C PROVE a.parent[m] \in C
    <2>1. m \in Nodes
      BY AssembledSets DEF Nodes
    <2>2. /\ a.parent[m] = Upward(t, a.groups, t.parent[m])
          /\ a.parent[m] \in a.topics \cup a.groups
      BY <2>1, AssembledParent
    <2>3. m \in Placed(a) \cup a.groups
      <3>1. a.parent[m] # Nowhere
        BY <2>2, AssembledSets, PlacesApart DEF Nodes
      <3> QED
        BY <3>1 DEF Placed
    <2>4. a.parent[m] # g
      BY <2>3 DEF Children
    <2>5. t.parent[m] = g \/ (t.parent[m] \in t.groups /\ Under(t, g, t.parent[m]))
      BY <2>1, UnderNext
    <2>6. g \in t.groups /\ a.groups \in SUBSET t.groups
      BY AssembledSets
    <2>7. a.parent[m] \in a.groups /\ Under(t, g, a.parent[m])
      <3>1. t.parent[m] \in t.groups /\ (t.parent[m] = g \/ Under(t, g, t.parent[m]))
        BY <2>5, <2>6
      <3>2. \/ Upward(t, a.groups, t.parent[m]) = g
            \/ /\ Upward(t, a.groups, t.parent[m]) \in a.groups
               /\ Under(t, g, Upward(t, a.groups, t.parent[m]))
        BY <2>6, <3>1, UpwardStaysBelow
      <3> QED
        BY <2>2, <2>4, <3>2
    <2> QED
      BY <2>7, AssembledSets
  <1>3. C \in SUBSET Nodes
    BY AssembledSets DEF Nodes
  <1> HIDE DEF C
  <1> QED
    BY <1>0, <1>1, <1>2, <1>3 DEF Acyclic

\* What assembleTree returns has the shape validateTreeIntegrity asks for.
LEMMA AssembledIsForest ==
  ASSUME NEW t \in Tree, Acyclic(t), NEW a, IsAssembled(t, a)
  PROVE  IsForest(a)
  <1>0. a \in Tree /\ Acyclic(a) /\ Rooted(a)
    BY AssembledIsTree, AssembledAcyclic, AssembledRooted
  <1>1. ASSUME NEW n \in Placed(a) \cup a.groups PROVE TopicOf(a, n) # Nowhere
    <2>1. TopicOf(a, n) \in Topics
      BY <1>0, RootedReaches, AssembledSets
    <2> QED
      BY <2>1, PlacesApart
  <1>2. ASSUME NEW n \in Placed(a) \cup a.groups PROVE Depth(a, n) <= HardMaxDepth
    <2>0. HardMaxDepth \in Nat /\ HardMaxDepth > 1
      BY TreeAssumption DEF TreeAssumption
    <2>1. n \in Nodes /\ n \in Places
      BY AssembledSets DEF Placed, Nodes, Places
    <2>2. Depth(a, n) \in Nat
      BY <1>0, <2>1, DepthIsNat
    <2>3. CASE n \in a.groups
      BY <2>0, <2>2, <2>3, AssembledDepth
    <2>4. CASE n \in Placed(a)
      <3>1. a.parent[n] \in a.topics \cup a.groups
        BY <1>0, <2>1, <2>4 DEF Placed, Rooted
      <3>2. Depth(a, n) = 1 + Depth(a, a.parent[n])
        BY <1>0, <2>1, DepthOfNode
      <3>3. a.parent[n] \in Places
        BY <3>1, AssembledSets DEF Places, Nodes, Ends
      <3>4. a.parent[n] \in a.topics => Depth(a, a.parent[n]) = 1
        BY <1>0, <3>3, AssembledSets, DepthIsNat
      <3>5. a.parent[n] \in a.groups => Depth(a, a.parent[n]) < HardMaxDepth
        BY AssembledDepth
      <3>6. Depth(a, a.parent[n]) \in Nat
        BY <1>0, <3>3, DepthIsNat
      <3> QED
        BY <2>0, <3>1, <3>2, <3>4, <3>5, <3>6
    <2> QED
      BY <2>3, <2>4
  <1>3. \A g \in a.groups : Children(a, g) # {}
    BY AssembledGroupsHold
  <1> QED
    BY <1>1, <1>2, <1>3 DEF IsForest

-----------------------------------------------------------------------------
(* The edits: moves, new topics and groups, merges.                        *)

\* Topics, agendas and splits: what a change of parents leaves alone.
SameTopics(t, u) ==
    u.topics = t.topics /\ u.dynamic = t.dynamic /\ u.refs = t.refs /\ u.split = t.split

(***************************************************************************)
(* Agenda belongs to topics of the tree that are not dynamic, and only     *)
(* topics with agenda come from a split.                                   *)
(***************************************************************************)
AgendaKept(t) ==
    /\ \A k \in Topics : k \in t.dynamic => t.refs[k] = {}
    /\ \A k \in Topics : t.refs[k] = {} => t.split[k] = Nowhere
    /\ \A k \in Topics : k \notin t.topics => t.refs[k] = {}

Sound(t) == Acyclic(t) /\ Rooted(t) /\ AgendaKept(t)

LEMMA SameTopicsKept ==
  ASSUME NEW t, NEW u, SameTopics(t, u)
  PROVE  /\ AgendaKept(t) => AgendaKept(u)
         /\ SharedBySplit(t) => SharedBySplit(u)
  BY DEF SameTopics, AgendaKept, SharedBySplit, Holders

\* Cycles are made of groups only.
LEMMA LoosenedAcyclic ==
  ASSUME NEW t \in Tree, NEW u \in Tree, Acyclic(t),
         \A g \in Groups : u.parent[g] = t.parent[g] \/ u.parent[g] \notin Groups
  PROVE  Acyclic(u)
  <1> SUFFICES ASSUME NEW C \in SUBSET Nodes, C # {}, \A n \in C : u.parent[n] \in C
               PROVE  FALSE
    BY DEF Acyclic
  <1> DEFINE D == C \cap Groups
  <1>1. \A n \in C : u.parent[n] \in D
    BY ParentsAreContainers DEF Nodes
  <1>2. \A n \in D : t.parent[n] \in D
    BY <1>1
  <1>3. D \in SUBSET Nodes /\ D # {}
    BY <1>1 DEF Nodes
  <1> HIDE DEF D
  <1> QED
    BY <1>2, <1>3 DEF Acyclic

\* The fields of the tree u in which the nodes S of t are moved to c.
IsMoved(t, S, c, u) ==
    /\ u \in Tree /\ SameTopics(t, u) /\ u.groups = t.groups
    /\ u.parent = [n \in Nodes |-> IF n \in S THEN c ELSE t.parent[n]]

LEMMA Moved ==
  ASSUME NEW t \in Tree, NEW S, NEW c \in Topics \cup Groups \cup {Nowhere}
  PROVE  IsMoved(t, S, c, Move(t, S, c))
  <1>1. Move(t, S, c) = [t EXCEPT !.parent = [n \in Nodes |-> IF n \in S THEN c ELSE t.parent[n]]]
    BY DEF Move, Nodes, Tree
  <1>2. [n \in Nodes |-> IF n \in S THEN c ELSE t.parent[n]]
          \in [Items \cup Groups -> Topics \cup Groups \cup {Nowhere}]
    BY DEF Tree, Nodes
  <1> QED
    BY <1>1, <1>2 DEF Tree, SameTopics, IsMoved

LEMMA ItemsMoved ==
  ASSUME NEW t \in Tree, Acyclic(t), NEW S \in SUBSET Items,
         NEW c \in Topics \cup Groups \cup {Nowhere}
  PROVE  Acyclic(Move(t, S, c))
  <1> DEFINE u == Move(t, S, c)
  <1>1. u \in Tree /\ u.parent = [n \in Nodes |-> IF n \in S THEN c ELSE t.parent[n]]
    BY Moved DEF IsMoved
  <1> HIDE DEF u
  <1>2. \A g \in Groups : u.parent[g] = t.parent[g]
    BY <1>1, PlacesApart DEF Nodes
  <1>3. Acyclic(u)
    BY <1>1, <1>2, LoosenedAcyclic
  <1> QED
    BY <1>3 DEF u

LEMMA ItemsMovedRooted ==
  ASSUME NEW t \in Tree, Rooted(t), NEW S \in SUBSET Items, NEW c \in t.topics \cup t.groups
  PROVE  Rooted(Move(t, S, c))
  <1> DEFINE u == Move(t, S, c)
  <1>1. c \in Topics \cup Groups \cup {Nowhere}
    BY DEF Tree
  <1>2. /\ u.parent = [n \in Nodes |-> IF n \in S THEN c ELSE t.parent[n]]
        /\ SameTopics(t, u) /\ u.groups = t.groups
    BY <1>1, Moved DEF IsMoved
  <1> HIDE DEF u
  <1>3. \A n \in Nodes : u.parent[n] = t.parent[n] \/ u.parent[n] = c
    BY <1>2
  <1>4. \A g \in Groups : u.parent[g] = t.parent[g]
    BY <1>2, PlacesApart DEF Nodes
  <1>5. Rooted(u)
    BY <1>2, <1>3, <1>4 DEF Rooted, SameTopics
  <1> QED
    BY <1>5 DEF u

\* The fields of the tree u in which k is a topic of t.
IsTopicAdded(t, k, dyn, refs, split, u) ==
    /\ u \in Tree /\ u.parent = t.parent /\ u.groups = t.groups
    /\ u.topics = t.topics \cup {k}
    /\ u.dynamic = IF dyn THEN t.dynamic \cup {k} ELSE t.dynamic \ {k}
    /\ u.refs = [t.refs EXCEPT ![k] = refs]
    /\ u.split = [t.split EXCEPT ![k] = split]

LEMMA TopicAdded ==
  ASSUME NEW t \in Tree, NEW k \in Topics, NEW dyn \in BOOLEAN, NEW refs \in SUBSET Agenda,
         NEW split \in Topics \cup {Nowhere}
  PROVE  IsTopicAdded(t, k, dyn, refs, split, AddTopic(t, k, dyn, refs, split))
  <1> DEFINE u == AddTopic(t, k, dyn, refs, split)
  <1>1. u =
          [t EXCEPT !.topics = t.topics \cup {k},
                    !.dynamic = IF dyn THEN t.dynamic \cup {k} ELSE t.dynamic \ {k},
                    !.refs = [t.refs EXCEPT ![k] = refs],
                    !.split = [t.split EXCEPT ![k] = split]]
    BY DEF AddTopic, Tree
  <1> HIDE DEF u
  <1>2. /\ u.parent = t.parent /\ u.groups = t.groups
        /\ u.topics = t.topics \cup {k}
        /\ u.dynamic = IF dyn THEN t.dynamic \cup {k} ELSE t.dynamic \ {k}
        /\ u.refs = [t.refs EXCEPT ![k] = refs]
        /\ u.split = [t.split EXCEPT ![k] = split]
    BY <1>1 DEF Tree
  <1>3. /\ [t.refs EXCEPT ![k] = refs] \in [Topics -> SUBSET Agenda]
        /\ [t.split EXCEPT ![k] = split] \in [Topics -> Topics \cup {Nowhere}]
    BY DEF Tree
  <1>4. u \in Tree
    BY <1>1, <1>3 DEF Tree
  <1>5. IsTopicAdded(t, k, dyn, refs, split, u)
    BY <1>2, <1>4 DEF IsTopicAdded
  <1> QED
    BY <1>5 DEF u

\* A free group has no children, so a new one closes no cycle.
LEMMA GroupAdded ==
  ASSUME NEW t \in Tree, t.groups # Groups, NEW p \in t.topics \cup t.groups,
         NEW S \in SUBSET Items
  PROVE  LET u == AddGroup(t, p, S)
         IN  /\ u \in Tree /\ SameTopics(t, u)
             /\ Rooted(t) => Rooted(u)
             /\ Rooted(t) /\ Acyclic(t) => Acyclic(u)
  <1> DEFINE g == Free(Groups, t.groups)
             u == AddGroup(t, p, S)
             t1 == [t EXCEPT !.groups = t.groups \cup {g}]
             t2 == Move(t1, {g}, p)
  <1>1. g \in Groups /\ g \notin t.groups
    <2>1. \E x \in Groups : x \notin t.groups
      BY DEF Tree
    <2> QED
      BY <2>1 DEF Free
  <1>2. p \in Topics \cup Groups /\ p # g
    BY <1>1, PlacesApart DEF Tree, Nodes
  <1>3. u = Move(t2, S, g)
    <2>1. [t EXCEPT !.groups = @ \cup {g}] = t1
      BY DEF Tree
    <2> HIDE DEF t1
    <2> QED
      BY <2>1 DEF AddGroup
  <1> HIDE DEF g, u
  <1>4. /\ t1 \in Tree /\ t1.parent = t.parent /\ t1.groups = t.groups \cup {g}
        /\ SameTopics(t, t1)
    BY <1>1 DEF Tree, SameTopics
  <1> HIDE DEF t1
  <1>5. /\ t2 \in Tree /\ t2.groups = t1.groups /\ SameTopics(t1, t2)
        /\ t2.parent = [n \in Nodes |-> IF n \in {g} THEN p ELSE t1.parent[n]]
    BY <1>2, <1>4, Moved DEF IsMoved
  <1> HIDE DEF t2
  <1>6. /\ u \in Tree /\ u.groups = t2.groups /\ SameTopics(t2, u)
        /\ u.parent = [n \in Nodes |-> IF n \in S THEN g ELSE t2.parent[n]]
    BY <1>1, <1>3, <1>5, Moved DEF IsMoved
  <1>7. /\ u.parent[g] = p
        /\ \A n \in Nodes \ {g} : u.parent[n] = IF n \in S THEN g ELSE t.parent[n]
        /\ SameTopics(t, u) /\ u.groups = t.groups \cup {g}
    BY <1>1, <1>4, <1>5, <1>6, PlacesApart DEF SameTopics, Nodes
  <1>8. ASSUME Rooted(t) PROVE Rooted(u)
    <2>1. \A n \in Nodes : u.parent[n] \in u.topics \cup u.groups \cup {Nowhere}
      BY <1>1, <1>7, <1>8 DEF Rooted, SameTopics
    <2>2. ASSUME NEW h \in Groups PROVE h \in u.groups <=> u.parent[h] # Nowhere
      <3>1. h \in Nodes /\ h \notin S
        BY PlacesApart DEF Nodes
      <3> QED
        BY <1>2, <1>7, <1>8, <3>1, PlacesApart DEF Rooted, Nodes
    <2> QED
      BY <2>1, <2>2 DEF Rooted
  <1>9. ASSUME Rooted(t), Acyclic(t) PROVE Acyclic(u)
    <2> SUFFICES ASSUME NEW C \in SUBSET Nodes, C # {}, \A n \in C : u.parent[n] \in C
                 PROVE  FALSE
      BY DEF Acyclic
    <2> DEFINE D == (C \cap Groups) \ {g}
    <2>1. \A n \in C : u.parent[n] \in C \cap Groups
      BY <1>6, ParentsAreContainers DEF Nodes
    <2>2. \A n \in D : t.parent[n] \in D
      <3> SUFFICES ASSUME NEW n \in D PROVE t.parent[n] \in D
        OBVIOUS
      <3>1. n \in Nodes /\ n \notin S
        BY PlacesApart DEF Nodes
      <3>2. u.parent[n] = t.parent[n]
        BY <1>7, <3>1
      <3>3. t.parent[n] # g
        BY <1>1, <1>9, <3>1, PlacesApart DEF Rooted, Tree, Nodes
      <3> QED
        BY <2>1, <3>2, <3>3
    <2>3. D # {}
      <3>1. PICK n \in C : TRUE
        OBVIOUS
      <3>2. CASE n \in D
        BY <3>2
      <3>3. CASE g \in C
        <4>1. p \in C \cap Groups
          BY <1>7, <2>1, <3>3
        <4> QED
          BY <1>2, <4>1
      <3>4. u.parent[n] \in D \/ g \in C
        BY <2>1
      <3> QED
        BY <3>3, <3>4
    <2>4. D \in SUBSET Nodes
      OBVIOUS
    <2> HIDE DEF D
    <2> QED
      BY <1>9, <2>2, <2>3, <2>4 DEF Acyclic
  <1> QED
    BY <1>6, <1>7, <1>8, <1>9 DEF u

\* The fields of the tree u in which topic from of t is merged into another.
IsMerged(t, from, into, u) ==
    /\ u \in Tree /\ u.groups = t.groups /\ u.topics = t.topics \ {from}
    /\ u.parent = [n \in Nodes |-> IF n \in Children(t, from) THEN into ELSE t.parent[n]]
    /\ u.dynamic = t.dynamic \ ({from} \cup (IF t.refs[into] \cup t.refs[from] = {} THEN {}
                                             ELSE {into}))
    /\ u.refs = [t.refs EXCEPT ![into] = t.refs[into] \cup t.refs[from], ![from] = {}]
    /\ u.split = [t.split EXCEPT ![into] = MergedSplit(t, from, into), ![from] = Nowhere]

LEMMA MergedFields ==
  ASSUME NEW t \in Tree, NEW from \in Topics, NEW into \in Topics, from # into
  PROVE  IsMerged(t, from, into, Merged(t, from, into))
  <1> DEFINE m == Move(t, Children(t, from), into)
             dyn == t.dynamic \ ({from} \cup (IF t.refs[into] \cup t.refs[from] = {} THEN {}
                                              ELSE {into}))
             refs == [t.refs EXCEPT ![into] = t.refs[into] \cup t.refs[from], ![from] = {}]
             split == [t.split EXCEPT ![into] = MergedSplit(t, from, into), ![from] = Nowhere]
             u == Merged(t, from, into)
  <1>1. /\ m \in Tree /\ SameTopics(t, m) /\ m.groups = t.groups
        /\ m.parent = [n \in Nodes |-> IF n \in Children(t, from) THEN into ELSE t.parent[n]]
    BY Moved DEF IsMoved
  <1>2. u = [m EXCEPT !.topics = @ \ {from},
                      !.dynamic = @ \ ({from} \cup (IF t.refs[into] \cup t.refs[from] = {} THEN {}
                                                    ELSE {into})),
                      !.refs = [@ EXCEPT ![into] = t.refs[into] \cup t.refs[from], ![from] = {}],
                      !.split = [@ EXCEPT ![into] = MergedSplit(t, from, into),
                                          ![from] = Nowhere]]
    BY DEF Merged, Inherited
  <1> HIDE DEF m, u
  <1>3. u = [m EXCEPT !.topics = t.topics \ {from}, !.dynamic = dyn, !.refs = refs, !.split = split]
    BY <1>1, <1>2 DEF SameTopics, Tree
  <1>4. MergedSplit(t, from, into) \in Topics \cup {Nowhere}
    BY DEF MergedSplit, Tree
  <1>5. /\ refs \in [Topics -> SUBSET Agenda] /\ split \in [Topics -> Topics \cup {Nowhere}]
        /\ dyn \in SUBSET Topics /\ t.topics \ {from} \in SUBSET Topics
    BY <1>4 DEF Tree
  <1> HIDE DEF refs, split, dyn
  <1>6. /\ u \in Tree /\ u.parent = m.parent /\ u.groups = m.groups
        /\ u.topics = t.topics \ {from} /\ u.dynamic = dyn /\ u.refs = refs /\ u.split = split
    BY <1>1, <1>3, <1>5 DEF Tree
  <1>7. IsMerged(t, from, into, u)
    BY <1>1, <1>6 DEF refs, split, dyn, IsMerged
  <1> QED
    BY <1>7 DEF u

LEMMA MergedSound ==
  ASSUME NEW t \in Tree, NEW from \in Topics, NEW into \in t.topics, from # into, Sound(t),
         NEW u, IsMerged(t, from, into, u)
  PROVE  u \in Tree /\ Sound(u)
  <1>0. into \in Topics
    BY DEF Tree
  <1>1. /\ u \in Tree
        /\ u.parent = [n \in Nodes |-> IF n \in Children(t, from) THEN into ELSE t.parent[n]]
        /\ u.groups = t.groups /\ u.topics = t.topics \ {from}
    BY DEF IsMerged
  <1>2. Acyclic(u)
    <2>1. \A g \in Groups : u.parent[g] = t.parent[g] \/ u.parent[g] \notin Groups
      BY <1>0, <1>1, PlacesApart DEF Nodes
    <2> QED
      BY <1>1, <2>1, LoosenedAcyclic DEF Sound
  <1>3. Rooted(u)
    <2>1. ASSUME NEW n \in Nodes PROVE u.parent[n] \in u.topics \cup u.groups \cup {Nowhere}
      <3>1. CASE n \in Children(t, from)
        BY <1>1, <3>1
      <3>2. CASE n \notin Children(t, from)
        <4>1. u.parent[n] = t.parent[n]
          BY <1>1, <3>2
        <4>2. t.parent[n] # Nowhere => n \in Placed(t) \cup t.groups
          BY DEF Placed, Sound, Rooted, Nodes
        <4>3. t.parent[n] # from
          BY <3>2, <4>2, PlacesApart DEF Children
        <4> QED
          BY <1>1, <4>1, <4>3 DEF Sound, Rooted
      <3> QED
        BY <3>1, <3>2
    <2>2. ASSUME NEW g \in Groups PROVE g \in u.groups <=> u.parent[g] # Nowhere
      <3>1. g \in Nodes /\ (g \in t.groups <=> t.parent[g] # Nowhere)
        BY DEF Nodes, Sound, Rooted
      <3>2. CASE g \in Children(t, from)
        <4>1. g \in t.groups
          BY <3>2, PlacesApart DEF Children, Placed
        <4> QED
          BY <1>0, <1>1, <3>1, <3>2, <4>1, PlacesApart
      <3>3. CASE g \notin Children(t, from)
        BY <1>1, <3>1, <3>3
      <3> QED
        BY <3>2, <3>3
    <2> QED
      BY <2>1, <2>2 DEF Rooted
  <1>4. AgendaKept(u)
    <2>1. /\ u.dynamic = t.dynamic \ ({from} \cup (IF t.refs[into] \cup t.refs[from] = {} THEN {}
                                                   ELSE {into}))
          /\ u.refs = [t.refs EXCEPT ![into] = t.refs[into] \cup t.refs[from], ![from] = {}]
          /\ u.split = [t.split EXCEPT ![into] = MergedSplit(t, from, into), ![from] = Nowhere]
      BY DEF IsMerged
    <2>2. t.refs \in [Topics -> SUBSET Agenda] /\ t.split \in [Topics -> Topics \cup {Nowhere}]
      BY DEF Tree
    <2>3. /\ u.refs[from] = {} /\ u.split[from] = Nowhere
          /\ u.refs[into] = t.refs[into] \cup t.refs[from]
          /\ u.split[into] = MergedSplit(t, from, into)
          /\ \A k \in Topics \ {from, into} : u.refs[k] = t.refs[k] /\ u.split[k] = t.split[k]
      BY <1>0, <2>1, <2>2
    <2>4. u.refs[into] = {} => u.split[into] = Nowhere
      BY <1>0, <2>3 DEF MergedSplit, Sound, AgendaKept
    <2> QED
      BY <1>0, <1>1, <2>1, <2>3, <2>4 DEF Sound, AgendaKept
  <1> QED
    BY <1>1, <1>2, <1>3, <1>4 DEF Sound

\* A dynamic topic has no agenda to share.
LEMMA MergedDynamicShares ==
  ASSUME NEW t \in Tree, NEW from \in t.dynamic, NEW into \in Topics, from # into, AgendaKept(t),
         SharedBySplit(t), NEW u, IsMerged(t, from, into, u)
  PROVE  SharedBySplit(u)
  <1>0. from \in Topics
    BY DEF Tree
  <1>1. t.refs[from] = {} /\ t.split[from] = Nowhere
    BY <1>0 DEF AgendaKept
  <1>2. /\ u.topics = t.topics \ {from}
        /\ u.refs = [t.refs EXCEPT ![into] = t.refs[into] \cup t.refs[from], ![from] = {}]
        /\ u.split = [t.split EXCEPT ![into] = MergedSplit(t, from, into), ![from] = Nowhere]
    BY DEF IsMerged
  <1>3. MergedSplit(t, from, into) = t.split[into]
    BY <1>1 DEF MergedSplit
  <1>4. ASSUME NEW k \in Topics PROVE u.refs[k] = t.refs[k] /\ u.split[k] = t.split[k]
    <2>1. t.refs \in [Topics -> SUBSET Agenda] /\ t.split \in [Topics -> Topics \cup {Nowhere}]
      BY DEF Tree
    <2>2. /\ u.refs[from] = {} /\ u.split[from] = Nowhere
          /\ u.refs[into] = t.refs[into] \cup t.refs[from]
          /\ u.split[into] = MergedSplit(t, from, into)
          /\ k \notin {from, into} => u.refs[k] = t.refs[k] /\ u.split[k] = t.split[k]
      BY <1>0, <1>2, <2>1
    <2> QED
      BY <1>1, <1>3, <2>2
  <1>5. \A a : Holders(u, a) \subseteq Holders(t, a) /\ Holders(u, a) \subseteq Topics
    BY <1>2, <1>4 DEF Holders, Tree
  <1> QED
    BY <1>4, <1>5 DEF SharedBySplit

\* A new topic without agenda, or with an agenda of its own.
LEMMA TopicAddedAgenda ==
  ASSUME NEW t \in Tree, NEW k \in Topics, k \notin t.topics, NEW dyn \in BOOLEAN,
         NEW refs \in SUBSET Agenda, dyn => refs = {}, NEW split \in Topics \cup {Nowhere},
         refs = {} => split = Nowhere,
         AgendaKept(t), NEW u, IsTopicAdded(t, k, dyn, refs, split, u)
  PROVE  /\ AgendaKept(u)
         /\ SharedBySplit(t) /\ (\A a \in refs : Holders(t, a) = {}) => SharedBySplit(u)
  <1>1. /\ u.topics = t.topics \cup {k}
        /\ u.dynamic = IF dyn THEN t.dynamic \cup {k} ELSE t.dynamic \ {k}
        /\ u.refs = [t.refs EXCEPT ![k] = refs]
        /\ u.split = [t.split EXCEPT ![k] = split]
    BY DEF IsTopicAdded
  <1>2. /\ u.refs[k] = refs /\ u.split[k] = split
        /\ \A l \in Topics \ {k} : u.refs[l] = t.refs[l] /\ u.split[l] = t.split[l]
    BY <1>1 DEF Tree
  <1>3. AgendaKept(u)
    BY <1>1, <1>2 DEF AgendaKept
  <1>4. ASSUME SharedBySplit(t), \A a \in refs : Holders(t, a) = {} PROVE SharedBySplit(u)
    <2> SUFFICES ASSUME NEW a \in Agenda, NEW l \in Holders(u, a), NEW m \in Holders(u, a), l # m
                 PROVE  u.split[l] = u.split[m] /\ u.split[l] # Nowhere
      BY DEF SharedBySplit
    <2>1. \A x \in Holders(u, a) \ {k} : x \in Holders(t, a) /\ x \in Topics
      BY <1>1, <1>2 DEF Holders, Tree
    <2>2. k \in Holders(u, a) => a \in refs
      BY <1>2 DEF Holders
    <2>3. l # k /\ m # k
      BY <1>4, <2>1, <2>2
    <2> QED
      BY <1>2, <1>4, <2>1, <2>3 DEF SharedBySplit
  <1> QED
    BY <1>3, <1>4

\* A dynamic topic brings no agenda.
LEMMA DynamicAdded ==
  ASSUME NEW t \in Tree, NEW k \in Topics, k \notin t.topics, AgendaKept(t), SharedBySplit(t),
         NEW u, IsTopicAdded(t, k, TRUE, {}, Nowhere, u)
  PROVE  AgendaKept(u) /\ SharedBySplit(u)
  <1>1. PICK dyn \in BOOLEAN, refs \in SUBSET Agenda : dyn = TRUE /\ refs = {}
    OBVIOUS
  <1>2. IsTopicAdded(t, k, dyn, refs, Nowhere, u)
    BY <1>1
  <1>3. \A a \in refs : Holders(t, a) = {}
    BY <1>1
  <1> QED
    BY <1>1, <1>2, <1>3, TopicAddedAgenda

LEMMA TopicAddedShape ==
  ASSUME NEW t \in Tree, NEW k \in Topics, NEW dyn \in BOOLEAN,
         NEW refs \in SUBSET Agenda, NEW split \in Topics \cup {Nowhere},
         NEW u, IsTopicAdded(t, k, dyn, refs, split, u)
  PROVE  u \in Tree /\ (Acyclic(t) => Acyclic(u)) /\ (Rooted(t) => Rooted(u))
  <1>1. /\ u \in Tree /\ u.parent = t.parent /\ u.groups = t.groups
        /\ u.topics = t.topics \cup {k}
    BY DEF IsTopicAdded
  <1> QED
    BY <1>1 DEF Acyclic, Rooted

\* The group that is deleted is nobody's parent.
LEMMA GroupDeleted ==
  ASSUME NEW t \in Tree, Sound(t), NEW g \in t.groups, Children(t, g) = {},
         NEW u, u = Move([t EXCEPT !.groups = @ \ {g}, !.dip[g] = 0], {g}, Nowhere)
  PROVE  u \in Tree /\ Sound(u)
  <1> DEFINE t1 == [t EXCEPT !.groups = @ \ {g}, !.dip[g] = 0]
  <1>0. g \in Groups /\ GraceVersions \in Nat
    BY TreeAssumption DEF Tree, TreeAssumption
  <1>1. /\ t1 \in Tree /\ t1.parent = t.parent /\ t1.groups = t.groups \ {g}
        /\ SameTopics(t, t1)
    <2>1. [t.dip EXCEPT ![g] = 0] \in [Groups -> 0..GraceVersions]
      BY <1>0 DEF Tree
    <2>2. t1 = [t EXCEPT !.groups = t.groups \ {g}, !.dip = [t.dip EXCEPT ![g] = 0]]
      BY DEF Tree
    <2> HIDE DEF t1
    <2> QED
      BY <2>1, <2>2 DEF Tree, SameTopics
  <1> HIDE DEF t1
  <1>2. /\ u \in Tree /\ u.groups = t1.groups /\ SameTopics(t1, u)
        /\ u.parent = [n \in Nodes |-> IF n \in {g} THEN Nowhere ELSE t1.parent[n]]
    <2>1. u = Move(t1, {g}, Nowhere)
      BY DEF t1
    <2>2. IsMoved(t1, {g}, Nowhere, u)
      BY <1>1, <2>1, Moved
    <2> QED
      BY <2>2 DEF IsMoved
  <1>3. SameTopics(t, u)
    BY <1>1, <1>2 DEF SameTopics
  <1>4. Acyclic(u)
    <2>1. \A h \in Groups : u.parent[h] = t.parent[h] \/ u.parent[h] \notin Groups
      BY <1>1, <1>2, PlacesApart DEF Nodes
    <2> QED
      BY <1>2, <2>1, LoosenedAcyclic DEF Sound
  <1>5. Rooted(u)
    <2>1. ASSUME NEW n \in Nodes PROVE u.parent[n] \in u.topics \cup u.groups \cup {Nowhere}
      <3>1. t.parent[n] # Nowhere => n \in Placed(t) \cup t.groups
        BY DEF Placed, Sound, Rooted, Nodes
      <3>2. t.parent[n] # g
        BY <1>0, <3>1, PlacesApart DEF Children, Nodes
      <3> QED
        BY <1>1, <1>2, <1>3, <3>2 DEF Sound, Rooted, SameTopics
    <2>2. ASSUME NEW h \in Groups PROVE h \in u.groups <=> u.parent[h] # Nowhere
      BY <1>1, <1>2 DEF Sound, Rooted, Nodes
    <2> QED
      BY <2>1, <2>2 DEF Rooted
  <1>6. AgendaKept(u)
    BY <1>3, SameTopicsKept DEF Sound
  <1> QED
    BY <1>2, <1>4, <1>5, <1>6 DEF Sound


-----------------------------------------------------------------------------
(* The end of a round: dissolve, assemble, prune, retire, prune.           *)

\* A group that dissolves leaves its details to its own container.
LEMMA Dissolved ==
  ASSUME NEW t \in Tree, Acyclic(t), NEW weak \in SUBSET t.groups
  PROVE  /\ Dissolve(t, weak) \in Tree /\ SameTopics(t, Dissolve(t, weak))
         /\ Acyclic(Dissolve(t, weak))
  <1> DEFINE u == Dissolve(t, weak)
             f == [n \in Nodes |-> IF n \in weak THEN Nowhere
                                   ELSE IF t.parent[n] \in weak THEN t.parent[t.parent[n]]
                                   ELSE t.parent[n]]
  <1>0. weak \in SUBSET Groups /\ weak \subseteq Nodes
    BY DEF Tree, Nodes
  <1>1. u = [t EXCEPT !.groups = t.groups \ weak, !.parent = f]
    BY DEF Dissolve, Nodes, Tree
  <1>2. f \in [Items \cup Groups -> Topics \cup Groups \cup {Nowhere}]
    <2> SUFFICES ASSUME NEW n \in Nodes PROVE f[n] \in Topics \cup Groups \cup {Nowhere}
      BY DEF Nodes
    <2> QED
      BY <1>0, ParentsAreContainers
  <1>3. \A n \in Nodes : f[n] = IF n \in weak THEN Nowhere
                                ELSE IF t.parent[n] \in weak THEN t.parent[t.parent[n]]
                                ELSE t.parent[n]
    OBVIOUS
  <1> HIDE DEF f, u
  <1>4. u \in Tree /\ u.parent = f /\ SameTopics(t, u)
    BY <1>1, <1>2 DEF Tree, SameTopics
  <1>5. Acyclic(u)
    <2> SUFFICES ASSUME NEW C \in SUBSET Nodes, C # {}, \A n \in C : u.parent[n] \in C
                 PROVE  FALSE
      BY DEF Acyclic
    <2> DEFINE D == C \cup {n \in weak : t.parent[n] \in C}
    <2>1. ASSUME NEW n \in C PROVE t.parent[n] \in D
      <3>1. n \notin weak
        BY <1>3, <1>4, PlacesApart
      <3> QED
        BY <1>3, <1>4, <3>1
    <2>2. \A n \in D : t.parent[n] \in D
      BY <2>1
    <2>3. D \in SUBSET Nodes /\ D # {}
      BY <1>0
    <2> HIDE DEF D
    <2> QED
      BY <2>2, <2>3 DEF Acyclic
  <1> QED
    BY <1>4, <1>5 DEF u

\* The agenda stays with its topics.
LEMMA AssembledAgenda ==
  ASSUME NEW t \in Tree, AgendaKept(t), NEW a, IsAssembled(t, a)
  PROVE  AgendaKept(a) /\ (SharedBySplit(t) => SharedBySplit(a))
  <1>1. /\ a.topics \in SUBSET Topics /\ a.dynamic \subseteq t.dynamic
        /\ \A k \in Topics : a.refs[k] = IF k \in a.topics THEN t.refs[k] ELSE {}
        /\ \A k \in Topics : a.split[k] = IF k \in a.topics THEN t.split[k] ELSE Nowhere
    BY AssembledSets DEF IsAssembled
  <1>2. AgendaKept(a)
    BY <1>1 DEF AgendaKept
  <1>3. ASSUME NEW x, NEW k \in Holders(a, x)
        PROVE  k \in Holders(t, x) /\ a.split[k] = t.split[k]
    <2>1. k \in Topics /\ k \in a.topics /\ x \in a.refs[k]
      BY <1>1 DEF Holders
    <2>2. x \in t.refs[k] /\ a.split[k] = t.split[k]
      BY <1>1, <2>1
    <2>3. k \in t.topics
      BY <2>1, <2>2 DEF AgendaKept
    <2> QED
      BY <2>2, <2>3 DEF Holders
  <1>4. SharedBySplit(t) => SharedBySplit(a)
    BY <1>3 DEF SharedBySplit
  <1> QED
    BY <1>2, <1>4

\* The fields of the tree u that a topic set gone has left.
IsPruned(a, gone, u) ==
    /\ u \in Tree /\ u.parent = a.parent /\ u.groups = a.groups
    /\ u.topics = a.topics \ gone /\ u.dynamic = a.dynamic \ gone
    /\ u.refs = [k \in Topics |-> IF k \in gone THEN {} ELSE a.refs[k]]
    /\ u.split = [k \in Topics |-> IF k \in gone THEN Nowhere ELSE a.split[k]]

LEMMA Pruned ==
  ASSUME NEW a \in Tree, NEW gone
  PROVE  IsPruned(a, gone, Without(a, gone))
  <1> DEFINE refs == [k \in Topics |-> IF k \in gone THEN {} ELSE a.refs[k]]
             split == [k \in Topics |-> IF k \in gone THEN Nowhere ELSE a.split[k]]
             u == Without(a, gone)
  <1>1. u = [a EXCEPT !.topics = a.topics \ gone, !.dynamic = a.dynamic \ gone,
                      !.refs = refs, !.split = split]
    <2>1. u = [a EXCEPT !.topics = @ \ gone, !.dynamic = @ \ gone,
                        !.refs = [k \in Topics |-> IF k \in gone THEN {} ELSE @[k]],
                        !.split = [k \in Topics |-> IF k \in gone THEN Nowhere ELSE @[k]]]
      BY DEF Without
    <2> HIDE DEF u
    <2> QED
      BY <2>1 DEF Tree
  <1>2. refs \in [Topics -> SUBSET Agenda] /\ split \in [Topics -> Topics \cup {Nowhere}]
    BY DEF Tree
  <1> HIDE DEF u, refs, split
  <1>3. /\ u \in Tree /\ u.parent = a.parent /\ u.groups = a.groups
        /\ u.topics = a.topics \ gone /\ u.dynamic = a.dynamic \ gone
        /\ u.refs = refs /\ u.split = split
    BY <1>1, <1>2 DEF Tree
  <1>4. IsPruned(a, gone, u)
    BY <1>3 DEF IsPruned, refs, split
  <1> QED
    BY <1>4 DEF u

\* No detail and no group lies too deep.
Shallow(t) == \A n \in Placed(t) \cup t.groups : Depth(t, n) <= HardMaxDepth

\* Only topics that hold nothing leave.
LEMMA PrunedSound ==
  ASSUME NEW a \in Tree, Sound(a), SharedBySplit(a), Shallow(a),
         NEW gone \in SUBSET Emptied(a), NEW u, IsPruned(a, gone, u)
  PROVE  /\ u \in Tree /\ Sound(u) /\ SharedBySplit(u) /\ Shallow(u)
         /\ Placed(u) = Placed(a) /\ u.groups = a.groups /\ u.topics \subseteq a.topics
         /\ \A c : Children(u, c) = Children(a, c)
  <1>1. /\ u \in Tree /\ u.parent = a.parent /\ u.groups = a.groups
        /\ u.topics = a.topics \ gone /\ u.dynamic = a.dynamic \ gone
        /\ gone \in SUBSET Topics
    BY DEF IsPruned, Emptied, Tree
  <1>2. \A k \in Topics : /\ u.refs[k] = IF k \in gone THEN {} ELSE a.refs[k]
                          /\ u.split[k] = IF k \in gone THEN Nowhere ELSE a.split[k]
    BY DEF IsPruned
  <1>3. Acyclic(u)
    BY <1>1 DEF Acyclic, Sound
  <1>4. Rooted(u)
    <2>1. ASSUME NEW n \in Nodes PROVE u.parent[n] \in u.topics \cup u.groups \cup {Nowhere}
      <3>1. a.parent[n] \in a.topics \cup a.groups \cup {Nowhere}
        BY DEF Sound, Rooted
      <3>2. a.parent[n] # Nowhere => n \in Placed(a) \cup a.groups
        BY DEF Placed, Sound, Rooted, Nodes
      <3>3. a.parent[n] \notin gone
        BY <1>1, <3>2, PlacesApart DEF Children, Emptied
      <3> QED
        BY <1>1, <3>1, <3>3
    <2> QED
      BY <1>1, <2>1 DEF Rooted, Sound
  <1>5. AgendaKept(u)
    BY <1>1, <1>2 DEF AgendaKept, Sound
  <1>6. SharedBySplit(u)
    <2>1. ASSUME NEW x, NEW k \in Holders(u, x)
          PROVE  k \in Holders(a, x) /\ u.split[k] = a.split[k]
      <3>1. k \in u.topics /\ x \in u.refs[k] /\ k \in a.topics /\ k \notin gone
        BY <1>1 DEF Holders
      <3>2. k \in Topics
        BY <3>1 DEF Tree
      <3> QED
        BY <1>2, <3>1, <3>2 DEF Holders
    <2> QED
      BY <2>1 DEF SharedBySplit
  <1>7. Placed(u) = Placed(a) /\ \A c : Children(u, c) = Children(a, c)
    BY <1>1 DEF Placed, Children
  <1>8. \A n : Depth(u, n) = Depth(a, n)
    BY <1>1 DEF Depth
  <1> QED
    BY <1>1, <1>3, <1>4, <1>5, <1>6, <1>7, <1>8 DEF Sound, Shallow

\* Details that are removed take nothing with them.
LEMMA RetiredSound ==
  ASSUME NEW t \in Tree, Sound(t), SharedBySplit(t), Shallow(t), NEW out \in SUBSET Items,
         NEW u, IsMoved(t, out, Nowhere, u)
  PROVE  /\ Sound(u) /\ SharedBySplit(u) /\ Shallow(u)
         /\ u \in Tree /\ u.topics = t.topics /\ u.groups = t.groups /\ u.dynamic = t.dynamic
         /\ out = {} => \A c : Children(u, c) = Children(t, c)
  <1>1. /\ u \in Tree /\ SameTopics(t, u) /\ u.groups = t.groups
        /\ u.parent = [n \in Nodes |-> IF n \in out THEN Nowhere ELSE t.parent[n]]
    BY DEF IsMoved
  <1>2. /\ \A n \in Nodes : u.parent[n] = IF n \in out THEN Nowhere ELSE t.parent[n]
        /\ \A g \in Groups : u.parent[g] = t.parent[g]
    BY <1>1, PlacesApart DEF Nodes
  <1>3. Acyclic(u)
    BY <1>1, <1>2, LoosenedAcyclic DEF Sound
  <1>4. Rooted(u)
    BY <1>1, <1>2 DEF Sound, Rooted, SameTopics
  <1>5. Sound(u) /\ SharedBySplit(u)
    BY <1>1, <1>3, <1>4, SameTopicsKept DEF Sound
  <1> DEFINE Off == {n \in Nodes \ out : Depth(u, n) # Depth(t, n)}
  <1>6. ASSUME NEW n \in Off PROVE t.parent[n] \in Off
    <2>1. n \in Nodes /\ u.parent[n] = t.parent[n]
      BY <1>2
    <2>2. Depth(u, n) = 1 + Depth(u, t.parent[n]) /\ Depth(t, n) = 1 + Depth(t, t.parent[n])
      BY <1>1, <1>3, <2>1, DepthOfNode DEF Sound
    <2>3. t.parent[n] \in Topics \cup Groups \cup {Nowhere} /\ t.parent[n] \in Places
      BY <2>1, ParentsAreContainers
    <2>4. \A e \in Ends : Depth(u, e) = Depth(t, e)
      BY <1>1, <1>3, DepthNext DEF Sound, Places, Ends
    <2>5. Depth(u, t.parent[n]) # Depth(t, t.parent[n])
      BY <1>6, <2>2
    <2>6. t.parent[n] \in Groups
      BY <2>3, <2>4, <2>5 DEF Ends
    <2> QED
      BY <2>5, <2>6, PlacesApart DEF Nodes
  <1>7. Off = {}
    <2>1. Off \in SUBSET Nodes
      OBVIOUS
    <2> HIDE DEF Off
    <2> QED
      BY <1>6, <2>1 DEF Acyclic, Sound
  <1>8. Shallow(u)
    <2> SUFFICES ASSUME NEW n \in Placed(u) \cup u.groups PROVE Depth(u, n) <= HardMaxDepth
      BY DEF Shallow
    <2>1. n \in Nodes \ out /\ n \in Placed(t) \cup t.groups
      BY <1>1, <1>2, PlacesApart DEF Placed, Nodes, Tree
    <2> QED
      BY <1>7, <2>1 DEF Shallow
  <1>9. ASSUME out = {} PROVE \A c : Children(u, c) = Children(t, c)
    <2>1. \A n \in Nodes : u.parent[n] = t.parent[n]
      BY <1>2, <1>9
    <2>2. Placed(u) = Placed(t)
      BY <2>1 DEF Placed, Nodes
    <2>3. Placed(t) \cup t.groups \subseteq Nodes
      BY DEF Placed, Nodes, Tree
    <2> QED
      BY <1>1, <2>1, <2>2, <2>3 DEF Children
  <1> QED
    BY <1>1, <1>5, <1>8, <1>9 DEF SameTopics

-----------------------------------------------------------------------------
(* The integrity check.                                                    *)

LEMMA FlawsFound ==
  ASSUME NEW t, NEW stray \in BOOLEAN
  PROVE  /\ Flaws(t, stray) \in SUBSET Flaw
         /\ "OrphanNode" \in Flaws(t, stray)
              <=> \E n \in Placed(t) \cup t.groups : TopicOf(t, n) = Nowhere
         /\ "HardDepth" \in Flaws(t, stray)
              <=> \E n \in Placed(t) \cup t.groups : Depth(t, n) > HardMaxDepth
         /\ "EmptyGroup" \in Flaws(t, stray) <=> \E g \in t.groups : Children(t, g) = {}
         /\ "SharedAgenda" \in Flaws(t, stray) <=> ~SharedBySplit(t)
         /\ "EdgeMismatch" \in Flaws(t, stray) <=> stray
  BY DEF Flaws, Flaw

LEMMA IntegrityIs ==
  ASSUME NEW t, NEW stray \in BOOLEAN
  PROVE  /\ Flaws(t, stray) = {} => Integrity(t)
         /\ Integrity(t) => SharedBySplit(t)
  <1>1. Flaws(t, FALSE) \subseteq Flaws(t, stray)
    BY FlawsFound DEF Flaw
  <1> QED
    BY <1>1, FlawsFound DEF Integrity

\* Of a sound tree that is not too deep, only empty groups and the edge are left.
LEMMA SoundFlaws ==
  ASSUME NEW t \in Tree, Sound(t), SharedBySplit(t), Shallow(t), NEW stray \in BOOLEAN
  PROVE  /\ Flaws(t, stray) \subseteq {"EmptyGroup", "EdgeMismatch"}
         /\ ~stray /\ (\A g \in t.groups : Children(t, g) # {}) => Flaws(t, stray) = {}
  <1>1. "OrphanNode" \notin Flaws(t, stray)
    <2> SUFFICES ASSUME NEW n \in Placed(t) \cup t.groups PROVE TopicOf(t, n) # Nowhere
      BY FlawsFound
    <2>1. TopicOf(t, n) \in t.topics
      BY RootedReaches DEF Sound
    <2> QED
      BY <2>1, PlacesApart DEF Tree
  <1>2. "HardDepth" \notin Flaws(t, stray)
    <2> SUFFICES ASSUME NEW n \in Placed(t) \cup t.groups, Depth(t, n) > HardMaxDepth
                 PROVE  FALSE
      BY FlawsFound
    <2>1. n \in Places
      BY DEF Placed, Places, Nodes, Tree
    <2>2. Depth(t, n) \in Nat /\ HardMaxDepth \in Nat
      BY <2>1, DepthIsNat, TreeAssumption DEF Sound, TreeAssumption
    <2>3. Depth(t, n) <= HardMaxDepth
      BY DEF Shallow
    <2> QED
      BY <2>2, <2>3
  <1>3. "SharedAgenda" \notin Flaws(t, stray)
    BY FlawsFound
  <1>4. /\ "EmptyGroup" \in Flaws(t, stray) => \E g \in t.groups : Children(t, g) = {}
        /\ "EdgeMismatch" \in Flaws(t, stray) => stray
    BY FlawsFound
  <1>5. Flaws(t, stray) \subseteq {"EmptyGroup", "EdgeMismatch"}
    BY <1>1, <1>2, <1>3, FlawsFound DEF Flaw
  <1> QED
    BY <1>4, <1>5

\* Unclassified is in an assembled tree only for what it holds.
LEMMA AssembledUnclassified ==
  ASSUME NEW t \in Tree, Acyclic(t), NEW a, IsAssembled(t, a), Unclassified \in a.topics
  PROVE  Children(a, Unclassified) # {}
  <1>1. PICK n \in Items \cup a.groups : a.parent[n] = Unclassified
    BY DEF IsAssembled
  <1>2. n \in Placed(a) \cup a.groups
    BY <1>1, PlacesApart DEF Placed
  <1> QED
    BY <1>1, <1>2 DEF Children

\* The trees rebuildDiscussionTree makes are forests, and Unclassified is not empty.
LEMMA RebuiltSound ==
  ASSUME NEW t \in Tree, Acyclic(t), AgendaKept(t), SharedBySplit(t), NEW u \in Rebuilt(t)
  PROVE  /\ u \in Tree /\ Sound(u) /\ SharedBySplit(u) /\ Shallow(u)
         /\ \A g \in u.groups : Children(u, g) # {}
         /\ Unclassified \in u.topics => Children(u, Unclassified) # {}
  <1>1. PICK weak \in SUBSET Weak(t) : \E gone \in SUBSET Emptied(Assemble(Dissolve(t, weak), 1)) :
           u = Without(Assemble(Dissolve(t, weak), 1), gone)
    BY DEF Rebuilt
  <1> DEFINE d == Dissolve(t, weak)
             a == Assemble(d, 1)
  <1>2. d \in Tree /\ Acyclic(d) /\ AgendaKept(d) /\ SharedBySplit(d)
    <2>1. weak \in SUBSET t.groups
      BY DEF Weak
    <2>2. d \in Tree /\ SameTopics(t, d) /\ Acyclic(d)
      BY <2>1, Dissolved
    <2> HIDE DEF d
    <2> QED
      BY <2>2, SameTopicsKept
  <1>3. PICK gone \in SUBSET Emptied(a) : u = Without(a, gone)
    BY <1>1
  <1> HIDE DEF d
  <1>4. IsAssembled(d, a)
    BY <1>2, Assembled
  <1> HIDE DEF a
  <1>5. a \in Tree /\ Sound(a) /\ SharedBySplit(a) /\ IsForest(a)
    BY <1>2, <1>4, AssembledIsTree, AssembledAcyclic, AssembledRooted, AssembledAgenda,
       AssembledIsForest DEF Sound
  <1>6. Shallow(a) /\ \A g \in a.groups : Children(a, g) # {}
    BY <1>5 DEF IsForest, Shallow
  <1>7. IsPruned(a, gone, u)
    BY <1>3, <1>5, Pruned
  <1>8. /\ u \in Tree /\ Sound(u) /\ SharedBySplit(u) /\ Shallow(u)
        /\ u.groups = a.groups /\ u.topics \subseteq a.topics
        /\ \A c : Children(u, c) = Children(a, c)
    BY <1>5, <1>6, <1>7, PrunedSound
  <1>9. Unclassified \in a.topics => Children(a, Unclassified) # {}
    BY <1>2, <1>4, AssembledUnclassified
  <1> QED
    BY <1>6, <1>8, <1>9

(***************************************************************************)
(* What a step keeps.  TreeTypeOK names no shape, and the integrity of the *)
(* saved tree says nothing of the draft, on which the operations build;    *)
(* that the draft is sound is what makes what they assemble a forest.      *)
(***************************************************************************)
TreeIInv ==
    /\ TreeTypeOK
    /\ Sound(saved) /\ Sound(draft)
    /\ SharedBySplit(saved) /\ Integrity(saved)
    /\ RejectedForRetiredOnly

LEMMA EmptyTree ==
  NoTree \in Tree /\ Sound(NoTree) /\ SharedBySplit(NoTree) /\ Integrity(NoTree)
  <1>1. NoTree \in Tree
    BY TreeAssumption DEF NoTree, Tree, TreeAssumption
  <1>2. Acyclic(NoTree)
    <2> SUFFICES ASSUME NEW C \in SUBSET Nodes, C # {} PROVE \E n \in C : NoTree.parent[n] \notin C
      BY DEF Acyclic
    <2>1. \A n \in Nodes : NoTree.parent[n] = Nowhere
      BY DEF NoTree, Nodes
    <2> QED
      BY <2>1, PlacesApart
  <1>3. Rooted(NoTree) /\ AgendaKept(NoTree) /\ SharedBySplit(NoTree)
    BY DEF NoTree, Rooted, Nodes, AgendaKept, SharedBySplit, Holders
  <1>4. Placed(NoTree) = {} /\ NoTree.groups = {}
    BY DEF NoTree, Placed
  <1>5. Flaws(NoTree, FALSE) = {}
    BY <1>1, <1>2, <1>3, <1>4, SoundFlaws DEF Sound, Shallow
  <1> QED
    BY <1>1, <1>2, <1>3, <1>5 DEF Sound, Integrity

LEMMA RoundKeeps ==
  ASSUME TreeIInv, rounds < MaxRounds,
         NEW t \in Tree, Acyclic(t), AgendaKept(t), SharedBySplit(t), RoundEnds(t)
  PROVE  TreeIInv'
  <1> DEFINE Rest(u, out) == Move(u, out, Nowhere)
             Hollow(u, out) == Emptied(Rest(u, out)) \cap (Rest(u, out).dynamic \cup {Unclassified})
             Left(u, out) == Without(Rest(u, out), Hollow(u, out))
             Ending(u, out) ==
                 /\ retired' = out
                 /\ flaws' = Flaws(Left(u, out), Unclassified \in Hollow(u, out))
                 /\ saved' = Selected(Left(u, out), flaws') /\ draft' = saved'
                 /\ due' = TRUE /\ rounds' = rounds + 1
                 /\ UNCHANGED <<applied, created, planned>>
  <1>a. \E u \in Rebuilt(t) : \E out \in SUBSET Placed(u) : Ending(u, out)
    BY DEF RoundEnds
  <1>b. PICK built \in Rebuilt(t) : \E out \in SUBSET Placed(built) : Ending(built, out)
    BY <1>a
  <1>1. PICK out \in SUBSET Placed(built) : Ending(built, out)
    BY <1>b
  <1> DEFINE rest == Rest(built, out)
             hollow == Hollow(built, out)
             left == Left(built, out)
             stray == Unclassified \in hollow
  <1>2. /\ built \in Tree /\ Sound(built) /\ SharedBySplit(built) /\ Shallow(built)
        /\ \A g \in built.groups : Children(built, g) # {}
        /\ Unclassified \in built.topics => Children(built, Unclassified) # {}
    BY RebuiltSound
  <1>3. out \in SUBSET Items
    BY DEF Placed
  <1>4. IsMoved(built, out, Nowhere, rest)
    BY <1>2, Moved
  <1>5. /\ hollow \in SUBSET Emptied(rest) /\ left = Without(rest, hollow)
        /\ stray \in BOOLEAN /\ (stray => Unclassified \in rest.topics /\ Children(rest, Unclassified) = {})
    BY DEF Emptied
  <1>6. /\ flaws' = Flaws(left, stray) /\ saved' = Selected(left, flaws')
    BY <1>1
  <1> HIDE DEF Rest, Hollow, Left, rest, hollow, left, stray
  <1>7. /\ rest \in Tree /\ Sound(rest) /\ SharedBySplit(rest) /\ Shallow(rest)
        /\ rest.topics = built.topics /\ rest.groups = built.groups
        /\ out = {} => \A c : Children(rest, c) = Children(built, c)
    BY <1>2, <1>3, <1>4, RetiredSound
  <1>8. IsPruned(rest, hollow, left)
    BY <1>5, <1>7, Pruned
  <1>9. /\ left \in Tree /\ Sound(left) /\ SharedBySplit(left) /\ Shallow(left)
        /\ left.groups = rest.groups /\ \A c : Children(left, c) = Children(rest, c)
    BY <1>5, <1>7, <1>8, PrunedSound
  <1>10. flaws' \subseteq {"EmptyGroup", "EdgeMismatch"}
    BY <1>5, <1>6, <1>9, SoundFlaws
  <1>11. ASSUME out = {} PROVE flaws' = {}
    <2>1. ~stray
      BY <1>2, <1>5, <1>7, <1>11
    <2>2. \A g \in left.groups : Children(left, g) # {}
      BY <1>2, <1>7, <1>9, <1>11
    <2> QED
      BY <1>5, <1>6, <1>9, <2>1, <2>2, SoundFlaws
  <1>12. RejectedForRetiredOnly'
    BY <1>1, <1>10, <1>11 DEF RejectedForRetiredOnly
  <1>13. saved' \in Tree /\ Sound(saved') /\ SharedBySplit(saved') /\ Integrity(saved')
    <2>1. CASE flaws' = {}
      <3>1. saved' = left
        BY <1>6, <2>1 DEF Selected
      <3>2. Integrity(left)
        BY <1>5, <1>6, <2>1, IntegrityIs
      <3> QED
        BY <1>9, <3>1, <3>2
    <2>2. CASE flaws' # {}
      <3>1. saved' = saved
        BY <1>6, <2>2 DEF Selected, TreeIInv
      <3> QED
        BY <3>1 DEF TreeIInv, TreeTypeOK
    <2> QED
      BY <2>1, <2>2
  <1>14. rounds' \in 0..MaxRounds
    BY <1>1, TreeAssumption DEF TreeAssumption, TreeIInv, TreeTypeOK
  <1>15. flaws' \in SUBSET Flaw
    BY <1>10 DEF Flaw
  <1>16. TreeTypeOK'
    BY <1>1, <1>3, <1>13, <1>14, <1>15 DEF TreeIInv, TreeTypeOK
  <1>17. Integrity(saved)' /\ SharedBySplit(saved)' /\ Sound(saved)' /\ Sound(draft)'
    BY <1>1, <1>13
  <1> QED
    BY <1>12, <1>16, <1>17 DEF TreeIInv

LEMMA LimitsAreNat == MaxOperations \in Nat /\ MaxRounds \in Nat
  BY TreeAssumption DEF TreeAssumption

LEMMA AppliesKeeps ==
  ASSUME TreeIInv, NEW t \in Tree, Sound(t), Applies(t), created' \in {created, created + 1}
  PROVE  TreeIInv'
  <1>1. /\ applied < MaxOperations /\ applied' = applied + 1 /\ draft' = t
        /\ UNCHANGED <<saved, rounds, due, planned, retired, flaws>>
    BY DEF Applies
  <1>2. applied' \in 0..MaxOperations /\ created' \in 0..applied'
    BY <1>1, TreeAssumption DEF TreeAssumption, TreeIInv, TreeTypeOK
  <1>3. TreeTypeOK'
    BY <1>1, <1>2 DEF TreeIInv, TreeTypeOK
  <1>4. Sound(saved)' /\ SharedBySplit(saved)' /\ Integrity(saved)' /\ RejectedForRetiredOnly'
    BY <1>1 DEF TreeIInv, RejectedForRetiredOnly
  <1> QED
    BY <1>1, <1>3, <1>4 DEF TreeIInv

\* The id of a new topic, when the topics are not used up.
LEMMA FreeTopic ==
  ASSUME NEW t \in Tree, t.topics \ {Unclassified} # Topics \ {Unclassified}
  PROVE  /\ Free(Topics, t.topics \cup {Unclassified}) \in Topics
         /\ Free(Topics, t.topics \cup {Unclassified}) \notin t.topics
  <1>1. \E x \in Topics : x \notin t.topics \cup {Unclassified}
    BY DEF Tree
  <1> QED
    BY <1>1 DEF Free

\* Items moved on a tree of which a round takes no more than that it is acyclic.
LEMMA RoundMoves ==
  ASSUME TreeIInv, rounds < MaxRounds,
         NEW t \in Tree, Acyclic(t), AgendaKept(t), SharedBySplit(t),
         NEW S \in SUBSET Items, NEW c \in Topics \cup Groups \cup {Nowhere},
         RoundEnds(Move(t, S, c))
  PROVE  TreeIInv'
  <1> DEFINE u == Move(t, S, c)
  <1>1. u \in Tree /\ SameTopics(t, u)
    BY Moved DEF IsMoved
  <1>2. Acyclic(u)
    BY ItemsMoved
  <1>3. RoundEnds(u)
    OBVIOUS
  <1> HIDE DEF u
  <1>4. AgendaKept(u) /\ SharedBySplit(u)
    BY <1>1, SameTopicsKept
  <1> QED
    BY <1>1, <1>2, <1>3, <1>4, RoundKeeps

\* A round that brings a topic, with the items S below it.
LEMMA RoundAdds ==
  ASSUME TreeIInv, rounds < MaxRounds, saved.topics \ {Unclassified} # Topics \ {Unclassified},
         NEW dyn \in BOOLEAN, NEW refs \in SUBSET Agenda, dyn => refs = {},
         \A a \in refs : Holders(saved, a) = {},
         NEW S \in SUBSET Items, NEW k, k = Free(Topics, saved.topics \cup {Unclassified}),
         RoundEnds(Move(AddTopic(saved, k, dyn, refs, Nowhere), S, k))
  PROVE  TreeIInv'
  <1> DEFINE u == AddTopic(saved, k, dyn, refs, Nowhere)
  <1>1. saved \in Tree /\ Acyclic(saved) /\ AgendaKept(saved) /\ SharedBySplit(saved)
    BY DEF TreeIInv, TreeTypeOK, Sound
  <1>2. k \in Topics /\ k \notin saved.topics
    BY <1>1, FreeTopic
  <1>3. IsTopicAdded(saved, k, dyn, refs, Nowhere, u)
    BY <1>1, <1>2, TopicAdded
  <1>4. RoundEnds(Move(u, S, k))
    OBVIOUS
  <1> HIDE DEF u
  <1>5. u \in Tree /\ Acyclic(u)
    BY <1>1, <1>2, <1>3, TopicAddedShape
  <1>6. AgendaKept(u) /\ SharedBySplit(u)
    BY <1>1, <1>2, <1>3, TopicAddedAgenda
  <1> QED
    BY <1>2, <1>4, <1>5, <1>6, RoundMoves

\* Splitting off S: the two topics share the agenda and the split.
LEMMA SplitSound ==
  ASSUME NEW t \in Tree, Sound(t), NEW from \in t.topics, t.refs[from] # {},
         NEW k \in Topics, k \notin t.topics, NEW split \in Topics, NEW S \in SUBSET Items,
         NEW v, v = [t EXCEPT !.split[from] = split],
         NEW w, IsTopicAdded(v, k, FALSE, v.refs[from], split, w)
  PROVE  Move(w, S, k) \in Tree /\ Sound(Move(w, S, k))
  <1>0. from \in Topics
    BY DEF Tree
  <1>1. /\ v \in Tree /\ v.parent = t.parent /\ v.groups = t.groups /\ v.topics = t.topics
        /\ v.dynamic = t.dynamic /\ v.refs = t.refs
        /\ v.split = [t.split EXCEPT ![from] = split]
    <2>1. [t.split EXCEPT ![from] = split] \in [Topics -> Topics \cup {Nowhere}]
      BY <1>0 DEF Tree
    <2>2. v = [t EXCEPT !.split = [t.split EXCEPT ![from] = split]]
      OBVIOUS
    <2> QED
      BY <2>1, <2>2 DEF Tree
  <1>2. Acyclic(v) /\ Rooted(v)
    BY <1>1 DEF Sound, Acyclic, Rooted
  <1>3. AgendaKept(v)
    <2>1. \A l \in Topics \ {from} : v.split[l] = t.split[l]
      BY <1>1 DEF Tree
    <2> QED
      BY <1>1, <2>1 DEF Sound, AgendaKept
  <1>4. v.refs[from] \in SUBSET Agenda /\ v.refs[from] # {}
    BY <1>0, <1>1 DEF Tree
  <1>5. w \in Tree /\ Acyclic(w) /\ Rooted(w)
    BY <1>1, <1>2, <1>4, TopicAddedShape
  <1>6. AgendaKept(w)
    BY <1>1, <1>3, <1>4, TopicAddedAgenda
  <1>7. k \in w.topics
    BY DEF IsTopicAdded
  <1>8. Move(w, S, k) \in Tree /\ SameTopics(w, Move(w, S, k))
    BY <1>5, Moved DEF IsMoved
  <1>9. AgendaKept(Move(w, S, k))
    BY <1>6, <1>8, SameTopicsKept
  <1> QED
    BY <1>5, <1>7, <1>8, <1>9, ItemsMoved, ItemsMovedRooted DEF Sound

LEMMA TreeStep ==
  ASSUME TreeIInv, [TreeNext]_treeVars
  PROVE  TreeIInv'
  <1>0. /\ saved \in Tree /\ draft \in Tree /\ SharedBySplit(saved)
        /\ Acyclic(saved) /\ Rooted(saved) /\ AgendaKept(saved)
        /\ Acyclic(draft) /\ Rooted(draft) /\ AgendaKept(draft)
    BY DEF TreeIInv, TreeTypeOK, Sound
  <1>l. 0 \in 0..MaxOperations /\ 0 \in 0..0
    BY LimitsAreNat
  <1>f. \A t \in Tree : /\ t.topics \in SUBSET Topics /\ t.groups \in SUBSET Groups
                        /\ t.dynamic \in SUBSET Topics
    BY DEF Tree
  <1>1. CASE RoundDismisses
    <2>1. PICK S \in SUBSET Placed(saved) : RoundEnds(Move(saved, S, Nowhere))
      BY <1>1 DEF RoundDismisses
    <2>2. S \in SUBSET Items /\ rounds < MaxRounds
      BY <1>1 DEF RoundDismisses, BetweenBatches, Placed
    <2> QED
      BY <1>0, <2>1, <2>2, RoundMoves
  <1>2. CASE RoundPlaces
    <2>1. PICK S \in SUBSET Items, c \in saved.topics \cup saved.groups \cup {Unclassified} :
             RoundEnds(Move(saved, S, c))
      BY <1>2 DEF RoundPlaces
    <2>2. c \in Topics \cup Groups \cup {Nowhere} /\ rounds < MaxRounds
      BY <1>0, <1>2, <1>f, PlacesApart DEF RoundPlaces, BetweenBatches
    <2> QED
      BY <1>0, <2>1, <2>2, RoundMoves
  <1>3. CASE RoundMaterializes
    <2> DEFINE k == Free(Topics, saved.topics \cup {Unclassified})
               a == CHOOSE b \in Agenda : Holders(saved, b) = {}
    <2>1. PICK S \in SUBSET Items :
             RoundEnds(Move(AddTopic(saved, k, FALSE, {a}, Nowhere), S, k))
      BY <1>3 DEF RoundMaterializes
    <2>2. a \in Agenda /\ Holders(saved, a) = {}
      BY <1>3 DEF RoundMaterializes
    <2>3. rounds < MaxRounds /\ saved.topics \ {Unclassified} # Topics \ {Unclassified}
      BY <1>3 DEF RoundMaterializes, BetweenBatches
    <2> HIDE DEF a
    <2>4. {a} \in SUBSET Agenda /\ \A b \in {a} : Holders(saved, b) = {}
      BY <2>2
    <2> QED
      BY <2>1, <2>3, <2>4, RoundAdds
  <1>4. CASE RoundPromotes
    <2> DEFINE k == Free(Topics, saved.topics \cup {Unclassified})
    <2>1. PICK S \in SUBSET Items : RoundEnds(Move(AddTopic(saved, k, TRUE, {}, Nowhere), S, k))
      BY <1>4 DEF RoundPromotes
    <2>2. rounds < MaxRounds /\ saved.topics \ {Unclassified} # Topics \ {Unclassified}
      BY <1>4 DEF RoundPromotes, BetweenBatches
    <2> QED
      BY <2>1, <2>2, RoundAdds
  <1>5. CASE RoundMerges
    <2>1. PICK from \in saved.dynamic, into \in saved.topics :
             saved.refs[into] # {} /\ RoundEnds(Merged(saved, from, into))
      BY <1>5 DEF RoundMerges
    <2>2. from \in Topics /\ into \in Topics /\ from # into
      BY <1>0, <1>f, <2>1 DEF AgendaKept
    <2> DEFINE u == Merged(saved, from, into)
    <2>3. IsMerged(saved, from, into, u)
      BY <1>0, <2>2, MergedFields
    <2>4. RoundEnds(u) /\ rounds < MaxRounds
      BY <1>5, <2>1 DEF RoundMerges, BetweenBatches
    <2> HIDE DEF u
    <2>5. u \in Tree /\ Acyclic(u) /\ AgendaKept(u)
      BY <1>0, <2>2, <2>3, MergedSound DEF Sound
    <2>6. SharedBySplit(u)
      BY <1>0, <2>2, <2>3, MergedDynamicShares
    <2> QED
      BY <2>4, <2>5, <2>6, RoundKeeps
  <1>6. CASE RoundGroups
    <2>1. PICK k \in saved.topics, S \in SUBSET Items : RoundEnds(AddGroup(saved, k, S))
      BY <1>6 DEF RoundGroups
    <2>2. saved.groups # Groups /\ rounds < MaxRounds
      BY <1>6 DEF RoundGroups, BetweenBatches
    <2> DEFINE u == AddGroup(saved, k, S)
    <2>3. u \in Tree /\ SameTopics(saved, u) /\ Acyclic(u)
      BY <1>0, <2>2, GroupAdded
    <2>4. RoundEnds(u)
      BY <2>1
    <2> HIDE DEF u
    <2>5. AgendaKept(u) /\ SharedBySplit(u)
      BY <1>0, <2>3, SameTopicsKept
    <2> QED
      BY <2>2, <2>3, <2>4, <2>5, RoundKeeps
  <1>7. CASE CreateGroup
    <2>1. PICK p \in draft.topics \cup draft.groups, S \in SUBSET Items :
             /\ draft.groups # Groups /\ Applies(AddGroup(draft, p, S)) /\ created' = created
      BY <1>7 DEF CreateGroup, CanGroup, Details
    <2> DEFINE u == AddGroup(draft, p, S)
    <2>2. u \in Tree /\ SameTopics(draft, u) /\ Acyclic(u) /\ Rooted(u)
      BY <1>0, <2>1, GroupAdded
    <2>3. Applies(u)
      BY <2>1
    <2> HIDE DEF u
    <2>4. Sound(u)
      BY <1>0, <2>2, SameTopicsKept DEF Sound
    <2> QED
      BY <2>1, <2>2, <2>3, <2>4, AppliesKeeps
  <1>8. CASE MoveNodes
    <2>1. PICK S \in SUBSET Items, c \in draft.topics \cup draft.groups :
             Applies(Move(draft, S, c)) /\ created' = created
      BY <1>8 DEF MoveNodes, Placed
    <2>2. c \in Topics \cup Groups \cup {Nowhere}
      BY <1>0, <1>f
    <2> DEFINE u == Move(draft, S, c)
    <2>3. u \in Tree /\ SameTopics(draft, u)
      BY <1>0, <2>2, Moved DEF IsMoved
    <2>4. Acyclic(u) /\ Rooted(u) /\ Applies(u)
      BY <1>0, <2>1, <2>2, ItemsMoved, ItemsMovedRooted
    <2> HIDE DEF u
    <2>5. Sound(u)
      BY <1>0, <2>3, <2>4, SameTopicsKept DEF Sound
    <2> QED
      BY <2>1, <2>3, <2>4, <2>5, AppliesKeeps
  <1>9. CASE DeleteEmptyGroup
    <2>1. PICK g \in draft.groups :
             /\ Children(draft, g) = {} /\ created' = created
             /\ Applies(Move([draft EXCEPT !.groups = @ \ {g}, !.dip[g] = 0], {g}, Nowhere))
      BY <1>9 DEF DeleteEmptyGroup
    <2> DEFINE u == Move([draft EXCEPT !.groups = @ \ {g}, !.dip[g] = 0], {g}, Nowhere)
    <2>2. u \in Tree /\ Sound(u)
      BY <1>0, <2>1, GroupDeleted DEF Sound
    <2>3. Applies(u)
      BY <2>1
    <2> HIDE DEF u
    <2> QED
      BY <2>1, <2>2, <2>3, AppliesKeeps
  <1>10. CASE CreateTopic
    <2> DEFINE k == Free(Topics, draft.topics \cup {Unclassified})
               u == AddTopic(draft, k, TRUE, {}, Nowhere)
    <2>1. /\ draft.topics \ {Unclassified} # Topics \ {Unclassified}
          /\ Applies(u) /\ created' = created + 1
      BY <1>10 DEF CreateTopic
    <2>2. k \in Topics /\ k \notin draft.topics
      BY <1>0, <2>1, FreeTopic
    <2> HIDE DEF k
    <2>3. IsTopicAdded(draft, k, TRUE, {}, Nowhere, u)
      BY <1>0, <2>2, TopicAdded
    <2> HIDE DEF u
    <2>4. u \in Tree /\ Sound(u)
      BY <1>0, <2>2, <2>3, TopicAddedShape, TopicAddedAgenda DEF Sound
    <2> QED
      BY <2>1, <2>4, AppliesKeeps
  <1>11. CASE MergeTopic
    <2>1. PICK from \in draft.topics, into \in draft.topics :
             from # into /\ Applies(Merged(draft, from, into)) /\ created' = created
      BY <1>11 DEF MergeTopic
    <2>2. from \in Topics /\ into \in Topics
      BY <1>0, <1>f
    <2> DEFINE u == Merged(draft, from, into)
    <2>3. IsMerged(draft, from, into, u)
      BY <1>0, <2>1, <2>2, MergedFields
    <2>4. Applies(u)
      BY <2>1
    <2> HIDE DEF u
    <2>5. u \in Tree /\ Sound(u)
      BY <1>0, <2>1, <2>2, <2>3, MergedSound DEF Sound
    <2> QED
      BY <2>1, <2>4, <2>5, AppliesKeeps
  <1>12. CASE SplitTopic
    <2> DEFINE k == Free(Topics, draft.topics \cup {Unclassified})
               split(from) == IF draft.split[from] = Nowhere THEN from ELSE draft.split[from]
               v(from) == [draft EXCEPT !.split[from] = split(from)]
               w(from) == AddTopic(v(from), k, FALSE, v(from).refs[from], split(from))
    <2>1. PICK from \in draft.topics, S \in SUBSET Items :
             /\ draft.refs[from] # {} /\ created' = created
             /\ Applies(Move(AddTopic(v(from), k, FALSE, draft.refs[from], split(from)), S, k))
      BY <1>12 DEF SplitTopic, Details
    <2>2. k \in Topics /\ k \notin draft.topics
      BY <1>0, <1>12, FreeTopic DEF SplitTopic
    <2>3. split(from) \in Topics /\ v(from).refs = draft.refs
      BY <1>0 DEF Tree
    <2> HIDE DEF k, split
    <2>4. Applies(Move(w(from), S, k))
      BY <2>1, <2>3
    <2>5. v(from) \in Tree /\ v(from).refs[from] \in SUBSET Agenda
      <3>1. [draft.split EXCEPT ![from] = split(from)] \in [Topics -> Topics \cup {Nowhere}]
        BY <1>0, <1>f, <2>3 DEF Tree
      <3>2. v(from) = [draft EXCEPT !.split = [draft.split EXCEPT ![from] = split(from)]]
        OBVIOUS
      <3> QED
        BY <1>0, <1>f, <3>1, <3>2 DEF Tree
    <2>6. IsTopicAdded(v(from), k, FALSE, v(from).refs[from], split(from), w(from))
      BY <2>2, <2>3, <2>5, TopicAdded
    <2> HIDE DEF w
    <2>7. Move(w(from), S, k) \in Tree /\ Sound(Move(w(from), S, k))
      BY <1>0, <2>1, <2>2, <2>3, <2>6, SplitSound DEF Sound
    <2> QED
      BY <2>1, <2>4, <2>7, AppliesKeeps
  <1>13. CASE BatchAdopted
    <2> DEFINE built == Assemble(draft, 0)
    <2>1. /\ Integrity(built) /\ saved' = built /\ draft' = built
          /\ applied' = 0 /\ created' = 0 /\ due' = FALSE 
          /\ UNCHANGED <<rounds, planned, retired, flaws>>
      BY <1>13 DEF BatchAdopted
    <2>2. IsAssembled(draft, built)
      BY <1>0, Assembled
    <2> HIDE DEF built
    <2>3. built \in Tree /\ Sound(built)
      BY <1>0, <2>2, AssembledIsTree, AssembledAcyclic, AssembledRooted, AssembledAgenda DEF Sound
    <2>4. TreeTypeOK' /\ RejectedForRetiredOnly'
      BY <1>l, <2>1, <2>3 DEF TreeIInv, TreeTypeOK, RejectedForRetiredOnly
    <2>5. SharedBySplit(built)
      BY <2>1, IntegrityIs
    <2> QED
      BY <2>1, <2>3, <2>4, <2>5 DEF TreeIInv
  <1>14. CASE BatchDiscarded
    <2>1. /\ draft' = saved /\ applied' = 0 /\ created' = 0 /\ due' = FALSE
          /\ UNCHANGED <<saved, rounds, planned, retired, flaws>>
      BY <1>14 DEF BatchDiscarded
    <2>2. TreeTypeOK' /\ RejectedForRetiredOnly'
      BY <1>l, <2>1 DEF TreeIInv, TreeTypeOK, RejectedForRetiredOnly
    <2>3. Sound(saved)' /\ Sound(draft)' /\ SharedBySplit(saved)' /\ Integrity(saved)'
      BY <2>1 DEF TreeIInv
    <2> QED
      BY <2>2, <2>3 DEF TreeIInv
  <1>15. CASE RoundBootstraps
    <2> DEFINE k == Free(Topics, saved.topics \cup {Unclassified})
               one == AddTopic(saved, k, TRUE, {}, Nowhere)
    <2>1. PICK S \in SUBSET Items : \E R \in SUBSET Items :
             RoundEnds(Move(AddTopic(Move(one, S, k), Free(Topics, Move(one, S, k).topics \cup {Unclassified}),
                                     TRUE, {}, Nowhere),
                            R, Free(Topics, Move(one, S, k).topics \cup {Unclassified})))
      BY <1>15 DEF RoundBootstraps
    <2> DEFINE first == Move(one, S, k)
               l == Free(Topics, first.topics \cup {Unclassified})
               two == AddTopic(first, l, TRUE, {}, Nowhere)
    <2>2. PICK R \in SUBSET Items : RoundEnds(Move(two, R, l))
      BY <2>1
    <2>3. rounds < MaxRounds /\ saved.topics \subseteq {Unclassified}
      BY <1>15 DEF RoundBootstraps, BetweenBatches
    <2>4. \E x, y \in Topics \ {Unclassified} : x # y
      BY <1>15 DEF RoundBootstraps
    <2>5. k \in Topics /\ k \notin saved.topics
      BY <2>3, <2>4 DEF Free
    <2> HIDE DEF k
    <2>6. IsTopicAdded(saved, k, TRUE, {}, Nowhere, one)
      BY <1>0, <2>5, TopicAdded
    <2> HIDE DEF one
    <2>7. one \in Tree /\ Acyclic(one) /\ AgendaKept(one) /\ SharedBySplit(one)
      <3>1. one \in Tree /\ Acyclic(one)
        BY <1>0, <2>5, <2>6, TopicAddedShape
      <3>2. AgendaKept(one) /\ SharedBySplit(one)
        BY <1>0, <2>5, <2>6, DynamicAdded
      <3> QED
        BY <3>1, <3>2
    <2>8. first \in Tree /\ SameTopics(one, first) /\ Acyclic(first)
      BY <2>5, <2>7, Moved, ItemsMoved DEF IsMoved
    <2> HIDE DEF first
    <2>9. AgendaKept(first) /\ SharedBySplit(first) /\ first.topics \subseteq {Unclassified, k}
      BY <2>3, <2>6, <2>7, <2>8, SameTopicsKept DEF IsTopicAdded, SameTopics
    <2>10. l \in Topics /\ l \notin first.topics
      BY <2>4, <2>9 DEF Free
    <2> HIDE DEF l
    <2>11. IsTopicAdded(first, l, TRUE, {}, Nowhere, two)
      BY <2>8, <2>10, TopicAdded
    <2> HIDE DEF two
    <2>12. two \in Tree /\ Acyclic(two) /\ AgendaKept(two) /\ SharedBySplit(two)
      <3>1. two \in Tree /\ Acyclic(two)
        BY <2>8, <2>10, <2>11, TopicAddedShape
      <3>2. AgendaKept(two) /\ SharedBySplit(two)
        BY <2>8, <2>9, <2>10, <2>11, DynamicAdded
      <3> QED
        BY <3>1, <3>2
    <2> QED
      BY <2>2, <2>3, <2>10, <2>12, RoundMoves
  <1>16. CASE AgendaPlanned
    <2>1. planned' = TRUE /\ UNCHANGED <<saved, draft, applied, created, rounds, due, retired, flaws>>
      BY <1>16 DEF AgendaPlanned
    <2> QED
      BY <2>1 DEF TreeIInv, TreeTypeOK, RejectedForRetiredOnly
  <1>17. CASE UNCHANGED treeVars
    BY <1>17 DEF treeVars, TreeIInv, TreeTypeOK, RejectedForRetiredOnly
  <1> QED
    BY <1>1, <1>2, <1>3, <1>4, <1>5, <1>6, <1>7, <1>8, <1>9, <1>10, <1>11, <1>12, <1>13, <1>14,
       <1>15, <1>16, <1>17 DEF TreeNext

LEMMA TreeStart == ASSUME TreeInit PROVE TreeIInv
  <1>1. TreeTypeOK
    <2>1. 0 \in 0..MaxOperations /\ 0 \in 0..0 /\ 0 \in 0..MaxRounds
      BY LimitsAreNat
    <2>2. saved \in Tree /\ draft \in Tree
      BY EmptyTree DEF TreeInit
    <2> QED
      BY <2>1, <2>2 DEF TreeInit, TreeTypeOK
  <1> QED
    BY <1>1, EmptyTree DEF TreeInit, TreeIInv, RejectedForRetiredOnly

-----------------------------------------------------------------------------
(***************************************************************************)
(* Every tree the rounds save and every draft the operations leave is      *)
(* sound: no cycle, every chain of containers ends at a topic, agenda only *)
(* on topics of the tree that are not dynamic.  This holds through the     *)
(* removals of a round, which come after the assembly, and is what limits  *)
(* the flaws they can leave to empty groups and the one edge.              *)
(***************************************************************************)
THEOREM TreeInvariant == TreeSpec => []TreeIInv
  BY TreeStart, TreeStep, PTL DEF TreeSpec

\* Readers are shown trees that pass validateTreeIntegrity, and what assembleTree
\* makes of any prefix of a batch is a forest within the depth, without empty groups.
THEOREM ShownTreesAreSound == TreeSpec => []ShownTreeIsSound
  <1>1. TreeIInv => ShownTreeIsSound
    <2> SUFFICES ASSUME TreeIInv PROVE ShownTreeIsSound
      OBVIOUS
    <2>1. draft \in Tree /\ Acyclic(draft)
      BY DEF TreeIInv, TreeTypeOK, Sound
    <2>2. IsAssembled(draft, Assemble(draft, 0))
      BY <2>1, Assembled
    <2>3. IsForest(Assemble(draft, 0))
      BY <2>1, <2>2, AssembledIsForest
    <2> QED
      BY <2>3 DEF TreeIInv, ShownTreeIsSound
  <1> QED
    BY <1>1, TreeInvariant, PTL

\* A round is rejected only when it removed details after the assembly, and only for
\* a group they left empty or the edge of the Unclassified they emptied.
THEOREM RoundsFailForRetiredOnly == TreeSpec => []RejectedForRetiredOnly
  <1>1. TreeIInv => RejectedForRetiredOnly
    BY DEF TreeIInv
  <1> QED
    BY <1>1, TreeInvariant, PTL

\* No operation of a batch leaves a detail or a group without a topic.
THEOREM BatchesOrphanNothing == TreeSpec => []OperationsOrphanNothing
  <1>1. TreeIInv => OperationsOrphanNothing
    <2> SUFFICES ASSUME TreeIInv, NEW n \in Placed(draft) \cup draft.groups
                 PROVE  TopicOf(draft, n) # Nowhere
      BY DEF OperationsOrphanNothing
    <2>1. draft \in Tree /\ Acyclic(draft) /\ Rooted(draft)
      BY DEF TreeIInv, TreeTypeOK, Sound
    <2>2. TopicOf(draft, n) \in draft.topics
      BY <2>1, RootedReaches
    <2> QED
      BY <2>1, <2>2, PlacesApart DEF Tree
  <1> QED
    BY <1>1, TreeInvariant, PTL
=============================================================================
