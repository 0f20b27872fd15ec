---------------------------- MODULE DiscussionTree ----------------------------
(***************************************************************************)
(* The discussion tree: topics under the root, groups nested below topics, *)
(* details (items) below either.  A live round merges items into the tree, *)
(* the reorganizer edits it with a batch of operations.  Both put the tree *)
(* through assembleTree, which enforces the shape, and end in the integrity*)
(* check, which keeps the previous tree when the new one fails; a round    *)
(* removes details in between, without assembling again.                   *)
(*                                                                         *)
(* Labels are left out, and with them renaming and what is rejected for    *)
(* its label; an operation that is rejected changes nothing and is no      *)
(* step.  Where wording decides (which topic an item belongs to, whether   *)
(* items share a subject) the model chooses.                               *)
(***************************************************************************)
EXTENDS Naturals, FiniteSets

CONSTANTS
    Items, Groups, Agenda,   \* Groups: as many as maxGroupsPerMeeting
    Topics, Unclassified, Nowhere,
    SoftMaxDepth, HardMaxDepth, GroupingFrom, HardDepthEvidence,
    PromotionMinItems, MaxGroupsPerTopic, MaxDynamicTopics, GraceVersions,
    MaxOperations,           \* bound: operations applied in one batch
    MaxRounds                \* bound: live rounds

ASSUME TreeAssumption ==
    /\ Unclassified \in Topics /\ Nowhere \notin Items \cup Groups \cup Topics
    /\ Items \cap Groups = {} /\ Items \cap Topics = {} /\ Groups \cap Topics = {}
    /\ IsFiniteSet(Items \cup Groups \cup Topics)
    /\ {SoftMaxDepth, HardMaxDepth, GroupingFrom, HardDepthEvidence, PromotionMinItems,
        MaxGroupsPerTopic, MaxDynamicTopics, GraceVersions, MaxOperations, MaxRounds}
           \subseteq Nat \ {0}
    /\ HardMaxDepth > 1      \* a topic may hold details

VARIABLES
    saved,    \* the tree of the payload
    draft,    \* the tree the reorganizer is editing
    applied,  \* operations of its batch applied so far
    created,  \* dynamic topics among them
    rounds,   \* live rounds so far
    due,      \* the reorganizer has not run on the tree of the last round
    planned,  \* the meeting's agenda is known
    retired,  \* the details the last round removed from the assembled tree
    flaws     \* what the integrity check found in it: the round is degraded

treeVars == <<saved, draft, applied, created, rounds, due, planned, retired, flaws>>

(***************************************************************************)
(* refs and split are AgendaRefs and AgendaSplitGroupID of a topic, dip of *)
(* a group counts the versions in which it held one detail only.           *)
(***************************************************************************)
NoTree == [topics |-> {}, groups |-> {}, dynamic |-> {},
           parent |-> [n \in Items \cup Groups |-> Nowhere],
           refs |-> [k \in Topics |-> {}], split |-> [k \in Topics |-> Nowhere],
           dip |-> [g \in Groups |-> 0]]

Tree == [topics : SUBSET Topics, groups : SUBSET Groups, dynamic : SUBSET Topics,
         parent : [Items \cup Groups -> Topics \cup Groups \cup {Nowhere}],
         refs : [Topics -> SUBSET Agenda], split : [Topics -> Topics \cup {Nowhere}],
         dip : [Groups -> 0..GraceVersions]]

Flaw == {"OrphanNode", "HardDepth", "EmptyGroup", "SharedAgenda", "EdgeMismatch"}

TreeTypeOK ==
    /\ saved \in Tree /\ draft \in Tree
    /\ applied \in 0..MaxOperations /\ created \in 0..applied /\ rounds \in 0..MaxRounds
    /\ due \in BOOLEAN /\ planned \in BOOLEAN
    /\ retired \in SUBSET Items /\ flaws \in SUBSET Flaw

TreeInit ==
    /\ saved = NoTree /\ draft = NoTree
    /\ applied = 0 /\ created = 0 /\ rounds = 0 /\ due = FALSE
    /\ planned = FALSE /\ retired = {} /\ flaws = {}

-----------------------------------------------------------------------------
Placed(t) == {i \in Items : t.parent[i] # Nowhere}
Children(t, c) == {n \in Placed(t) \cup t.groups : t.parent[n] = c}

\* The containers above n, nearest first the chain climbs; Nowhere if it breaks.
TopicOf(t, n) ==
    LET up[m \in Items \cup Groups \cup Topics \cup {Nowhere}] ==
            IF m \in t.topics \cup {Nowhere} THEN m
            ELSE IF m \in Topics THEN Nowhere ELSE up[t.parent[m]]
    IN  up[n]

Depth(t, n) ==
    LET down[m \in Items \cup Groups \cup Topics \cup {Nowhere}] ==
            IF m = Nowhere THEN 0 ELSE IF m \in Topics THEN 1 ELSE 1 + down[t.parent[m]]
    IN  down[n]

(***************************************************************************)
(* assembleTree.  Groups whose chain does not reach a topic, or that lie   *)
(* too deep, are dropped and their details climb past them; a detail with  *)
(* no container goes below Unclassified.  Empty groups dissolve at once, a *)
(* group with one detail after the grace; age is the number of versions    *)
(* since the previous assembly.                                            *)
(***************************************************************************)
ValidGroups(t) == {g \in t.groups : TopicOf(t, g) # Nowhere /\ Depth(t, g) < HardMaxDepth}

Climb(t, keep, n) ==
    LET up[m \in Items \cup Groups \cup Topics \cup {Nowhere}] ==
            IF m \in t.topics \cup keep THEN m
            ELSE IF m \in Topics \cup {Nowhere} THEN Unclassified ELSE up[t.parent[m]]
    IN  up[t.parent[n]]

Below(t, g) ==
    {i \in Placed(t) :
        LET under[m \in Items \cup Groups] ==
                t.parent[m] = g \/ (t.parent[m] \in t.groups /\ under[t.parent[m]])
        IN  under[i]}

Assemble(t, age) ==
    LET valid == ValidGroups(t)
        lone == {g \in valid : Cardinality(Below(t, g)) = 1}
        kept == {g \in valid : Below(t, g) # {}}
                  \ {g \in lone : t.dip[g] > 0 /\ t.dip[g] + age > GraceVersions}
        parent == [n \in Items \cup Groups |->
                     IF n \in Items \cup kept /\ t.parent[n] # Nowhere THEN Climb(t, kept, n)
                     ELSE Nowhere]
        rescued == {n \in Items \cup kept : parent[n] = Unclassified}
        topics == (t.topics \ {Unclassified}) \cup (IF rescued = {} THEN {} ELSE {Unclassified})
    IN  [t EXCEPT !.topics = topics, !.groups = kept, !.parent = parent,
                  !.dynamic = @ \cap topics,
                  !.refs = [k \in Topics |-> IF k \in topics THEN @[k] ELSE {}],
                  !.split = [k \in Topics |-> IF k \in topics THEN @[k] ELSE Nowhere],
                  !.dip = [g \in Groups |->
                             IF g \notin kept \cap lone THEN 0
                             ELSE IF @[g] = 0 THEN 1 ELSE @[g] + age]]

-----------------------------------------------------------------------------
(***************************************************************************)
(* validateTreeIntegrity: parents resolve, nothing is too deep, no group   *)
(* is empty, topics that share an agenda came from one split, and the list *)
(* of edges agrees with the parents.  The edges are derived from the       *)
(* parents and kept in step with them, but for one left over (stray).      *)
(***************************************************************************)
Holders(t, a) == {k \in t.topics : a \in t.refs[k]}

SharedBySplit(t) ==
    \A a \in Agenda : \A k, l \in Holders(t, a) :
        k # l => t.split[k] = t.split[l] /\ t.split[k] # Nowhere

Flaws(t, stray) ==
    LET nodes == Placed(t) \cup t.groups
        Found(f) == CASE f = "OrphanNode" -> \E n \in nodes : TopicOf(t, n) = Nowhere
                      [] f = "HardDepth" -> \E n \in nodes : Depth(t, n) > HardMaxDepth
                      [] f = "EmptyGroup" -> \E g \in t.groups : Children(t, g) = {}
                      [] f = "SharedAgenda" -> ~SharedBySplit(t)
                      [] f = "EdgeMismatch" -> stray
    IN  {f \in Flaw : Found(f)}

Integrity(t) == Flaws(t, FALSE) = {}

\* Mutant: the tree of the round is taken as it is.
CandidateTaken(candidate, found) == candidate

\* preserveTreeOnIntegrityFailure: the previous tree, or else the skeleton.
Selected(candidate, found) ==
    IF found = {} THEN candidate ELSE IF Integrity(saved) THEN saved ELSE NoTree

Move(t, S, c) == [t EXCEPT !.parent = [n \in Items \cup Groups |-> IF n \in S THEN c ELSE @[n]]]
Free(ids, used) == CHOOSE x \in ids : x \notin used
AddTopic(t, k, dyn, refs, split) ==
    [t EXCEPT !.topics = @ \cup {k}, !.dynamic = IF dyn THEN @ \cup {k} ELSE @ \ {k},
              !.refs[k] = refs, !.split[k] = split]
AddGroup(t, p, S) ==
    LET g == Free(Groups, t.groups)
    IN  Move(Move([t EXCEPT !.groups = @ \cup {g}], {g}, p), S, g)

Details(t, c) == Children(t, c) \cap Items

\* The split group of the merged topic, if the two are not of different ones.
MergedSplit(t, from, into) ==
    IF t.split[into] = Nowhere THEN t.split[from]
    ELSE IF t.split[from] \in {Nowhere, t.split[into]} THEN t.split[into] ELSE Nowhere

\* Mutant: the groups of the merged topic stay with it.
DetailsOnly(t, from) == Details(t, from)

Inherited(t, from) == Children(t, from)

Merged(t, from, into) ==
    LET refs == t.refs[into] \cup t.refs[from]
        moved == Move(t, Inherited(t, from), into)
    IN  [moved EXCEPT !.topics = @ \ {from},
                      !.dynamic = @ \ ({from} \cup (IF refs = {} THEN {} ELSE {into})),
                      !.refs = [@ EXCEPT ![into] = refs, ![from] = {}],
                      !.split = [@ EXCEPT ![into] = MergedSplit(t, from, into), ![from] = Nowhere]]

-----------------------------------------------------------------------------
(***************************************************************************)
(* A live round: mergeLiveAnalysisDiff from rebuildDiscussionTree on.  A   *)
(* round changes the place of one set of items (RoundBootstraps: two);     *)
(* then groups of little information with one detail dissolve (weak), the  *)
(* tree is assembled, and topics with agenda that are empty leave unless   *)
(* something keeps them for now (young: their grace, a relation).  The     *)
(* corrections and supersessions found in the same round then remove       *)
(* details from the assembled tree (out), and what they leave empty of     *)
(* dynamic topics and Unclassified leaves too: Unclassified without its    *)
(* edge, and a group not at all.                                           *)
(***************************************************************************)
Dissolve(t, weak) ==
    [t EXCEPT !.groups = @ \ weak,
              !.parent = [n \in Items \cup Groups |->
                            IF n \in weak THEN Nowhere
                            ELSE IF @[n] \in weak THEN @[@[n]] ELSE @[n]]]

\* Mutant: a topic that holds groups only counts as empty.
EmptiedOfDetails(t) == {k \in t.topics : Children(t, k) \cap Items = {}}

Emptied(t) == {k \in t.topics : Children(t, k) = {}}

Without(t, gone) ==
    [t EXCEPT !.topics = @ \ gone, !.dynamic = @ \ gone,
              !.refs = [k \in Topics |-> IF k \in gone THEN {} ELSE @[k]],
              !.split = [k \in Topics |-> IF k \in gone THEN Nowhere ELSE @[k]]]

Weak(t) == {g \in t.groups : \E i \in Placed(t) : Children(t, g) = {i}}

\* The trees rebuildDiscussionTree can make of t.
Rebuilt(t) ==
    LET Assembled == {Assemble(Dissolve(t, weak), 1) : weak \in SUBSET Weak(t)}
        Bare(a) == {k \in Emptied(a) : a.refs[k] # {}}
    IN  UNION {{Without(a, gone) : gone \in SUBSET Bare(a)} : a \in Assembled}

RoundEnds(t) ==
    \E built \in Rebuilt(t) : \E out \in SUBSET Placed(built) :
        LET rest == Move(built, out, Nowhere)
            hollow == Emptied(rest) \cap (rest.dynamic \cup {Unclassified})
            left == Without(rest, hollow)
        IN  /\ retired' = out /\ flaws' = Flaws(left, Unclassified \in hollow)
            /\ saved' = Selected(left, flaws') /\ draft' = saved'
            /\ due' = TRUE /\ rounds' = rounds + 1
            /\ UNCHANGED <<applied, created, planned>>

\* The planned agenda of the meeting becomes known.
AgendaPlanned ==
    /\ ~planned /\ planned' = TRUE
    /\ UNCHANGED <<saved, draft, applied, created, rounds, due, retired, flaws>>

BetweenBatches == applied = 0 /\ rounds < MaxRounds

RoundDismisses ==
    /\ BetweenBatches
    /\ \E S \in SUBSET Placed(saved) \ {{}} : RoundEnds(Move(saved, S, Nowhere))

RoundPlaces ==
    /\ BetweenBatches
    /\ \E S \in SUBSET Items \ {{}}, c \in saved.topics \cup saved.groups \cup {Unclassified} :
         RoundEnds(Move(saved, S, c))

\* An agenda that no topic holds gets one, with the items assigned to it.
RoundMaterializes ==
    /\ BetweenBatches /\ planned /\ saved.topics \ {Unclassified} # Topics \ {Unclassified}
    /\ \E a \in Agenda : Holders(saved, a) = {}
    /\ \E S \in SUBSET Items \ {{}} :
         LET k == Free(Topics, saved.topics \cup {Unclassified})
             a == CHOOSE b \in Agenda : Holders(saved, b) = {}
         IN  RoundEnds(Move(AddTopic(saved, k, FALSE, {a}, Nowhere), S, k))

\* A candidate with enough items that no topic holds becomes a dynamic topic.
RoundPromotes ==
    /\ BetweenBatches /\ saved.topics \ {Unclassified} # Topics \ {Unclassified}
    /\ Cardinality(saved.dynamic) < MaxDynamicTopics
    /\ \E S \in SUBSET Items \ {{}} :
         LET k == Free(Topics, saved.topics \cup {Unclassified})
         IN  /\ \A i \in S : saved.parent[i] \in {Nowhere, Unclassified}
             /\ Cardinality(S) >= PromotionMinItems
             /\ RoundEnds(Move(AddTopic(saved, k, TRUE, {}, Nowhere), S, k))

\* As long as there is neither agenda nor topic, the topics the model proposes
\* are made at once, up to maxEmergingCandidatesPerRound (two); a topic that gets
\* no item is empty and leaves again.
RoundBootstraps ==
    /\ BetweenBatches /\ ~planned /\ saved.topics \subseteq {Unclassified}
    /\ \E k, l \in Topics \ {Unclassified} : k # l
    /\ \E S \in SUBSET Items \ {{}} : \E R \in SUBSET (Items \ S) :
         LET k == Free(Topics, saved.topics \cup {Unclassified})
             first == Move(AddTopic(saved, k, TRUE, {}, Nowhere), S, k)
             l == Free(Topics, first.topics \cup {Unclassified})
         IN  RoundEnds(Move(AddTopic(first, l, TRUE, {}, Nowhere), R, l))

\* mergeEquivalentAgendaDynamicTopics: a dynamic topic that says what a topic with
\* agenda says goes into it.
RoundMerges ==
    /\ BetweenBatches
    /\ \E from \in saved.dynamic, into \in saved.topics :
         saved.refs[into] # {} /\ RoundEnds(Merged(saved, from, into))

\* createSemanticDiscussionGroups, from three related details of a topic on.
RoundGroups ==
    /\ BetweenBatches /\ saved.groups # Groups
    /\ \E k \in saved.topics \ {Unclassified} :
       \E S \in SUBSET (Children(saved, k) \cap Items) :
         Cardinality(S) >= 3 /\ RoundEnds(AddGroup(saved, k, S))

-----------------------------------------------------------------------------
(***************************************************************************)
(* applyTreeOperations: the operations of a batch, one after the other, on *)
(* the draft.  The dynamic topics are counted at the start of the batch    *)
(* and with each one created.                                              *)
(***************************************************************************)
Applies(t) ==
    /\ due /\ applied < MaxOperations
    /\ applied' = applied + 1 /\ draft' = t
    /\ UNCHANGED <<saved, rounds, due, planned, retired, flaws>>

GroupsOf(t, k) == {g \in t.groups : TopicOf(t, g) = k}

CanGroup(t, p, n) ==
    /\ n >= PromotionMinItems
    /\ p \in t.groups =>
         /\ Cardinality(Children(t, p)) >= GroupingFrom
         /\ Cardinality(Children(t, p)) > n
    /\ Depth(t, p) + 2 <= HardMaxDepth
    /\ Depth(t, p) + 2 > SoftMaxDepth => n >= HardDepthEvidence
    /\ t.groups # Groups
    /\ Cardinality(GroupsOf(t, TopicOf(t, p))) < MaxGroupsPerTopic

CreateGroup ==
    \E p \in draft.topics \cup draft.groups : \E S \in SUBSET Details(draft, p) :
        CanGroup(draft, p, Cardinality(S)) /\ Applies(AddGroup(draft, p, S)) /\ UNCHANGED created

MoveNodes ==
    \E S \in SUBSET Placed(draft), c \in draft.topics \cup draft.groups :
        /\ \E i \in S : draft.parent[i] # c
        /\ c \in draft.groups => \A i \in S : TopicOf(draft, i) = TopicOf(draft, c)
        /\ Applies(Move(draft, S, c)) /\ UNCHANGED created

DeleteEmptyGroup ==
    \E g \in draft.groups :
        /\ Children(draft, g) = {}
        /\ Applies(Move([draft EXCEPT !.groups = @ \ {g}, !.dip[g] = 0], {g}, Nowhere)) /\ UNCHANGED created

\* Its companion moves are counted as proposed; what becomes of them is not asked.
CreateTopic ==
    /\ draft.topics \ {Unclassified} # Topics \ {Unclassified}
    /\ Cardinality(saved.dynamic) + created < MaxDynamicTopics
    /\ Applies(AddTopic(draft, Free(Topics, draft.topics \cup {Unclassified}), TRUE, {}, Nowhere))
    /\ created' = created + 1

MergeTopic ==
    \E from \in draft.topics \ {Unclassified}, into \in draft.topics :
        from # into /\ Applies(Merged(draft, from, into)) /\ UNCHANGED created

SplitTopic ==
    /\ draft.topics \ {Unclassified} # Topics \ {Unclassified}
    /\ \E from \in draft.topics \ {Unclassified} : \E S \in SUBSET Details(draft, from) :
         LET k == Free(Topics, draft.topics \cup {Unclassified})
             split == IF draft.split[from] = Nowhere THEN from ELSE draft.split[from]
         IN  /\ draft.refs[from] # {}
             /\ Cardinality(S) >= PromotionMinItems
             /\ Cardinality(Children(draft, from)) > Cardinality(S)
             /\ Applies(Move(AddTopic([draft EXCEPT !.split[from] = split], k, FALSE,
                                      draft.refs[from], split), S, k))
             /\ UNCHANGED created

\* The end of the batch: assembled, and adopted if it passes the check.
BatchAdopted ==
    LET built == Assemble(draft, 0)
    IN  /\ applied > 0 /\ Integrity(built)
        /\ saved' = built /\ draft' = built /\ applied' = 0 /\ created' = 0 /\ due' = FALSE
        /\ UNCHANGED <<rounds, planned, retired, flaws>>

BatchDiscarded ==
    /\ applied > 0 /\ ~Integrity(Assemble(draft, 0))
    /\ draft' = saved /\ applied' = 0 /\ created' = 0 /\ due' = FALSE
    /\ UNCHANGED <<saved, rounds, planned, retired, flaws>>

TreeNext ==
    \/ RoundDismisses \/ RoundPlaces \/ RoundMaterializes \/ RoundPromotes \/ RoundBootstraps
    \/ RoundMerges \/ RoundGroups \/ AgendaPlanned
    \/ CreateGroup \/ MoveNodes \/ DeleteEmptyGroup \/ CreateTopic \/ MergeTopic \/ SplitTopic
    \/ BatchAdopted \/ BatchDiscarded

TreeSpec == TreeInit /\ [][TreeNext]_treeVars

-----------------------------------------------------------------------------
IsForest(t) ==
    /\ \A n \in Placed(t) \cup t.groups : TopicOf(t, n) # Nowhere /\ Depth(t, n) <= HardMaxDepth
    /\ \A g \in t.groups : Children(t, g) # {}

(***************************************************************************)
(* The tree that readers are shown passes the integrity check whatever a   *)
(* round removes or a batch does, and what assembleTree would make of the  *)
(* draft at any point of a batch has its shape: every detail and group     *)
(* under a topic, none too deep, no group empty.                           *)
(***************************************************************************)
ShownTreeIsSound == TreeTypeOK /\ Integrity(saved) /\ IsForest(Assemble(draft, 0))

(***************************************************************************)
(* A round is rejected for the details it removes from the assembled tree  *)
(* and for nothing else: they can leave a group empty, or the edge of an   *)
(* emptied Unclassified; no round orphans a node, exceeds the depth or     *)
(* doubles an agenda, whatever earlier rounds, rejections and batches did. *)
(***************************************************************************)
RejectedForRetiredOnly ==
    /\ flaws \subseteq {"EmptyGroup", "EdgeMismatch"}
    /\ flaws # {} => retired # {}

(***************************************************************************)
(* No operation leaves a detail or a group without a topic, even for the   *)
(* next operation of the batch; the rescue below Unclassified, by which    *)
(* assembleTree would hide it, is for the items of a round only.           *)
(***************************************************************************)
OperationsOrphanNothing ==
    \A n \in Placed(draft) \cup draft.groups : TopicOf(draft, n) # Nowhere
=============================================================================
