-------------------------- MODULE VirtualIpProofs --------------------------
(***************************************************************************)
(* What the operations of node.c preserve and what the handlers of         *)
(* fsm_input.c and fsm.c may leave, for every set of nodes and every       *)
(* assignment of priorities: the list stays a sequence of node ids,        *)
(* without duplicates, in descending order of priority, and a handler      *)
(* turns sound fields into sound fields.  Every model of the virtual IP    *)
(* builds on these lemmas.                                                 *)
(***************************************************************************)
EXTENDS VirtualIp, SequenceTheorems, FiniteSetTheorems, WellFoundedInduction, TLAPS

-----------------------------------------------------------------------------
(* Sequences *)

(* Every non-empty set of naturals has a least element.                    *)
LEMMA LeastElement ==
  ASSUME NEW T \in SUBSET Nat, T # {}
  PROVE  \E least \in T : \A i \in T : least <= i
<1>1. \E least \in T : \A i \in T : ~(<<i, least>> \in OpToRel(<, Nat))
  BY NatLessThanWellFounded, WFMin
<1>2. PICK least \in T : \A i \in T : ~(<<i, least>> \in OpToRel(<, Nat))
  BY <1>1
<1>3. \A i \in T : ~(i < least)
  BY <1>2 DEF OpToRel
<1>4. QED
  BY <1>3

(* The walk of node.c's loops ends, at the first element it looks for or   *)
(* past the last one.                                                      *)
LEMMA WalkStops ==
  ASSUME NEW list \in Seq(Nodes), NEW S
  PROVE  /\ Walk(list, S) \in 1..(Len(list) + 1)
         /\ Walk(list, S) <= Len(list) => list[Walk(list, S)] \in S
         /\ \A j \in 1..(Walk(list, S) - 1) : list[j] \notin S
<1> DEFINE Stops == {i \in 1..(Len(list) + 1) : i <= Len(list) => list[i] \in S}
<1>1. Len(list) \in Nat
  BY LenProperties
<1>2. Len(list) + 1 \in Stops /\ Stops \in SUBSET Nat
  BY <1>1
<1>3. PICK first \in Stops : \A i \in Stops : first <= i
  BY <1>2, LeastElement
<1>4. \A j \in 1..(first - 1) : list[j] \notin S
  BY <1>1, <1>3
<1>5. \E i \in 1..(Len(list) + 1) : /\ i <= Len(list) => list[i] \in S
                                    /\ \A j \in 1..(i - 1) : list[j] \notin S
  BY <1>3, <1>4
<1>6. QED
  BY <1>5 DEF Walk

(* The elements of a sequence with one more inserted.                      *)
LEMMA InsertAtElements ==
  ASSUME NEW S, NEW s \in Seq(S), NEW i \in 1..(Len(s) + 1), NEW e \in S
  PROVE  /\ InsertAt(s, i, e) \in Seq(S)
         /\ Len(InsertAt(s, i, e)) = Len(s) + 1
         /\ \A k \in 1..(Len(s) + 1) :
              InsertAt(s, i, e)[k] = IF k < i THEN s[k] ELSE IF k = i THEN e ELSE s[k - 1]
<1>1. Len(s) \in Nat /\ i \in Int /\ \A k \in 1..Len(s) : s[k] \in S
  BY LenProperties, ElementOfSeq
<1> DEFINE before == SubSeq(s, 1, i - 1)
           after  == SubSeq(s, i, Len(s))
<1>2. /\ before \in Seq(S)
      /\ Len(before) = i - 1
      /\ \A k \in 1..(i - 1) : before[k] = s[k]
  BY <1>1, SubSeqProperties
<1>3. /\ after \in Seq(S)
      /\ Len(after) = Len(s) - i + 1
      /\ \A k \in 1..(Len(s) - i + 1) : after[k] = s[i + k - 1]
  BY <1>1, SubSeqProperties
<1>4. <<e>> \in Seq(S) /\ Len(<<e>>) = 1 /\ <<e>>[1] = e
  OBVIOUS
<1> HIDE DEF before, after
<1>5. /\ before \o <<e>> \in Seq(S)
      /\ Len(before \o <<e>>) = i
      /\ \A k \in 1..i : (before \o <<e>>)[k] = IF k < i THEN s[k] ELSE e
  BY <1>1, <1>2, <1>4, ConcatProperties
<1>6. /\ (before \o <<e>>) \o after \in Seq(S)
      /\ Len((before \o <<e>>) \o after) = Len(s) + 1
      /\ \A k \in 1..(Len(s) + 1) :
           ((before \o <<e>>) \o after)[k] =
             IF k <= i THEN (before \o <<e>>)[k] ELSE after[k - i]
  BY <1>1, <1>3, <1>5, ConcatProperties
<1>7. \A k \in 1..(Len(s) + 1) : k > i => after[k - i] = s[k - 1]
  BY <1>1, <1>3
<1>8. InsertAt(s, i, e) = (before \o <<e>>) \o after
  BY DEF InsertAt, before, after
<1>9. QED
  BY <1>1, <1>5, <1>6, <1>7, <1>8

(* The elements of a sequence with one removed.                            *)
LEMMA RemoveAtElements ==
  ASSUME NEW S, NEW s \in Seq(S), NEW i \in 1..Len(s)
  PROVE  /\ RemoveAt(s, i) \in Seq(S)
         /\ Len(RemoveAt(s, i)) = Len(s) - 1
         /\ \A k \in 1..(Len(s) - 1) :
              RemoveAt(s, i)[k] = IF k < i THEN s[k] ELSE s[k + 1]
<1>1. Len(s) \in Nat /\ i \in Int /\ \A k \in 1..Len(s) : s[k] \in S
  BY LenProperties, ElementOfSeq
<1> DEFINE before == SubSeq(s, 1, i - 1)
           after  == SubSeq(s, i + 1, Len(s))
<1>2. /\ before \in Seq(S)
      /\ Len(before) = i - 1
      /\ \A k \in 1..(i - 1) : before[k] = s[k]
  BY <1>1, SubSeqProperties
<1>3. /\ after \in Seq(S)
      /\ Len(after) = Len(s) - i
      /\ \A k \in 1..(Len(s) - i) : after[k] = s[i + k]
  BY <1>1, SubSeqProperties
<1> HIDE DEF before, after
<1>4. /\ before \o after \in Seq(S)
      /\ Len(before \o after) = Len(s) - 1
      /\ \A k \in 1..(Len(s) - 1) :
           (before \o after)[k] = IF k < i THEN before[k] ELSE after[k - (i - 1)]
  <2>1. /\ before \o after \in Seq(S)
        /\ Len(before \o after) = Len(before) + Len(after)
        /\ \A k \in 1..(Len(before) + Len(after)) :
             (before \o after)[k] = IF k <= Len(before) THEN before[k]
                                                         ELSE after[k - Len(before)]
    BY <1>2, <1>3, ConcatProperties
  <2>2. Len(before) + Len(after) = Len(s) - 1
    BY <1>1, <1>2, <1>3
  <2>3. \A k \in 1..(Len(s) - 1) : k <= Len(before) <=> k < i
    BY <1>1, <1>2
  <2>4. QED
    BY <1>2, <2>1, <2>2, <2>3
<1>5. \A k \in 1..(Len(s) - 1) : k >= i => after[k - (i - 1)] = s[k + 1]
  BY <1>1, <1>3
<1>6. RemoveAt(s, i) = before \o after
  BY DEF RemoveAt, before, after
<1>7. QED
  BY <1>1, <1>2, <1>4, <1>5, <1>6

-----------------------------------------------------------------------------
(* node.c *)

(* node_search answers for membership.                                     *)
LEMMA NodeSearchFinds ==
  ASSUME NEW list \in Seq(Nodes), NEW nodeid
  PROVE  node_search(list, nodeid) <=> \E k \in 1..Len(list) : list[k] = nodeid
<1>1. Len(list) \in Nat
  BY LenProperties
<1>2. /\ Walk(list, {nodeid}) \in 1..(Len(list) + 1)
      /\ Walk(list, {nodeid}) <= Len(list) => list[Walk(list, {nodeid})] \in {nodeid}
      /\ \A j \in 1..(Walk(list, {nodeid}) - 1) : list[j] \notin {nodeid}
  BY WalkStops
<1>3. CASE node_search(list, nodeid)
  <2>1. Walk(list, {nodeid}) \in 1..Len(list) /\ list[Walk(list, {nodeid})] = nodeid
    BY <1>1, <1>2, <1>3 DEF node_search
  <2>2. QED
    BY <1>3, <2>1
<1>4. CASE ~node_search(list, nodeid)
  <2>1. Walk(list, {nodeid}) - 1 = Len(list)
    BY <1>1, <1>2, <1>4 DEF node_search
  <2>2. QED
    BY <1>2, <1>4, <2>1
<1>5. QED
  BY <1>3, <1>4

(* Adding a node keeps the list in order and free of duplicates, and adds  *)
(* that node only.                                                         *)
LEMMA NodeAddKeepsNodeList ==
  ASSUME NEW list \in NodeLists, NEW nodeid \in Nodes
  PROVE  /\ node_add(list, nodeid) \in NodeLists
         /\ ToSet(node_add(list, nodeid)) = ToSet(list) \cup {nodeid}
<1>1. /\ list \in Seq(Nodes) /\ Len(list) \in Nat /\ DOMAIN list = 1..Len(list)
      /\ \A k \in 1..Len(list) : list[k] \in Nodes
  BY LenProperties, ElementOfSeq DEF NodeLists
<1>2. ByPriority(list) /\ NoDuplicates(list)
  BY DEF NodeLists
<1>3. CASE node_search(list, nodeid)
  <2>1. nodeid \in ToSet(list)
    BY <1>1, <1>3, NodeSearchFinds DEF ToSet
  <2>2. QED
    BY <1>3, <2>1 DEF node_add
<1>4. CASE ~node_search(list, nodeid)
  <2> DEFINE NotAbove == {m \in Nodes : Priority[m] <= Priority[nodeid]}
             place    == Walk(list, NotAbove)
             longer   == InsertAt(list, place, nodeid)
  <2>1. /\ place \in 1..(Len(list) + 1)
        /\ place <= Len(list) => list[place] \in NotAbove
        /\ \A j \in 1..(place - 1) : list[j] \notin NotAbove
    BY <1>1, WalkStops
  <2>2. \A k \in 1..Len(list) : list[k] # nodeid
    BY <1>1, <1>4, NodeSearchFinds
  <2>3. node_add(list, nodeid) = longer
    BY <1>4 DEF node_add
  <2>4. \A m \in Nodes : Priority[m] \in Int
    BY PriorityAssumption
  <2>5. \A k \in 1..Len(list) :
          /\ k < place => Priority[list[k]] >= Priority[nodeid]
          /\ k >= place => Priority[nodeid] >= Priority[list[k]]
    BY <1>1, <1>2, <2>1, <2>4 DEF ByPriority
  <2> HIDE DEF place, NotAbove
  <2>6. /\ longer \in Seq(Nodes)
        /\ Len(longer) = Len(list) + 1
        /\ \A k \in 1..(Len(list) + 1) :
             longer[k] = IF k < place THEN list[k]
                         ELSE IF k = place THEN nodeid ELSE list[k - 1]
    <3>1. list \in Seq(Nodes) /\ place \in 1..(Len(list) + 1)
      BY <1>1, <2>1
    <3>2. longer \in Seq(Nodes)
      BY <3>1, InsertAtElements
    <3>3. Len(longer) = Len(list) + 1
      BY <3>1, InsertAtElements
    <3>4. \A k \in 1..(Len(list) + 1) :
             longer[k] = IF k < place THEN list[k]
                         ELSE IF k = place THEN nodeid ELSE list[k - 1]
      BY <3>1, InsertAtElements
    <3>5. QED
      BY <3>2, <3>3, <3>4
  <2> HIDE DEF longer
  <2>7. NoDuplicates(longer)
    BY <1>1, <1>2, <2>1, <2>2, <2>6 DEF NoDuplicates
  <2>8. ByPriority(longer)
    <3> SUFFICES ASSUME NEW i \in 1..Len(longer), NEW j \in 1..Len(longer), i < j
                 PROVE  Priority[longer[i]] >= Priority[longer[j]]
      BY DEF ByPriority
    <3>1. CASE j < place
      BY <1>1, <1>2, <2>1, <2>6, <3>1 DEF ByPriority
    <3>2. CASE j = place
      BY <1>1, <2>1, <2>5, <2>6, <3>2
    <3>3. CASE j > place /\ i < place
      BY <1>1, <1>2, <2>1, <2>6, <3>3 DEF ByPriority
    <3>4. CASE i = place
      BY <1>1, <2>1, <2>5, <2>6, <3>4
    <3>5. CASE i > place
      BY <1>1, <1>2, <2>1, <2>6, <3>5 DEF ByPriority
    <3>6. QED
      BY <1>1, <2>1, <2>6, <3>1, <3>2, <3>3, <3>4, <3>5
  <2>9. ToSet(longer) = ToSet(list) \cup {nodeid}
    <3>1. DOMAIN longer = 1..(Len(list) + 1)
      BY <2>6, LenProperties
    <3>2. \A k \in DOMAIN longer : longer[k] \in ToSet(list) \cup {nodeid}
      <4>1. \A k \in 1..Len(list) : list[k] \in ToSet(list)
        BY <1>1 DEF ToSet
      <4>2. QED
        BY <1>1, <2>1, <2>6, <3>1, <4>1
    <3>3. \A k \in 1..Len(list) :
            \E l \in 1..(Len(list) + 1) : longer[l] = list[k]
      <4> TAKE k \in 1..Len(list)
      <4>1. CASE k < place
        BY <1>1, <2>1, <2>6, <4>1
      <4>2. CASE k >= place
        <5>1. k + 1 \in 1..(Len(list) + 1) /\ longer[k + 1] = list[k]
          BY <1>1, <2>1, <2>6, <4>2
        <5>2. QED
          BY <5>1
      <4>3. QED
        BY <1>1, <2>1, <4>1, <4>2
    <3>4. longer[place] = nodeid
      BY <1>1, <2>1, <2>6
    <3>5. QED
      BY <1>1, <2>1, <3>1, <3>2, <3>3, <3>4 DEF ToSet
  <2>10. QED
    BY <2>3, <2>6, <2>7, <2>8, <2>9 DEF NodeLists
<1>5. QED
  BY <1>3, <1>4

(* Removing a node keeps the list in order and free of duplicates, and     *)
(* removes that node only.                                                 *)
LEMMA NodeRemoveKeepsNodeList ==
  ASSUME NEW list \in NodeLists, NEW nodeid
  PROVE  /\ node_remove(list, nodeid) \in NodeLists
         /\ ToSet(node_remove(list, nodeid)) = ToSet(list) \ {nodeid}
<1>1. /\ list \in Seq(Nodes) /\ Len(list) \in Nat /\ DOMAIN list = 1..Len(list)
      /\ \A k \in 1..Len(list) : list[k] \in Nodes
  BY LenProperties, ElementOfSeq DEF NodeLists
<1>2. ByPriority(list) /\ NoDuplicates(list)
  BY DEF NodeLists
<1>3. CASE ~node_search(list, nodeid)
  <2>1. nodeid \notin ToSet(list)
    BY <1>1, <1>3, NodeSearchFinds DEF ToSet
  <2>2. QED
    BY <1>3, <2>1 DEF node_remove
<1>4. CASE node_search(list, nodeid)
  <2> DEFINE place   == Walk(list, {nodeid})
             shorter == RemoveAt(list, place)
  <2>1. place \in 1..Len(list) /\ list[place] = nodeid
    BY <1>1, <1>4, WalkStops DEF node_search
  <2>2. node_remove(list, nodeid) = shorter
    BY <1>4 DEF node_remove
  <2> HIDE DEF place
  <2>3. /\ shorter \in Seq(Nodes)
        /\ Len(shorter) = Len(list) - 1
        /\ \A k \in 1..(Len(list) - 1) :
             shorter[k] = IF k < place THEN list[k] ELSE list[k + 1]
    BY <1>1, <2>1, RemoveAtElements
  <2> HIDE DEF shorter
  <2>4. NoDuplicates(shorter)
    BY <1>1, <1>2, <2>1, <2>3 DEF NoDuplicates
  <2>5. ByPriority(shorter)
    BY <1>1, <1>2, <2>1, <2>3 DEF ByPriority
  <2>6. ToSet(shorter) = ToSet(list) \ {nodeid}
    <3>1. DOMAIN shorter = 1..(Len(list) - 1)
      BY <2>3, LenProperties
    <3>2. \A k \in DOMAIN shorter : shorter[k] \in ToSet(list) \ {nodeid}
      BY <1>1, <1>2, <2>1, <2>3, <3>1 DEF ToSet, NoDuplicates
    <3>3. \A k \in 1..Len(list) :
            list[k] # nodeid => \E l \in DOMAIN shorter : shorter[l] = list[k]
      <4> SUFFICES ASSUME NEW k \in 1..Len(list), list[k] # nodeid
                   PROVE  \E l \in DOMAIN shorter : shorter[l] = list[k]
        OBVIOUS
      <4>1. CASE k < place
        BY <1>1, <2>1, <2>3, <3>1, <4>1
      <4>2. CASE k > place
        <5>1. k - 1 \in DOMAIN shorter /\ shorter[k - 1] = list[k]
          BY <1>1, <2>1, <2>3, <3>1, <4>2
        <5>2. QED
          BY <5>1
      <4>3. QED
        BY <1>1, <2>1, <4>1, <4>2
    <3>4. QED
      BY <1>1, <3>2, <3>3 DEF ToSet
  <2>7. QED
    BY <2>2, <2>3, <2>4, <2>5, <2>6 DEF NodeLists
<1>5. QED
  BY <1>3, <1>4

(* The head of a list that is not empty is one of its nodes.               *)
LEMMA NodeFirstIsListed ==
  ASSUME NEW list \in Seq(Nodes)
  PROVE  /\ node_first(list) \in Nodes \cup {NoNode}
         /\ list # <<>> => node_first(list) \in ToSet(list)
<1>1. CASE list = <<>>
  BY <1>1 DEF node_first
<1>2. CASE list # <<>>
  <2>1. Len(list) \in Nat \ {0} /\ DOMAIN list = 1..Len(list)
    BY <1>2, EmptySeq, LenProperties
  <2>2. 1 \in 1..Len(list)
    BY <2>1
  <2>3. list[1] \in Nodes
    BY <2>2, ElementOfSeq
  <2>4. QED
    BY <1>2, <2>1, <2>2, <2>3 DEF node_first, ToSet
<1>3. QED
  BY <1>1, <1>2

(* No node of the list has a higher priority than its head.                *)
LEMMA NodeFirstIsHighest ==
  ASSUME NEW list \in NodeLists, NEW m \in ToSet(list)
  PROVE  Priority[node_first(list)] >= Priority[m]
<1>1. PICK k \in 1..Len(list) : list[k] = m
  BY LenProperties DEF ToSet, NodeLists
<1>2. Len(list) \in Nat /\ list \in Seq(Nodes)
  BY LenProperties DEF NodeLists
<1>3. list # <<>> /\ 1 \in 1..Len(list)
  BY <1>1, <1>2, EmptySeq
<1>4. Priority[list[1]] \in Int /\ Priority[list[k]] \in Int
  BY <1>1, <1>2, <1>3, ElementOfSeq, PriorityAssumption
<1>5. Priority[list[1]] >= Priority[list[k]]
  BY <1>1, <1>2, <1>3, <1>4 DEF NodeLists, ByPriority
<1>6. QED
  BY <1>1, <1>3, <1>5 DEF node_first

(* Adding a node changes the head only to that node.                       *)
LEMMA NodeAddFirst ==
  ASSUME NEW list \in NodeLists, NEW nodeid \in Nodes, list # <<>>
  PROVE  node_first(node_add(list, nodeid)) \in {node_first(list), nodeid}
<1>1. list \in Seq(Nodes) /\ Len(list) \in Nat \ {0}
  BY EmptySeq DEF NodeLists
<1>2. CASE node_search(list, nodeid)
  BY <1>2 DEF node_add
<1>3. CASE ~node_search(list, nodeid)
  <2> DEFINE place  == Walk(list, {m \in Nodes : Priority[m] <= Priority[nodeid]})
             longer == InsertAt(list, place, nodeid)
  <2>1. place \in 1..(Len(list) + 1)
    BY <1>1, WalkStops
  <2>2. node_add(list, nodeid) = longer
    BY <1>3 DEF node_add
  <2> HIDE DEF place
  <2>3. /\ longer \in Seq(Nodes)
        /\ Len(longer) = Len(list) + 1
        /\ \A k \in 1..(Len(list) + 1) :
             longer[k] = IF k < place THEN list[k]
                         ELSE IF k = place THEN nodeid ELSE list[k - 1]
    <3>1. list \in Seq(Nodes) /\ place \in 1..(Len(list) + 1)
      BY <1>1, <2>1
    <3>2. longer \in Seq(Nodes)
      BY <3>1, InsertAtElements
    <3>3. Len(longer) = Len(list) + 1
      BY <3>1, InsertAtElements
    <3>4. \A k \in 1..(Len(list) + 1) :
             longer[k] = IF k < place THEN list[k]
                         ELSE IF k = place THEN nodeid ELSE list[k - 1]
      BY <3>1, InsertAtElements
    <3>5. QED
      BY <3>2, <3>3, <3>4
  <2> HIDE DEF longer
  <2>4. longer # <<>>
    BY <1>1, <2>3, EmptySeq
  <2>5. longer[1] \in {list[1], nodeid}
    BY <1>1, <2>1, <2>3
  <2>6. QED
    BY <2>2, <2>4, <2>5 DEF node_first
<1>4. QED
  BY <1>2, <1>3

(* Removing another node than the head does not change the head.           *)
LEMMA NodeRemoveFirst ==
  ASSUME NEW list \in NodeLists, NEW nodeid, node_first(list) # nodeid
  PROVE  node_first(node_remove(list, nodeid)) = node_first(list)
<1>1. list \in Seq(Nodes) /\ Len(list) \in Nat
  BY LenProperties DEF NodeLists
<1>2. CASE ~node_search(list, nodeid)
  BY <1>2 DEF node_remove
<1>3. CASE node_search(list, nodeid)
  <2> DEFINE place   == Walk(list, {nodeid})
             shorter == RemoveAt(list, place)
  <2>1. place \in 1..Len(list) /\ list[place] = nodeid
    BY <1>1, <1>3, WalkStops DEF node_search
  <2>2. node_remove(list, nodeid) = shorter
    BY <1>3 DEF node_remove
  <2> HIDE DEF place
  <2>3. list # <<>> /\ node_first(list) = list[1]
    BY <1>1, <2>1, EmptySeq DEF node_first
  <2>4. place > 1 /\ Len(list) > 1
    BY <1>1, <2>1, <2>3
  <2>5. /\ shorter \in Seq(Nodes)
        /\ Len(shorter) = Len(list) - 1
        /\ \A k \in 1..(Len(list) - 1) :
             shorter[k] = IF k < place THEN list[k] ELSE list[k + 1]
    BY <1>1, <2>1, RemoveAtElements
  <2> HIDE DEF shorter
  <2>6. shorter # <<>> /\ shorter[1] = list[1]
    BY <1>1, <2>1, <2>4, <2>5, EmptySeq
  <2>7. QED
    BY <2>2, <2>3, <2>6 DEF node_first
<1>4. QED
  BY <1>2, <1>3

(* The length of a list without duplicates is the number of its elements.  *)
LEMMA LengthCountsElements ==
  ASSUME NEW list \in NodeLists
  PROVE  list_entries(list) = Cardinality(ToSet(list))
<1>1. /\ list \in Seq(Nodes) /\ Len(list) \in Nat /\ DOMAIN list = 1..Len(list)
      /\ NoDuplicates(list)
  BY LenProperties DEF NodeLists
<1>2. list \in [1..Len(list) -> ToSet(list)]
  <2>1. list = [k \in 1..Len(list) |-> list[k]]
    BY <1>1, SeqDef
  <2>2. \A k \in 1..Len(list) : list[k] \in ToSet(list)
    BY <1>1 DEF ToSet
  <2>3. QED
    BY <2>1, <2>2
<1>3. list \in Bijection(1..Len(list), ToSet(list))
  <2>1. \A a, b \in 1..Len(list) : list[a] = list[b] => a = b
    BY <1>1 DEF NoDuplicates
  <2>2. \A e \in ToSet(list) : \E k \in 1..Len(list) : list[k] = e
    BY <1>1 DEF ToSet
  <2>3. QED
    BY <1>2, <2>1, <2>2 DEF Bijection, Injection, Surjection, IsInjective
<1>4. IsFiniteSet(1..Len(list)) /\ Cardinality(1..Len(list)) = Len(list)
  BY <1>1, FS_Interval
<1>5. ExistsBijection(1..Len(list), ToSet(list))
  BY <1>3 DEF ExistsBijection
<1>6. QED
  BY <1>4, <1>5, FS_Bijection DEF list_entries

-----------------------------------------------------------------------------
(* The virtual_ip_t with a sound list, and what a handler may leave.       *)

SoundVips == [state : States, node_id : Ids, master_id : Ids, rollback_node_id : Ids,
              node_list : NodeLists, member_list : SUBSET Nodes]

StateMessages == [type : {"state"}, nodeid : Nodes, state : States]

Outcomes == [vip : SoundVips, ip : BOOLEAN, sent : Seq(StateMessages)]

EventNames == {"STARTUP", "DUPLICATE", "MASTER_DOWN", "MASTER_UP",
               "BACKUP_DOWN", "BACKUP_UP", "RBACK_REQ", "STOP"}

ActionNames == {"go_up", "error", "go_down", "dup_warn", "act", "react", "observe",
                "noop", "rback_stop", "nodeup", "backupup", "rollback"}

(* A handler run on v neither revives a stopped node, nor leaves an active *)
(* node without the address, nor sets it on a node that is not active.     *)
Contract(v, onDevice, out) ==
  /\ out \in Outcomes
  /\ v.state = "IDLE" => out.vip.state = "IDLE"
  /\ (v.state \in Active => onDevice) => (out.vip.state \in Active => out.ip)
  /\ out.ip => out.vip.state \in Active \/ (onDevice /\ v.state \notin Active)

(* A sound virtual_ip_t is one with the right types and a sound list.      *)
LEMMA SoundVipsAreVips ==
  ASSUME NEW v
  PROVE  v \in SoundVips <=> v \in Vips /\ v.node_list \in NodeLists
BY DEF SoundVips, Vips, NodeLists

(* What Init and go_down leave is sound.                                   *)
LEMMA IdleVipIsSound == IdleVip \in SoundVips
<1>1. <<>> \in NodeLists
  BY EmptySeq DEF NodeLists, ByPriority, NoDuplicates
<1>2. QED
  BY <1>1 DEF IdleVip, SoundVips, States, Ids, NoNode

(* A node announces its state with an event that its peers can handle.     *)
LEMMA SendStateType ==
  ASSUME NEW n \in Nodes, NEW v \in SoundVips, NEW onDevice \in BOOLEAN
  PROVE  /\ virtual_ip_send_state(n, v, onDevice) \in Outcomes
         /\ virtual_ip_send_state(n, v, onDevice).vip = v
         /\ virtual_ip_send_state(n, v, onDevice).ip = onDevice
<1>1. StateMessage(n, v.state) \in StateMessages
  BY DEF StateMessage, StateMessages, SoundVips
<1>2. <<StateMessage(n, v.state)>> \in Seq(StateMessages)
  BY <1>1
<1>3. QED
  BY <1>2 DEF virtual_ip_send_state, Outcomes

(* A handler that sends nothing returns what it is given.                  *)
LEMMA QuietType ==
  ASSUME NEW v \in SoundVips, NEW onDevice \in BOOLEAN
  PROVE  /\ Quiet(v, onDevice) \in Outcomes
         /\ Quiet(v, onDevice).vip = v
         /\ Quiet(v, onDevice).ip = onDevice
<1>1. <<>> \in Seq(StateMessages)
  BY EmptySeq
<1>2. QED
  BY <1>1 DEF Quiet, Outcomes

(* go_down leaves a node without state and without address.                *)
LEMMA GoDownType ==
  ASSUME NEW v
  PROVE  /\ Quiet(go_down(v), FALSE) \in Outcomes
         /\ Quiet(go_down(v), FALSE).vip.state = "IDLE"
         /\ ~Quiet(go_down(v), FALSE).ip
<1>1. FALSE \in BOOLEAN
  OBVIOUS
<1>2. /\ Quiet(IdleVip, FALSE) \in Outcomes
      /\ Quiet(IdleVip, FALSE).vip = IdleVip
      /\ Quiet(IdleVip, FALSE).ip = FALSE
  BY <1>1, IdleVipIsSound, QuietType
<1>3. IdleVip.state = "IDLE"
  BY DEF IdleVip
<1>4. QED
  BY <1>2, <1>3 DEF go_down

(* The lookup table: which action runs in which state.                     *)
LEMMA TableActions ==
  ASSUME NEW event \in EventNames, NEW state \in States
  PROVE  /\ table[event][state] \in ActionNames
         /\ state = "IDLE" => table[event][state] \in {"go_up", "error"}
         /\ table[event][state] = "act" => state = "START"
         /\ table[event][state] = "react" => state = "BACKUP"
         /\ table[event][state] = "observe" => state = "START"
         /\ table[event][state] = "rback_stop" => state = "RBACK"
         /\ table[event][state] = "rollback" => event = "RBACK_REQ" /\ state = "MASTER"
         /\ event = "RBACK_REQ" /\ state = "RBACK" => table[event][state] = "rback_stop"
BY DEF table, EventNames, States, ActionNames

(* Taking the address over, or going down in the attempt.                  *)
LEMMA TakeOverContract ==
  ASSUME NEW n \in Nodes, NEW v \in SoundVips, NEW works \in BOOLEAN
  PROVE  /\ TakeOver(n, v, works) \in Outcomes
         /\ TakeOver(n, v, works).vip.state \in {"MASTER", "IDLE"}
         /\ TakeOver(n, v, works).ip <=> TakeOver(n, v, works).vip.state = "MASTER"
<1>1. [v EXCEPT !.state = "MASTER"] \in SoundVips /\ [v EXCEPT !.state = "MASTER"].state = "MASTER"
  BY DEF SoundVips, States
<1>2. CASE works
  BY <1>1, <1>2, SendStateType DEF TakeOver
<1>3. CASE ~works
  BY <1>3, GoDownType DEF TakeOver
<1>4. QED
  BY <1>2, <1>3

(* Every entry of the lookup table respects the contract.                  *)
LEMMA TransactionContract ==
  ASSUME NEW n \in Nodes, NEW v \in SoundVips, NEW onDevice \in BOOLEAN,
         NEW event \in EventNames, NEW works \in BOOLEAN
  PROVE  Contract(v, onDevice, fsm_do_transaction(n, v, onDevice, event, works))
<1> DEFINE action == table[event][v.state]
           out == fsm_do_transaction(n, v, onDevice, event, works)
<1> SUFFICES Contract(v, onDevice, out)
  OBVIOUS
<1>1. v.state \in States /\ v.node_list \in NodeLists /\ v.node_list \in Seq(Nodes)
  BY DEF SoundVips, NodeLists
<1>2. /\ action \in ActionNames
      /\ v.state = "IDLE" => action \in {"go_up", "error"}
      /\ action = "act" => v.state = "START"
      /\ action = "react" => v.state = "BACKUP"
      /\ action = "observe" => v.state = "START"
      /\ action = "rback_stop" => v.state = "RBACK"
      /\ action = "rollback" => v.state = "MASTER"
  BY <1>1, TableActions
<1> HIDE DEF action
<1>3. out = CASE action = "act"                    -> act(n, v, works)
              [] action = "react"                  -> react(n, v, onDevice, works)
              [] action \in {"nodeup", "backupup"} -> virtual_ip_send_state(n, v, onDevice)
              [] action = "observe"                -> Quiet(observe(v), onDevice)
              [] action = "rollback"               -> Quiet(rollback(v), onDevice)
              [] action = "rback_stop"             -> Quiet(rback_stop(v), onDevice)
              [] action = "go_down"                -> Quiet(go_down(v), FALSE)
              [] OTHER                             -> Quiet(v, onDevice)
  BY DEF fsm_do_transaction, action
<1> HIDE DEF out
<1>4. CASE action = "act"
  <2>1. out = act(n, v, works)
    BY <1>3, <1>4
  <2>2. CASE v.node_id = node_first(v.node_list)
    BY <1>2, <1>4, <2>1, <2>2, TakeOverContract DEF act, Contract, Active
  <2>3. CASE v.node_id # node_first(v.node_list)
    BY <1>2, <1>4, <2>1, <2>3, GoDownType DEF act, Contract, Active
  <2>4. QED
    BY <2>2, <2>3
<1>5. CASE action = "react"
  <2>1. out = react(n, v, onDevice, works)
    BY <1>3, <1>5
  <2>2. CASE v.node_id = node_first(v.node_list)
    BY <1>2, <1>5, <2>1, <2>2, TakeOverContract DEF react, Contract, Active
  <2>3. CASE v.node_id # node_first(v.node_list)
    BY <1>2, <1>5, <2>1, <2>3, QuietType DEF react, Contract, Active
  <2>4. QED
    BY <2>2, <2>3
<1>6. CASE action \in {"nodeup", "backupup"}
  <2>1. out = virtual_ip_send_state(n, v, onDevice)
    BY <1>3, <1>6
  <2>2. QED
    BY <2>1, SendStateType DEF Contract
<1>7. CASE action = "observe"
  <2>1. out = Quiet(observe(v), onDevice)
    BY <1>3, <1>7
  <2>2. observe(v) \in SoundVips /\ observe(v).state = "BACKUP"
    BY DEF observe, SoundVips, States
  <2>3. QED
    BY <1>2, <1>7, <2>1, <2>2, QuietType DEF Contract, Active
<1>8. CASE action = "rollback"
  <2>1. out = Quiet(rollback(v), onDevice)
    BY <1>3, <1>8
  <2>2. node_first(v.node_list) \in Ids
    BY <1>1, NodeFirstIsListed DEF Ids
  <2>3. rollback(v) \in SoundVips /\ rollback(v).state \in {v.state, "RBACK"}
    BY <1>1, <2>2 DEF rollback, SoundVips, States
  <2>4. QED
    BY <1>2, <1>8, <2>1, <2>3, QuietType DEF Contract, Active
<1>9. CASE action = "rback_stop"
  <2>1. out = Quiet(rback_stop(v), onDevice)
    BY <1>3, <1>9
  <2>2. rback_stop(v) \in SoundVips /\ rback_stop(v).state \in {v.state, "MASTER"}
    BY <1>1 DEF rback_stop, SoundVips, States
  <2>3. QED
    BY <1>2, <1>9, <2>1, <2>2, QuietType DEF Contract, Active
<1>10. CASE action = "go_down"
  <2>1. out = Quiet(go_down(v), FALSE)
    BY <1>3, <1>10
  <2>2. QED
    BY <2>1, GoDownType DEF Contract, Active
<1>11. CASE action \in {"go_up", "error", "dup_warn", "noop"}
  <2>1. out = Quiet(v, onDevice)
    BY <1>3, <1>11
  <2>2. QED
    BY <2>1, QuietType DEF Contract
<1>12. QED
  BY <1>2, <1>4, <1>5, <1>6, <1>7, <1>8, <1>9, <1>10, <1>11 DEF ActionNames

(* So does the departure of a node ...                                     *)
LEMMA NodeDownContract ==
  ASSUME NEW n \in Nodes, NEW v \in SoundVips, NEW onDevice \in BOOLEAN,
         NEW nodeid \in Nodes, NEW works \in BOOLEAN
  PROVE  Contract(v, onDevice, fsm_input_node_down(n, v, onDevice, nodeid, works))
<1> DEFINE event == IF v.master_id = nodeid THEN "MASTER_DOWN" ELSE "BACKUP_DOWN"
           left  == [v EXCEPT !.node_list = node_remove(@, nodeid),
                              !.rollback_node_id = IF @ = nodeid THEN NoNode ELSE @]
           out   == fsm_do_transaction(n, left, onDevice, event, works)
<1>1. event \in EventNames
  BY DEF EventNames
<1>2. node_remove(v.node_list, nodeid) \in NodeLists
  BY NodeRemoveKeepsNodeList DEF SoundVips
<1>3. left \in SoundVips /\ left.state = v.state
  BY <1>2 DEF SoundVips, Ids
<1> HIDE DEF event, left
<1>4. Contract(left, onDevice, out)
  BY <1>1, <1>3, TransactionContract
<1>5. Contract(v, onDevice, out)
  BY <1>3, <1>4 DEF Contract
<1>6. QED
  BY <1>5 DEF fsm_input_node_down, event, left

(* ... a state message ...                                                 *)
LEMMA NewStateMessageContract ==
  ASSUME NEW n \in Nodes, NEW v \in SoundVips, NEW onDevice \in BOOLEAN,
         NEW msg, msg.nodeid \in Nodes, NEW works \in BOOLEAN
  PROVE  Contract(v, onDevice, fsm_input_new_state_message(n, v, onDevice, msg, works))
<1> DEFINE heard == Recorded(v, msg)
           event == MessageEvent(n, heard, msg)
           out   == fsm_do_transaction(n, heard, onDevice, event, works)
<1>1. node_add(v.node_list, msg.nodeid) \in NodeLists
  BY NodeAddKeepsNodeList DEF SoundVips
<1>2. heard \in SoundVips /\ heard.state = v.state
  BY <1>1 DEF Recorded, SoundVips, Ids
<1>3. event \in EventNames \cup {"none"}
  BY DEF MessageEvent, EventNames
<1> HIDE DEF heard, event
<1>4. CASE event = "none"
  <2>1. Contract(v, onDevice, Quiet(heard, onDevice))
    BY <1>2, QuietType DEF Contract
  <2>2. QED
    BY <1>4, <2>1 DEF fsm_input_new_state_message, heard, event
<1>5. CASE event \in EventNames
  <2>1. Contract(heard, onDevice, out)
    BY <1>2, <1>5, TransactionContract
  <2>2. Contract(v, onDevice, out)
    BY <1>2, <2>1 DEF Contract
  <2>3. event # "none"
    BY <1>5 DEF EventNames
  <2>4. QED
    BY <2>2, <2>3 DEF fsm_input_new_state_message, heard, event
<1>6. QED
  BY <1>3, <1>4, <1>5

(* ... and every other event of the group, with whatever else the model    *)
(* puts in its messages.                                                   *)
IsGroupEvent(e) ==
  /\ e.type \in {"down", "up", "state"}
  /\ e.type \in {"down", "state"} => e.nodeid \in Nodes
  /\ e.type \in {"down", "up"} => e.member_list \in SUBSET Nodes

(* A dispatch respects the contract.                                       *)
LEMMA DispatchContract ==
  ASSUME NEW n \in Nodes, NEW v \in SoundVips, NEW onDevice \in BOOLEAN,
         NEW e, IsGroupEvent(e), NEW works \in BOOLEAN
  PROVE  Contract(v, onDevice, Dispatch(n, v, onDevice, e, works))
<1>1. CASE e.type = "down"
  <2> DEFINE informed == [v EXCEPT !.member_list = e.member_list]
  <2>1. e.type = "down" /\ e.nodeid \in Nodes /\ e.member_list \in SUBSET Nodes
    BY <1>1 DEF IsGroupEvent
  <2>2. informed \in SoundVips /\ informed.state = v.state
    BY <2>1 DEF SoundVips
  <2> HIDE DEF informed
  <2>3. Contract(informed, onDevice,
                 fsm_input_node_down(n, informed, onDevice, e.nodeid, works))
    BY <2>1, <2>2, NodeDownContract
  <2>4. Contract(v, onDevice, fsm_input_node_down(n, informed, onDevice, e.nodeid, works))
    BY <2>2, <2>3 DEF Contract
  <2>5. Dispatch(n, v, onDevice, e, works)
          = fsm_input_node_down(n, informed, onDevice, e.nodeid, works)
    BY <2>1 DEF Dispatch, informed
  <2>6. QED
    BY <2>4, <2>5
<1>2. CASE e.type = "up"
  <2> DEFINE informed == [v EXCEPT !.member_list = e.member_list]
  <2>1. e.type = "up" /\ e.member_list \in SUBSET Nodes
    BY <1>2 DEF IsGroupEvent
  <2>2. informed \in SoundVips /\ informed.state = v.state
    BY <2>1 DEF SoundVips
  <2>3. "BACKUP_UP" \in EventNames
    BY DEF EventNames
  <2> HIDE DEF informed
  <2>4. Contract(informed, onDevice,
                 fsm_do_transaction(n, informed, onDevice, "BACKUP_UP", works))
    BY <2>2, <2>3, TransactionContract
  <2>5. Contract(v, onDevice, fsm_do_transaction(n, informed, onDevice, "BACKUP_UP", works))
    BY <2>2, <2>4 DEF Contract
  <2>6. Dispatch(n, v, onDevice, e, works)
          = fsm_do_transaction(n, informed, onDevice, "BACKUP_UP", works)
    BY <2>1 DEF Dispatch, fsm_input_node_up, informed
  <2>7. QED
    BY <2>5, <2>6
<1>3. CASE e.type = "state"
  <2>1. e.type = "state" /\ e.nodeid \in Nodes
    BY <1>3 DEF IsGroupEvent
  <2>2. Dispatch(n, v, onDevice, e, works)
          = fsm_input_new_state_message(n, v, onDevice, e, works)
    BY <2>1 DEF Dispatch
  <2>3. QED
    BY <2>1, <2>2, NewStateMessageContract
<1>4. QED
  BY <1>1, <1>2, <1>3 DEF IsGroupEvent

-----------------------------------------------------------------------------
(* What a callback does to the list and the members, and what it sends.    *)

(* What dispatching e makes of the list and the members, unless the node   *)
(* goes down.                                                              *)
Tracks(v, e, w) ==
  /\ w.member_list = IF e.type = "state" THEN v.member_list ELSE e.member_list
  /\ ToSet(w.node_list) = CASE e.type = "down"  -> ToSet(v.node_list) \ {e.nodeid}
                            [] e.type = "state" -> ToSet(v.node_list) \cup {e.nodeid}
                            [] OTHER            -> ToSet(v.node_list)

(* The actions of the state machine leave list and members alone, or reset *)
(* everything; an "up" is answered, and only MASTER_UP makes a backup.     *)
LEMMA TransactionTracks ==
  ASSUME NEW n \in Nodes, NEW v \in SoundVips, NEW onDevice \in BOOLEAN,
         NEW event \in EventNames, NEW works \in BOOLEAN,
         NEW out, out = fsm_do_transaction(n, v, onDevice, event, works)
  PROVE  /\ \/ out.vip = IdleVip
            \/ out.vip.node_list = v.node_list /\ out.vip.member_list = v.member_list
         /\ out.sent = <<>> \/ \E s \in States : out.sent = <<StateMessage(n, s)>>
         /\ event = "BACKUP_UP" /\ v.state # "IDLE" =>
              \E s \in States : out.sent = <<StateMessage(n, s)>>
         /\ v.state = "START" /\ out.vip.state = "BACKUP" => event = "MASTER_UP"
<1> DEFINE action == table[event][v.state]
           Goal == /\ \/ out.vip = IdleVip
                      \/ out.vip.node_list = v.node_list /\ out.vip.member_list = v.member_list
                   /\ out.sent = <<>> \/ \E s \in States : out.sent = <<StateMessage(n, s)>>
                   /\ event = "BACKUP_UP" /\ v.state # "IDLE" =>
                        \E s \in States : out.sent = <<StateMessage(n, s)>>
                   /\ v.state = "START" /\ out.vip.state = "BACKUP" => event = "MASTER_UP"
<1> SUFFICES Goal
  OBVIOUS
<1>1. v.state \in States
  BY DEF SoundVips
<1>2. /\ action \in ActionNames
      /\ event = "BACKUP_UP" /\ v.state # "IDLE" => action \in {"nodeup", "backupup"}
      /\ action = "observe" => event = "MASTER_UP"
  BY <1>1 DEF table, EventNames, States, ActionNames
<1> HIDE DEF action
<1>3. out = CASE action = "act"                    -> act(n, v, works)
              [] action = "react"                  -> react(n, v, onDevice, works)
              [] action \in {"nodeup", "backupup"} -> virtual_ip_send_state(n, v, onDevice)
              [] action = "observe"                -> Quiet(observe(v), onDevice)
              [] action = "rollback"               -> Quiet(rollback(v), onDevice)
              [] action = "rback_stop"             -> Quiet(rback_stop(v), onDevice)
              [] action = "go_down"                -> Quiet(go_down(v), FALSE)
              [] OTHER                             -> Quiet(v, onDevice)
  BY DEF fsm_do_transaction, action
<1>4. /\ Quiet(go_down(v), FALSE).vip = IdleVip /\ Quiet(go_down(v), FALSE).sent = <<>>
      /\ Quiet(go_down(v), FALSE).vip.state = "IDLE"
  BY DEF Quiet, go_down, IdleVip
<1>5. /\ TakeOver(n, v, works).vip = IdleVip
            \/ /\ TakeOver(n, v, works).vip.node_list = v.node_list
               /\ TakeOver(n, v, works).vip.member_list = v.member_list
      /\ TakeOver(n, v, works).sent = <<>>
            \/ \E s \in States : TakeOver(n, v, works).sent = <<StateMessage(n, s)>>
      /\ TakeOver(n, v, works).vip.state # "BACKUP"
  <2>1. CASE works
    BY <2>1 DEF TakeOver, virtual_ip_send_state, SoundVips, States
  <2>2. CASE ~works
    BY <1>4, <2>2 DEF TakeOver
  <2>3. QED
    BY <2>1, <2>2
<1>6. CASE action \in {"act", "react"}
  <2>1. \/ out = TakeOver(n, v, works)
        \/ out = Quiet(go_down(v), FALSE)
        \/ out = Quiet(v, onDevice)
    BY <1>3, <1>6 DEF act, react
  <2>2. QED
    BY <1>2, <1>4, <1>5, <1>6, <2>1 DEF Quiet
<1>7. CASE action \in {"nodeup", "backupup"}
  <2>1. out = virtual_ip_send_state(n, v, onDevice)
    BY <1>3, <1>7
  <2>2. out.vip = v /\ out.sent = <<StateMessage(n, v.state)>>
    BY <2>1 DEF virtual_ip_send_state
  <2>3. QED
    BY <1>1, <2>2
<1>8. CASE action = "observe"
  BY <1>2, <1>3, <1>8 DEF Quiet, observe, SoundVips
<1>9. CASE action = "rollback"
  <2>1. out.vip = rollback(v) /\ out.sent = <<>>
    BY <1>3, <1>9 DEF Quiet
  <2>2. /\ rollback(v).node_list = v.node_list /\ rollback(v).member_list = v.member_list
        /\ rollback(v).state \in {v.state, "RBACK"}
    BY DEF rollback, SoundVips
  <2>3. QED
    BY <1>2, <1>9, <2>1, <2>2
<1>10. CASE action = "rback_stop"
  <2>1. out.vip = rback_stop(v) /\ out.sent = <<>>
    BY <1>3, <1>10 DEF Quiet
  <2>2. /\ rback_stop(v).node_list = v.node_list /\ rback_stop(v).member_list = v.member_list
        /\ rback_stop(v).state \in {v.state, "MASTER"}
    BY DEF rback_stop, SoundVips
  <2>3. QED
    BY <1>2, <1>10, <2>1, <2>2
<1>11. CASE action = "go_down"
  BY <1>2, <1>3, <1>4, <1>11
<1>12. CASE action \in {"go_up", "error", "dup_warn", "noop"}
  BY <1>2, <1>3, <1>12 DEF Quiet
<1>13. QED
  BY <1>2, <1>6, <1>7, <1>8, <1>9, <1>10, <1>11, <1>12 DEF ActionNames

(* A callback follows the group: the list and the members are those of the *)
(* event dispatched, an "up" is answered, and a node in START becomes a    *)
(* backup only on a message with which its list is as long as the group is *)
(* large.                                                                  *)
LEMMA DispatchTracks ==
  ASSUME NEW n \in Nodes, NEW v \in SoundVips, NEW onDevice \in BOOLEAN,
         NEW e, IsGroupEvent(e), NEW works \in BOOLEAN,
         NEW out, out = Dispatch(n, v, onDevice, e, works)
  PROVE  /\ out.vip = IdleVip \/ Tracks(v, e, out.vip)
         /\ out.sent = <<>> \/ \E s \in States : out.sent = <<StateMessage(n, s)>>
         /\ e.type = "up" /\ v.state # "IDLE" =>
              \E s \in States : out.sent = <<StateMessage(n, s)>>
         /\ v.state = "START" /\ out.vip.state = "BACKUP" =>
              /\ e.type = "state"
              /\ list_entries(out.vip.node_list) = member_list_entries(out.vip)
<1>1. CASE e.type = "down"
  <2> DEFINE informed == [v EXCEPT !.member_list = e.member_list]
             event == IF informed.master_id = e.nodeid THEN "MASTER_DOWN" ELSE "BACKUP_DOWN"
             left  == [informed EXCEPT !.node_list = node_remove(@, e.nodeid),
                              !.rollback_node_id = IF @ = e.nodeid THEN NoNode ELSE @]
  <2>1. e.type = "down" /\ e.nodeid \in Nodes /\ e.member_list \in SUBSET Nodes
    BY <1>1 DEF IsGroupEvent
  <2>2. /\ node_remove(v.node_list, e.nodeid) \in NodeLists
        /\ ToSet(node_remove(v.node_list, e.nodeid)) = ToSet(v.node_list) \ {e.nodeid}
    BY NodeRemoveKeepsNodeList DEF SoundVips
  <2>3. /\ left \in SoundVips /\ left.state = v.state
        /\ left.member_list = e.member_list
        /\ left.node_list = node_remove(v.node_list, e.nodeid)
    BY <2>1, <2>2 DEF SoundVips, Ids
  <2>4. event \in EventNames /\ event \notin {"BACKUP_UP", "MASTER_UP"}
    BY DEF EventNames
  <2>5. out = fsm_do_transaction(n, left, onDevice, event, works)
    BY <2>1 DEF Dispatch, fsm_input_node_down
  <2> HIDE DEF left, event
  <2>6. /\ \/ out.vip = IdleVip
           \/ out.vip.node_list = left.node_list /\ out.vip.member_list = left.member_list
        /\ out.sent = <<>> \/ \E s \in States : out.sent = <<StateMessage(n, s)>>
        /\ left.state = "START" /\ out.vip.state = "BACKUP" => event = "MASTER_UP"
    BY <2>3, <2>4, <2>5, TransactionTracks
  <2>7. QED
    BY <2>1, <2>2, <2>3, <2>4, <2>6 DEF Tracks
<1>2. CASE e.type = "up"
  <2> DEFINE informed == [v EXCEPT !.member_list = e.member_list]
  <2>1. e.type = "up" /\ e.member_list \in SUBSET Nodes
    BY <1>2 DEF IsGroupEvent
  <2>2. /\ informed \in SoundVips /\ informed.state = v.state
        /\ informed.node_list = v.node_list /\ informed.member_list = e.member_list
    BY <2>1 DEF SoundVips
  <2>3. out = fsm_do_transaction(n, informed, onDevice, "BACKUP_UP", works)
    BY <2>1 DEF Dispatch, fsm_input_node_up
  <2>4. "BACKUP_UP" \in EventNames
    BY DEF EventNames
  <2> HIDE DEF informed
  <2>5. /\ \/ out.vip = IdleVip
           \/ out.vip.node_list = informed.node_list /\ out.vip.member_list = informed.member_list
        /\ out.sent = <<>> \/ \E s \in States : out.sent = <<StateMessage(n, s)>>
        /\ informed.state # "IDLE" => \E s \in States : out.sent = <<StateMessage(n, s)>>
        /\ informed.state = "START" => out.vip.state # "BACKUP"
    BY <2>2, <2>3, <2>4, TransactionTracks
  <2>6. QED
    BY <2>1, <2>2, <2>5 DEF Tracks
<1>3. CASE e.type = "state"
  <2> DEFINE heard == Recorded(v, e)
             event == MessageEvent(n, heard, e)
  <2>1. e.type = "state" /\ e.nodeid \in Nodes
    BY <1>3 DEF IsGroupEvent
  <2>2. /\ node_add(v.node_list, e.nodeid) \in NodeLists
        /\ ToSet(node_add(v.node_list, e.nodeid)) = ToSet(v.node_list) \cup {e.nodeid}
    BY <2>1, NodeAddKeepsNodeList DEF SoundVips
  <2>3. /\ heard \in SoundVips /\ heard.state = v.state
        /\ heard.node_list = node_add(v.node_list, e.nodeid)
        /\ heard.member_list = v.member_list
    BY <2>1, <2>2 DEF Recorded, SoundVips, Ids
  <2>4. /\ event \in EventNames \cup {"none"}
        /\ event # "BACKUP_UP"
        /\ event = "MASTER_UP" => HeardEveryone(heard)
    BY DEF MessageEvent, EventNames
  <2>5. out = IF event = "none" THEN Quiet(heard, onDevice)
              ELSE fsm_do_transaction(n, heard, onDevice, event, works)
    BY <2>1 DEF Dispatch, fsm_input_new_state_message
  <2> HIDE DEF heard, event
  <2>6. CASE event = "none"
    BY <2>1, <2>2, <2>3, <2>5, <2>6 DEF Quiet, Tracks
  <2>7. CASE event \in EventNames
    <3>1. out = fsm_do_transaction(n, heard, onDevice, event, works)
      BY <2>5, <2>7 DEF EventNames
    <3>2. /\ \/ out.vip = IdleVip
             \/ out.vip.node_list = heard.node_list /\ out.vip.member_list = heard.member_list
          /\ out.sent = <<>> \/ \E s \in States : out.sent = <<StateMessage(n, s)>>
          /\ heard.state = "START" /\ out.vip.state = "BACKUP" => event = "MASTER_UP"
      BY <2>3, <2>7, <3>1, TransactionTracks
    <3>3. out.vip.state = "BACKUP" => out.vip # IdleVip
      BY DEF IdleVip
    <3>4. QED
      BY <2>1, <2>2, <2>3, <2>4, <3>2, <3>3
      DEF Tracks, HeardEveryone, list_entries, member_list_entries
  <2>8. QED
    BY <2>4, <2>6, <2>7
<1>4. QED
  BY <1>1, <1>2, <1>3 DEF IsGroupEvent

-----------------------------------------------------------------------------
(* What a callback does to the role of its node *)

Standby == {"START", "BACKUP"}

SameRole(s, t) == s = t \/ {s, t} \subseteq Standby \/ {s, t} \subseteq Active

(* It keeps the role and leaves the device alone, or it goes down without  *)
(* the address, or it takes the address over.                              *)
Moves(v, onDevice, out) ==
  \/ SameRole(v.state, out.vip.state) /\ out.ip = onDevice
  \/ v.state # "IDLE" /\ out.vip.state = "IDLE" /\ ~out.ip
  \/ v.state \in Standby /\ out.vip.state \in Active /\ out.ip

(* Of all entries of the table only those of MASTER_DOWN take over.        *)
LEMMA TransactionMoves ==
  ASSUME NEW n \in Nodes, NEW v \in SoundVips, NEW onDevice \in BOOLEAN,
         NEW event \in EventNames, NEW works \in BOOLEAN,
         NEW out, out = fsm_do_transaction(n, v, onDevice, event, works)
  PROVE  /\ Moves(v, onDevice, out)
         /\ v.state \notin Active /\ out.vip.state \in Active => event = "MASTER_DOWN"
         /\ out.vip = IdleVip \/ out.vip.node_id = v.node_id
         /\ event = "DUPLICATE" /\ v.state = "START" => out.vip = IdleVip
<1> DEFINE action == table[event][v.state]
<1>1. v.state \in States
  BY DEF SoundVips
<1>2. /\ action \in ActionNames
      /\ action = "act" => v.state = "START" /\ event = "MASTER_DOWN"
      /\ action = "react" => v.state = "BACKUP" /\ event = "MASTER_DOWN"
      /\ action = "observe" => v.state = "START"
      /\ action = "rback_stop" => v.state = "RBACK"
      /\ action = "rollback" => v.state = "MASTER"
      /\ action = "go_down" => v.state # "IDLE"
      /\ event = "DUPLICATE" /\ v.state = "START" => action = "go_down"
  BY <1>1 DEF table, EventNames, States, ActionNames
<1> HIDE DEF action
<1>3. out = CASE action = "act"                    -> act(n, v, works)
              [] action = "react"                  -> react(n, v, onDevice, works)
              [] action \in {"nodeup", "backupup"} -> virtual_ip_send_state(n, v, onDevice)
              [] action = "observe"                -> Quiet(observe(v), onDevice)
              [] action = "rollback"               -> Quiet(rollback(v), onDevice)
              [] action = "rback_stop"             -> Quiet(rback_stop(v), onDevice)
              [] action = "go_down"                -> Quiet(go_down(v), FALSE)
              [] OTHER                             -> Quiet(v, onDevice)
  BY DEF fsm_do_transaction, action
<1>4. ASSUME out = Quiet(go_down(v), FALSE), v.state # "IDLE"
      PROVE  Moves(v, onDevice, out) /\ out.vip = IdleVip /\ out.vip.state = "IDLE"
  <2>1. out.vip = IdleVip /\ out.ip = FALSE
    BY <1>4 DEF Quiet, go_down
  <2>2. IdleVip.state = "IDLE"
    BY DEF IdleVip
  <2>3. QED
    BY <1>4, <2>1, <2>2 DEF Moves
<1>5. ASSUME out = TakeOver(n, v, works), v.state \in Standby
      PROVE  Moves(v, onDevice, out) /\ (out.vip = IdleVip \/ out.vip.node_id = v.node_id)
  <2>1. CASE works
    <3>1. out.vip = [v EXCEPT !.state = "MASTER"] /\ out.ip
      BY <1>5, <2>1 DEF TakeOver, virtual_ip_send_state
    <3>2. out.vip.state = "MASTER" /\ out.vip.node_id = v.node_id
      BY <3>1 DEF SoundVips
    <3>3. QED
      BY <1>5, <3>1, <3>2 DEF Moves, Active
  <2>2. CASE ~works
    BY <1>4, <1>5, <2>2 DEF TakeOver, Standby
  <2>3. QED
    BY <2>1, <2>2
<1>6. ASSUME out.vip = v, out.ip = onDevice
      PROVE  Moves(v, onDevice, out)
  BY <1>6 DEF Moves, SameRole
<1>7. CASE action \in {"act", "react"}
  <2>1. \/ out = TakeOver(n, v, works)
        \/ out = Quiet(go_down(v), FALSE)
        \/ out.vip = v /\ out.ip = onDevice
    BY <1>3, <1>7 DEF act, react, Quiet
  <2>2. QED
    BY <1>2, <1>4, <1>5, <1>6, <1>7, <2>1 DEF Standby
<1>8. CASE action = "observe"
  <2>1. out.vip = [v EXCEPT !.state = "BACKUP"] /\ out.ip = onDevice
    BY <1>3, <1>8 DEF Quiet, observe
  <2>2. out.vip.state = "BACKUP" /\ out.vip.node_id = v.node_id
    BY <2>1 DEF SoundVips
  <2>3. QED
    BY <1>2, <1>8, <2>1, <2>2 DEF Moves, SameRole, Standby, Active
<1>9. CASE action = "rollback"
  <2>1. out.vip = rollback(v) /\ out.ip = onDevice
    BY <1>3, <1>9 DEF Quiet
  <2>2. rollback(v).node_id = v.node_id /\ rollback(v).state \in {v.state, "RBACK"}
    BY DEF rollback, SoundVips
  <2>3. QED
    BY <1>2, <1>9, <2>1, <2>2 DEF Moves, SameRole, Standby, Active
<1>10. CASE action = "rback_stop"
  <2>1. out.vip = rback_stop(v) /\ out.ip = onDevice
    BY <1>3, <1>10 DEF Quiet
  <2>2. rback_stop(v).node_id = v.node_id /\ rback_stop(v).state \in {v.state, "MASTER"}
    BY DEF rback_stop, SoundVips
  <2>3. QED
    BY <1>2, <1>10, <2>1, <2>2 DEF Moves, SameRole, Standby, Active
<1>11. CASE action = "go_down"
  BY <1>2, <1>3, <1>4, <1>11 DEF Active
<1>12. CASE action \in {"nodeup", "backupup", "go_up", "error", "dup_warn", "noop"}
  <2>1. out = virtual_ip_send_state(n, v, onDevice) \/ out = Quiet(v, onDevice)
    BY <1>3, <1>12
  <2>2. out.vip = v /\ out.ip = onDevice
    BY <2>1 DEF Quiet, virtual_ip_send_state
  <2>3. QED
    BY <1>2, <1>6, <1>12, <2>2
<1>13. QED
  BY <1>2, <1>7, <1>8, <1>9, <1>10, <1>11, <1>12 DEF ActionNames

(* A callback takes over only on a departure, or on a message when the     *)
(* node is in START and alone; and a node in START goes down on the        *)
(* message of another of its priority.                                     *)
LEMMA DispatchMoves ==
  ASSUME NEW n \in Nodes, NEW v \in SoundVips, NEW onDevice \in BOOLEAN,
         NEW e, IsGroupEvent(e), NEW works \in BOOLEAN,
         NEW out, out = Dispatch(n, v, onDevice, e, works)
  PROVE  /\ Moves(v, onDevice, out)
         /\ v.state \notin Active /\ out.vip.state \in Active =>
              \/ e.type = "down"
              \/ e.type = "state" /\ v.state = "START" /\ Cardinality(v.member_list) = 1
         /\ out.vip = IdleVip \/ out.vip.node_id = v.node_id
         /\ /\ e.type = "state" /\ v.state = "START"
            /\ Priority[e.nodeid] = Priority[n] /\ e.nodeid # v.node_id
            => out.vip = IdleVip
<1>1. CASE e.type = "down"
  <2> DEFINE informed == [v EXCEPT !.member_list = e.member_list]
             event == IF informed.master_id = e.nodeid THEN "MASTER_DOWN" ELSE "BACKUP_DOWN"
             left  == [informed EXCEPT !.node_list = node_remove(@, e.nodeid),
                              !.rollback_node_id = IF @ = e.nodeid THEN NoNode ELSE @]
  <2>1. e.type = "down" /\ e.nodeid \in Nodes /\ e.member_list \in SUBSET Nodes
    BY <1>1 DEF IsGroupEvent
  <2>2. node_remove(v.node_list, e.nodeid) \in NodeLists
    BY NodeRemoveKeepsNodeList DEF SoundVips
  <2>3. left \in SoundVips /\ left.state = v.state /\ left.node_id = v.node_id
    BY <2>1, <2>2 DEF SoundVips, Ids
  <2>4. event \in EventNames
    BY DEF EventNames
  <2>5. out = fsm_do_transaction(n, left, onDevice, event, works)
    BY <2>1 DEF Dispatch, fsm_input_node_down
  <2> HIDE DEF left, event
  <2>6. /\ Moves(left, onDevice, out)
        /\ out.vip = IdleVip \/ out.vip.node_id = left.node_id
    BY <2>3, <2>4, <2>5, TransactionMoves
  <2>7. QED
    BY <2>1, <2>3, <2>6 DEF Moves
<1>2. CASE e.type = "up"
  <2> DEFINE informed == [v EXCEPT !.member_list = e.member_list]
  <2>1. e.type = "up" /\ e.member_list \in SUBSET Nodes
    BY <1>2 DEF IsGroupEvent
  <2>2. informed \in SoundVips /\ informed.state = v.state /\ informed.node_id = v.node_id
    BY <2>1 DEF SoundVips
  <2>3. out = fsm_do_transaction(n, informed, onDevice, "BACKUP_UP", works)
    BY <2>1 DEF Dispatch, fsm_input_node_up
  <2>4. "BACKUP_UP" \in EventNames
    BY DEF EventNames
  <2> HIDE DEF informed
  <2>5. /\ Moves(informed, onDevice, out)
        /\ informed.state \notin Active => out.vip.state \notin Active
        /\ out.vip = IdleVip \/ out.vip.node_id = informed.node_id
    BY <2>2, <2>3, <2>4, TransactionMoves
  <2>6. QED
    BY <2>1, <2>2, <2>5 DEF Moves
<1>3. CASE e.type = "state"
  <2> DEFINE heard == Recorded(v, e)
             event == MessageEvent(n, heard, e)
  <2>1. e.type = "state" /\ e.nodeid \in Nodes
    BY <1>3 DEF IsGroupEvent
  <2>2. node_add(v.node_list, e.nodeid) \in NodeLists
    BY <2>1, NodeAddKeepsNodeList DEF SoundVips
  <2>3. /\ heard \in SoundVips /\ heard.state = v.state /\ heard.node_id = v.node_id
        /\ heard.member_list = v.member_list
    BY <2>1, <2>2 DEF Recorded, SoundVips, Ids
  <2>4. /\ event \in EventNames \cup {"none"}
        /\ event = "MASTER_DOWN" => heard.state = "START" /\ IsAlone(heard)
        /\ IsDuplicate(n, heard, e) => event = "DUPLICATE"
    BY DEF MessageEvent, EventNames
  <2>5. out = IF event = "none" THEN Quiet(heard, onDevice)
              ELSE fsm_do_transaction(n, heard, onDevice, event, works)
    BY <2>1 DEF Dispatch, fsm_input_new_state_message
  <2>6. IsDuplicate(n, heard, e) <=> Priority[e.nodeid] = Priority[n] /\ e.nodeid # v.node_id
    BY <2>3 DEF IsDuplicate
  <2> HIDE DEF heard, event
  <2>7. CASE event = "none"
    <3>1. out.vip = heard /\ out.ip = onDevice
      BY <2>5, <2>7 DEF Quiet
    <3>2. QED
      BY <2>3, <2>4, <2>6, <2>7, <3>1 DEF Moves, SameRole
  <2>8. CASE event \in EventNames
    <3>1. out = fsm_do_transaction(n, heard, onDevice, event, works)
      BY <2>5, <2>8 DEF EventNames
    <3>2. /\ Moves(heard, onDevice, out)
          /\ heard.state \notin Active /\ out.vip.state \in Active => event = "MASTER_DOWN"
          /\ out.vip = IdleVip \/ out.vip.node_id = heard.node_id
          /\ event = "DUPLICATE" /\ heard.state = "START" => out.vip = IdleVip
      BY <2>3, <2>8, <3>1, TransactionMoves
    <3>3. Moves(v, onDevice, out)
      BY <2>3, <3>2 DEF Moves
    <3>4. QED
      BY <2>1, <2>3, <2>4, <2>6, <3>2, <3>3 DEF IsAlone, member_list_entries
  <2>9. QED
    BY <2>4, <2>7, <2>8
<1>4. QED
  BY <1>1, <1>2, <1>3 DEF IsGroupEvent

-----------------------------------------------------------------------------
(* What a callback announces, and whom it takes for the master *)

(* A message sent carries the state the action leaves, none is sent in     *)
(* IDLE, and no action touches master_id unless it resets everything.      *)
LEMMA TransactionAnnounces ==
  ASSUME NEW n \in Nodes, NEW v \in SoundVips, NEW onDevice \in BOOLEAN,
         NEW event \in EventNames, NEW works \in BOOLEAN,
         NEW out, out = fsm_do_transaction(n, v, onDevice, event, works)
  PROVE  /\ out.sent \in {<<>>, <<StateMessage(n, out.vip.state)>>}
         /\ out.vip = IdleVip \/ out.vip.master_id = v.master_id
         /\ v.state = "IDLE" => out.sent = <<>>
<1> DEFINE action == table[event][v.state]
           Goal == /\ out.sent \in {<<>>, <<StateMessage(n, out.vip.state)>>}
                   /\ out.vip = IdleVip \/ out.vip.master_id = v.master_id
                   /\ v.state = "IDLE" => out.sent = <<>>
<1>1. v.state \in States
  BY DEF SoundVips
<1>2. action \in ActionNames /\ (v.state = "IDLE" => action \in {"go_up", "error"})
  BY <1>1, TableActions
<1> HIDE DEF action
<1>3. out = CASE action = "act"                    -> act(n, v, works)
              [] action = "react"                  -> react(n, v, onDevice, works)
              [] action \in {"nodeup", "backupup"} -> virtual_ip_send_state(n, v, onDevice)
              [] action = "observe"                -> Quiet(observe(v), onDevice)
              [] action = "rollback"               -> Quiet(rollback(v), onDevice)
              [] action = "rback_stop"             -> Quiet(rback_stop(v), onDevice)
              [] action = "go_down"                -> Quiet(go_down(v), FALSE)
              [] OTHER                             -> Quiet(v, onDevice)
  BY DEF fsm_do_transaction, action
<1>4. ASSUME out = virtual_ip_send_state(n, v, onDevice), v.state # "IDLE" PROVE Goal
  BY <1>4 DEF virtual_ip_send_state
<1>5. ASSUME out = TakeOver(n, v, works), v.state # "IDLE" PROVE Goal
  <2>1. CASE works
    <3> DEFINE w == [v EXCEPT !.state = "MASTER"]
    <3>1. out = virtual_ip_send_state(n, w, TRUE)
      BY <1>5, <2>1 DEF TakeOver
    <3>2. w.master_id = v.master_id
      BY DEF SoundVips
    <3> HIDE DEF w
    <3>3. out.vip = w /\ out.sent = <<StateMessage(n, w.state)>>
      BY <3>1 DEF virtual_ip_send_state
    <3>4. QED
      BY <1>5, <3>2, <3>3
  <2>2. CASE ~works
    BY <1>5, <2>2 DEF TakeOver, Quiet, go_down
  <2>3. QED
    BY <2>1, <2>2
<1>6. ASSUME NEW w, NEW device, out = Quiet(w, device), w = IdleVip \/ w.master_id = v.master_id
      PROVE  Goal
  BY <1>6 DEF Quiet
<1>7. /\ go_down(v) = IdleVip
      /\ observe(v).master_id = v.master_id
      /\ rollback(v).master_id = v.master_id
      /\ rback_stop(v).master_id = v.master_id
  BY DEF go_down, observe, rollback, rback_stop, SoundVips
<1>8. CASE action \in {"act", "react"}
  <2>1. \/ out = TakeOver(n, v, works)
        \/ \E w, device : out = Quiet(w, device) /\ (w = IdleVip \/ w = v)
    BY <1>3, <1>7, <1>8 DEF act, react
  <2>2. v.state # "IDLE"
    BY <1>2, <1>8
  <2>3. QED
    BY <1>5, <1>6, <2>1, <2>2
<1>9. CASE action \in {"nodeup", "backupup"}
  BY <1>2, <1>3, <1>4, <1>9
<1>10. CASE action \in {"observe", "rollback", "rback_stop", "go_down", "go_up", "error",
                        "dup_warn", "noop"}
  <2>1. \/ out = Quiet(observe(v), onDevice)
        \/ out = Quiet(rollback(v), onDevice)
        \/ out = Quiet(rback_stop(v), onDevice)
        \/ out = Quiet(go_down(v), FALSE)
        \/ out = Quiet(v, onDevice)
    BY <1>3, <1>10
  <2>2. QED
    BY <1>6, <1>7, <2>1
<1>11. QED
  BY <1>2, <1>8, <1>9, <1>10 DEF ActionNames

(* Only a message of a node that serves makes it the master, a departure   *)
(* makes a node serve only if the master is what departed, and a node in   *)
(* IDLE announces nothing.                                                 *)
LEMMA DispatchAnnounces ==
  ASSUME NEW n \in Nodes, NEW v \in SoundVips, NEW onDevice \in BOOLEAN,
         NEW e, IsGroupEvent(e), NEW works \in BOOLEAN,
         NEW out, out = Dispatch(n, v, onDevice, e, works)
  PROVE  /\ out.sent \in {<<>>, <<StateMessage(n, out.vip.state)>>}
         /\ \/ out.vip = IdleVip
            \/ out.vip.master_id = IF e.type = "state" /\ e.state \in Active
                                     THEN e.nodeid ELSE v.master_id
         /\ e.type = "down" /\ v.state \notin Active /\ out.vip.state \in Active =>
              v.master_id = e.nodeid
         /\ v.state = "IDLE" => out.sent = <<>>
<1>1. CASE e.type = "down"
  <2> DEFINE informed == [v EXCEPT !.member_list = e.member_list]
             event == IF informed.master_id = e.nodeid THEN "MASTER_DOWN" ELSE "BACKUP_DOWN"
             left  == [informed EXCEPT !.node_list = node_remove(@, e.nodeid),
                              !.rollback_node_id = IF @ = e.nodeid THEN NoNode ELSE @]
  <2>1. e.type = "down" /\ e.nodeid \in Nodes /\ e.member_list \in SUBSET Nodes
    BY <1>1 DEF IsGroupEvent
  <2>2. node_remove(v.node_list, e.nodeid) \in NodeLists
    BY NodeRemoveKeepsNodeList DEF SoundVips
  <2>3. left \in SoundVips /\ left.state = v.state /\ left.master_id = v.master_id
    BY <2>1, <2>2 DEF SoundVips, Ids
  <2>4. event \in EventNames /\ (event = "MASTER_DOWN" => v.master_id = e.nodeid)
    BY DEF EventNames, SoundVips
  <2>5. out = fsm_do_transaction(n, left, onDevice, event, works)
    BY <2>1 DEF Dispatch, fsm_input_node_down
  <2> HIDE DEF left, event
  <2>6. /\ out.sent \in {<<>>, <<StateMessage(n, out.vip.state)>>}
        /\ out.vip = IdleVip \/ out.vip.master_id = left.master_id
        /\ v.state = "IDLE" => out.sent = <<>>
    BY <2>3, <2>4, <2>5, TransactionAnnounces
  <2>7. left.state \notin Active /\ out.vip.state \in Active => event = "MASTER_DOWN"
    BY <2>3, <2>4, <2>5, TransactionMoves
  <2>8. QED
    BY <2>1, <2>3, <2>4, <2>6, <2>7
<1>2. CASE e.type = "up"
  <2> DEFINE informed == [v EXCEPT !.member_list = e.member_list]
  <2>1. e.type = "up" /\ e.member_list \in SUBSET Nodes
    BY <1>2 DEF IsGroupEvent
  <2>2. informed \in SoundVips /\ informed.master_id = v.master_id /\ informed.state = v.state
    BY <2>1 DEF SoundVips
  <2>3. out = fsm_do_transaction(n, informed, onDevice, "BACKUP_UP", works)
    BY <2>1 DEF Dispatch, fsm_input_node_up
  <2>4. "BACKUP_UP" \in EventNames
    BY DEF EventNames
  <2> HIDE DEF informed
  <2>5. /\ out.sent \in {<<>>, <<StateMessage(n, out.vip.state)>>}
        /\ out.vip = IdleVip \/ out.vip.master_id = informed.master_id
        /\ v.state = "IDLE" => out.sent = <<>>
    BY <2>2, <2>3, <2>4, TransactionAnnounces
  <2>6. QED
    BY <2>1, <2>2, <2>5
<1>3. CASE e.type = "state"
  <2> DEFINE heard == Recorded(v, e)
             event == MessageEvent(n, heard, e)
             master == IF e.state \in Active THEN e.nodeid ELSE v.master_id
  <2>1. e.type = "state" /\ e.nodeid \in Nodes
    BY <1>3 DEF IsGroupEvent
  <2>2. node_add(v.node_list, e.nodeid) \in NodeLists
    BY <2>1, NodeAddKeepsNodeList DEF SoundVips
  <2>3. heard \in SoundVips /\ heard.master_id = master /\ heard.state = v.state
    BY <2>1, <2>2 DEF Recorded, SoundVips, Ids
  <2>4. event \in EventNames \cup {"none"}
    BY DEF MessageEvent, EventNames
  <2>5. out = IF event = "none" THEN Quiet(heard, onDevice)
              ELSE fsm_do_transaction(n, heard, onDevice, event, works)
    BY <2>1 DEF Dispatch, fsm_input_new_state_message
  <2> HIDE DEF heard, event
  <2>6. /\ out.sent \in {<<>>, <<StateMessage(n, out.vip.state)>>}
        /\ out.vip = IdleVip \/ out.vip.master_id = heard.master_id
        /\ v.state = "IDLE" => out.sent = <<>>
    <3>1. CASE event = "none"
      BY <2>5, <3>1 DEF Quiet
    <3>2. CASE event \in EventNames
      <4>1. out = fsm_do_transaction(n, heard, onDevice, event, works)
        BY <2>5, <3>2 DEF EventNames
      <4>2. QED
        BY <2>3, <3>2, <4>1, TransactionAnnounces
    <3>3. QED
      BY <2>4, <3>1, <3>2
  <2>7. QED
    BY <2>1, <2>3, <2>6
<1>4. QED
  BY <1>1, <1>2, <1>3 DEF IsGroupEvent

-----------------------------------------------------------------------------
(* What a node is about to learn of another *)

IsConfig(e) == e.type \in {"down", "up"}

(* v dispatches, or is about to, in a configuration without m: the members *)
(* it knows count unless it learns others before anything else.            *)
ViewLacks(v, box, m) ==
  \/ m \notin v.member_list /\ (box = <<>> \/ ~IsConfig(box[1]))
  \/ \E i \in 1..Len(box) : IsConfig(box[i]) /\ m \notin box[i].member_list

(* The positions of an inbox with one more event.                          *)
LEMMA OneMoreEvent ==
  ASSUME NEW S, NEW box \in Seq(S), NEW e \in S
  PROVE  /\ box \o <<e>> \in Seq(S)
         /\ Len(box) \in Nat /\ Len(box \o <<e>>) = Len(box) + 1
         /\ \A i \in 1..Len(box) : (box \o <<e>>)[i] = box[i]
         /\ (box \o <<e>>)[Len(box) + 1] = e
<1>1. <<e>> \in Seq(S) /\ Len(<<e>>) = 1 /\ <<e>>[1] = e
  OBVIOUS
<1>2. QED
  BY <1>1, ConcatProperties, LenProperties

(* An event that names m takes m out of nobody's view.                     *)
LEMMA LacksMore ==
  ASSUME NEW S, NEW v, NEW box \in Seq(S), NEW e \in S, NEW m,
         IsConfig(e) => m \in e.member_list,
         ViewLacks(v, box \o <<e>>, m)
  PROVE  ViewLacks(v, box, m)
<1> DEFINE longer == box \o <<e>>
<1>1. /\ Len(box) \in Nat /\ Len(longer) = Len(box) + 1
      /\ \A i \in 1..Len(box) : longer[i] = box[i]
      /\ longer[Len(box) + 1] = e
  BY OneMoreEvent
<1> HIDE DEF longer
<1>2. ViewLacks(v, longer, m)
  BY DEF longer
<1>3. CASE m \notin v.member_list /\ (longer = <<>> \/ ~IsConfig(longer[1]))
  <2>1. box = <<>> \/ (1 \in 1..Len(box) /\ longer[1] = box[1])
    BY <1>1, EmptySeq
  <2>2. longer # <<>>
    BY <1>1, EmptySeq
  <2>3. QED
    BY <1>3, <2>1, <2>2 DEF ViewLacks
<1>4. CASE \E i \in 1..Len(longer) : IsConfig(longer[i]) /\ m \notin longer[i].member_list
  <2>1. PICK i \in 1..Len(longer) : IsConfig(longer[i]) /\ m \notin longer[i].member_list
    BY <1>4
  <2>2. i \in 1..Len(box) /\ longer[i] = box[i]
    BY <1>1, <2>1
  <2>3. QED
    BY <2>1, <2>2 DEF ViewLacks
<1>5. QED
  BY <1>2, <1>3, <1>4 DEF ViewLacks

(* Nor does the dispatch of an event.                                      *)
LEMMA LacksTail ==
  ASSUME NEW S, NEW v, NEW w, NEW box \in Seq(S), box # <<>>, NEW m,
         w.member_list = IF IsConfig(Head(box)) THEN Head(box).member_list ELSE v.member_list,
         ViewLacks(w, Tail(box), m)
  PROVE  ViewLacks(v, box, m)
<1> DEFINE rest == Tail(box)
<1>1. /\ Head(box) = box[1] /\ Len(box) \in Nat /\ Len(box) > 0
      /\ Len(rest) = Len(box) - 1
      /\ \A i \in 1..Len(rest) : rest[i] = box[i + 1]
  BY HeadTailProperties, LenProperties, EmptySeq
<1> HIDE DEF rest
<1>2. CASE m \notin w.member_list
  BY <1>1, <1>2 DEF ViewLacks
<1>3. CASE \E i \in 1..Len(rest) : IsConfig(rest[i]) /\ m \notin rest[i].member_list
  <2>1. PICK i \in 1..Len(rest) : IsConfig(rest[i]) /\ m \notin rest[i].member_list
    BY <1>3
  <2>2. i + 1 \in 1..Len(box) /\ rest[i] = box[i + 1]
    BY <1>1, <2>1
  <2>3. QED
    BY <2>1, <2>2 DEF ViewLacks
<1>4. QED
  BY <1>2, <1>3 DEF ViewLacks, rest

=============================================================================
