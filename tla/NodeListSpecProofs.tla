------------------------- MODULE NodeListSpecProofs -------------------------
(***************************************************************************)
(* The properties of NodeListSpec, for every finite set of nodes and every *)
(* assignment of priorities: under any sequence of calls the list is an    *)
(* ordered set, no call reorders it, and a newcomer goes before its        *)
(* equals.                                                                 *)
(***************************************************************************)
EXTENDS NodeListSpec, VirtualIpProofs

-----------------------------------------------------------------------------
(* A list whose elements keep their order in a longer one without          *)
(* duplicates: two of them come in the same order in both.                 *)
LEMMA EmbeddingKeepsOrder ==
  ASSUME NEW short \in Seq(Nodes), NEW long \in Seq(Nodes), NoDuplicates(long),
         NEW up \in [1..Len(short) -> 1..Len(long)],
         \A k, l \in 1..Len(short) : k < l <=> up[k] < up[l],
         \A k \in 1..Len(short) : long[up[k]] = short[k],
         NEW m \in ToSet(short), NEW n \in ToSet(short)
  PROVE  Before(short, m, n) <=> Before(long, m, n)
<1>1. PICK k \in 1..Len(short) : short[k] = m
  BY LenProperties DEF ToSet
<1>2. PICK l \in 1..Len(short) : short[l] = n
  BY LenProperties DEF ToSet
<1>3. up[k] \in 1..Len(long) /\ up[l] \in 1..Len(long)
  OBVIOUS
<1>4. ASSUME Before(short, m, n)
      PROVE  Before(long, m, n)
  <2>1. PICK i, j \in 1..Len(short) : i < j /\ short[i] = m /\ short[j] = n
    BY <1>4 DEF Before
  <2>2. /\ up[i] \in 1..Len(long) /\ up[j] \in 1..Len(long) /\ up[i] < up[j]
        /\ long[up[i]] = m /\ long[up[j]] = n
    BY <2>1
  <2>3. QED
    BY <2>2 DEF Before
<1>5. ASSUME Before(long, m, n)
      PROVE  Before(short, m, n)
  <2>1. PICK i, j \in 1..Len(long) : i < j /\ long[i] = m /\ long[j] = n
    BY <1>5 DEF Before
  <2>2. long[up[k]] = m /\ long[up[l]] = n
    BY <1>1, <1>2
  <2>3. i = up[k] /\ j = up[l]
    BY <1>3, <2>1, <2>2 DEF NoDuplicates
  <2>4. k < l
    BY <2>1, <2>3
  <2>5. QED
    BY <1>1, <1>2, <2>4 DEF Before
<1>6. QED
  BY <1>4, <1>5

-----------------------------------------------------------------------------
(* node_add of a node not listed yet: where it goes, and who is before it. *)
LEMMA NodeAddShape ==
  ASSUME NEW list \in NodeLists, NEW nodeid \in Nodes, nodeid \notin ToSet(list)
  PROVE  \E place \in 1..(Len(list) + 1) :
           /\ Len(node_add(list, nodeid)) = Len(list) + 1
           /\ \A k \in 1..(Len(list) + 1) :
                node_add(list, nodeid)[k]
                  = IF k < place THEN list[k]
                    ELSE IF k = place THEN nodeid ELSE list[k - 1]
           /\ \A k \in 1..Len(list) :
                k >= place <=> Priority[nodeid] >= Priority[list[k]]
<1>1. /\ list \in Seq(Nodes) /\ Len(list) \in Nat /\ DOMAIN list = 1..Len(list)
      /\ \A k \in 1..Len(list) : list[k] \in Nodes
      /\ ByPriority(list)
  BY LenProperties, ElementOfSeq DEF NodeLists
<1>2. PICK place \in 1..(Len(list) + 1) :
        /\ node_add(list, nodeid) = InsertAt(list, place, nodeid)
        /\ \A k \in 1..Len(list) : k >= place <=> Priority[nodeid] >= Priority[list[k]]
  <2> DEFINE NotAbove == {m \in Nodes : Priority[m] <= Priority[nodeid]}
             first    == Walk(list, NotAbove)
  <2>1. /\ first \in 1..(Len(list) + 1)
        /\ first <= Len(list) => list[first] \in NotAbove
        /\ \A j \in 1..(first - 1) : list[j] \notin NotAbove
    BY <1>1, WalkStops
  <2>2. ~node_search(list, nodeid)
    BY <1>1, NodeSearchFinds DEF ToSet
  <2>3. node_add(list, nodeid) = InsertAt(list, first, nodeid)
    BY <2>2 DEF node_add
  <2>4. \A m \in Nodes : Priority[m] \in Int
    BY PriorityAssumption
  <2>5. \A k \in 1..Len(list) : k >= first <=> Priority[nodeid] >= Priority[list[k]]
    BY <1>1, <2>1, <2>4 DEF ByPriority
  <2> HIDE DEF first
  <2>6. QED
    BY <2>1, <2>3, <2>5
<1> DEFINE longer == InsertAt(list, place, nodeid)
<1>3. Len(longer) = Len(list) + 1
  BY <1>1, InsertAtElements
<1>4. \A k \in 1..(Len(list) + 1) :
        longer[k] = IF k < place THEN list[k]
                    ELSE IF k = place THEN nodeid ELSE list[k - 1]
  BY <1>1, InsertAtElements
<1> HIDE DEF longer
<1>5. QED
  BY <1>2, <1>3, <1>4 DEF longer

(* node_remove of a listed node: the others close up.                      *)
LEMMA NodeRemoveShape ==
  ASSUME NEW list \in NodeLists, NEW nodeid \in ToSet(list)
  PROVE  \E place \in 1..Len(list) :
           /\ Len(node_remove(list, nodeid)) = Len(list) - 1
           /\ \A k \in 1..(Len(list) - 1) :
                node_remove(list, nodeid)[k] = IF k < place THEN list[k] ELSE list[k + 1]
<1>1. list \in Seq(Nodes) /\ Len(list) \in Nat /\ DOMAIN list = 1..Len(list)
  BY LenProperties DEF NodeLists
<1>2. node_search(list, nodeid)
  BY <1>1, NodeSearchFinds DEF ToSet
<1> DEFINE place == Walk(list, {nodeid})
<1>3. place \in 1..Len(list)
  BY <1>1, <1>2, WalkStops DEF node_search
<1>4. node_remove(list, nodeid) = RemoveAt(list, place)
  BY <1>2 DEF node_remove
<1> HIDE DEF place
<1>5. Len(RemoveAt(list, place)) = Len(list) - 1
  BY <1>1, <1>3, RemoveAtElements
<1>6. \A k \in 1..(Len(list) - 1) :
        RemoveAt(list, place)[k] = IF k < place THEN list[k] ELSE list[k + 1]
  BY <1>1, <1>3, RemoveAtElements
<1>7. QED
  BY <1>3, <1>4, <1>5, <1>6

(* Adding a node does not reorder those already listed.                    *)
LEMMA NodeAddKeepsOrder ==
  ASSUME NEW list \in NodeLists, NEW nodeid \in Nodes,
         NEW m \in ToSet(list), NEW n \in ToSet(list)
  PROVE  Before(list, m, n) <=> Before(node_add(list, nodeid), m, n)
<1> DEFINE longer == node_add(list, nodeid)
<1>1. CASE nodeid \in ToSet(list)
  <2>1. list \in Seq(Nodes) /\ DOMAIN list = 1..Len(list)
    BY LenProperties DEF NodeLists
  <2>2. node_search(list, nodeid)
    BY <1>1, <2>1, NodeSearchFinds DEF ToSet
  <2>3. QED
    BY <2>2 DEF node_add
<1>2. CASE nodeid \notin ToSet(list)
  <2>1. /\ list \in Seq(Nodes) /\ Len(list) \in Nat
        /\ longer \in Seq(Nodes) /\ NoDuplicates(longer)
    BY NodeAddKeepsNodeList, LenProperties DEF NodeLists
  <2>2. PICK place \in 1..(Len(list) + 1) :
          /\ Len(longer) = Len(list) + 1
          /\ \A k \in 1..(Len(list) + 1) :
               longer[k] = IF k < place THEN list[k]
                           ELSE IF k = place THEN nodeid ELSE list[k - 1]
    BY <1>2, NodeAddShape
  <2> HIDE DEF longer
  <2> DEFINE up == [k \in 1..Len(list) |-> IF k < place THEN k ELSE k + 1]
  <2>3. up \in [1..Len(list) -> 1..Len(longer)]
    BY <2>1, <2>2
  <2>4. \A k, l \in 1..Len(list) : k < l <=> up[k] < up[l]
    BY <2>1, <2>2
  <2>5. \A k \in 1..Len(list) : longer[up[k]] = list[k]
    BY <2>1, <2>2
  <2> HIDE DEF up
  <2>6. QED
    BY <2>1, <2>3, <2>4, <2>5, EmbeddingKeepsOrder DEF longer
<1>3. QED
  BY <1>1, <1>2

(* Removing a node does not reorder those that stay.                       *)
LEMMA NodeRemoveKeepsOrder ==
  ASSUME NEW list \in NodeLists, NEW nodeid \in Nodes,
         NEW m \in ToSet(list) \ {nodeid}, NEW n \in ToSet(list) \ {nodeid}
  PROVE  Before(node_remove(list, nodeid), m, n) <=> Before(list, m, n)
<1> DEFINE shorter == node_remove(list, nodeid)
<1>1. CASE nodeid \notin ToSet(list)
  <2>1. list \in Seq(Nodes) /\ DOMAIN list = 1..Len(list)
    BY LenProperties DEF NodeLists
  <2>2. ~node_search(list, nodeid)
    BY <1>1, <2>1, NodeSearchFinds DEF ToSet
  <2>3. QED
    BY <2>2 DEF node_remove
<1>2. CASE nodeid \in ToSet(list)
  <2>1. /\ list \in Seq(Nodes) /\ Len(list) \in Nat /\ NoDuplicates(list)
        /\ shorter \in Seq(Nodes)
        /\ m \in ToSet(shorter) /\ n \in ToSet(shorter)
    BY NodeRemoveKeepsNodeList, LenProperties DEF NodeLists
  <2>2. PICK place \in 1..Len(list) :
          /\ Len(shorter) = Len(list) - 1
          /\ \A k \in 1..(Len(list) - 1) :
               shorter[k] = IF k < place THEN list[k] ELSE list[k + 1]
    BY <1>2, NodeRemoveShape
  <2> HIDE DEF shorter
  <2> DEFINE up == [k \in 1..Len(shorter) |-> IF k < place THEN k ELSE k + 1]
  <2>3. up \in [1..Len(shorter) -> 1..Len(list)]
    BY <2>1, <2>2
  <2>4. \A k, l \in 1..Len(shorter) : k < l <=> up[k] < up[l]
    BY <2>1, <2>2
  <2>5. \A k \in 1..Len(shorter) : list[up[k]] = shorter[k]
    BY <2>1, <2>2
  <2> HIDE DEF up
  <2>6. QED
    BY <2>1, <2>3, <2>4, <2>5, EmbeddingKeepsOrder DEF shorter
<1>3. QED
  BY <1>1, <1>2

(* A newcomer comes before exactly the nodes of no higher priority.        *)
LEMMA NodeAddLeadsEquals ==
  ASSUME NEW list \in NodeLists, NEW nodeid \in Nodes \ ToSet(list),
         NEW m \in ToSet(list)
  PROVE  Before(node_add(list, nodeid), nodeid, m) <=> Priority[nodeid] >= Priority[m]
<1> DEFINE longer == node_add(list, nodeid)
<1>1. /\ list \in Seq(Nodes) /\ Len(list) \in Nat /\ NoDuplicates(longer)
  BY NodeAddKeepsNodeList, LenProperties DEF NodeLists
<1>2. PICK place \in 1..(Len(list) + 1) :
        /\ Len(longer) = Len(list) + 1
        /\ \A k \in 1..(Len(list) + 1) :
             longer[k] = IF k < place THEN list[k]
                         ELSE IF k = place THEN nodeid ELSE list[k - 1]
        /\ \A k \in 1..Len(list) : k >= place <=> Priority[nodeid] >= Priority[list[k]]
  BY NodeAddShape
<1>3. PICK k \in 1..Len(list) : list[k] = m
  BY <1>1, LenProperties DEF ToSet
<1> HIDE DEF longer
<1>4. longer[place] = nodeid /\ place \in 1..Len(longer)
  BY <1>1, <1>2
<1>5. CASE k >= place
  <2>1. longer[k + 1] = m /\ k + 1 \in 1..Len(longer) /\ place < k + 1
    BY <1>1, <1>2, <1>3, <1>5
  <2>2. Before(longer, nodeid, m)
    BY <1>4, <2>1 DEF Before
  <2>3. QED
    BY <1>2, <1>3, <1>5, <2>2 DEF longer
<1>6. CASE k < place
  <2>1. longer[k] = m /\ k \in 1..Len(longer)
    BY <1>1, <1>2, <1>3, <1>6
  <2>2. ~Before(longer, nodeid, m)
    BY <1>1, <1>2, <1>4, <1>6, <2>1 DEF Before, NoDuplicates
  <2>3. QED
    BY <1>1, <1>2, <1>3, <1>6, <2>2 DEF longer
<1>7. QED
  BY <1>1, <1>2, <1>5, <1>6

(* The list of a node that has heard nobody.                               *)
LEMMA EmptyNodeList == <<>> \in NodeLists /\ ToSet(<<>>) = {}
<1>1. <<>> \in Seq(Nodes) /\ Len(<<>>) = 0 /\ DOMAIN <<>> = {}
  BY EmptySeq
<1>2. ByPriority(<<>>) /\ NoDuplicates(<<>>)
  BY <1>1 DEF ByPriority, NoDuplicates
<1>3. QED
  BY <1>1, <1>2 DEF NodeLists, ToSet

-----------------------------------------------------------------------------
(* The list represents the announced nodes.                                *)
ListInv == node_list \in NodeLists /\ ToSet(node_list) = announced

(* Every call keeps it so.                                                 *)
LEMMA ListInvStep ==
  ASSUME ListInv, [Next]_vars
  PROVE  ListInv'
<1>1. CASE UNCHANGED vars
  BY <1>1 DEF ListInv, vars
<1>2. ASSUME NEW nodeid \in Nodes, AddNode(nodeid)
      PROVE  ListInv'
  BY <1>2, NodeAddKeepsNodeList DEF ListInv, AddNode
<1>3. ASSUME NEW nodeid \in Nodes, RemoveNode(nodeid)
      PROVE  ListInv'
  BY <1>3, NodeRemoveKeepsNodeList DEF ListInv, RemoveNode
<1>4. CASE RemoveAllNodes
  BY <1>4, EmptyNodeList DEF ListInv, RemoveAllNodes
<1>5. QED
  BY <1>1, <1>2, <1>3, <1>4 DEF Next

(* ListInv is an invariant.                                                *)
LEMMA ListInvariant == Spec => []ListInv
<1>1. Init => ListInv
  BY EmptyNodeList DEF Init, ListInv
<1>2. ListInv /\ [Next]_vars => ListInv'
  BY ListInvStep
<1>3. QED
  BY <1>1, <1>2, PTL DEF Spec

(* Under any sequence of calls the list holds exactly the announced nodes, *)
(* each once, in descending order of priority.                             *)
THEOREM ListStaysOrderedSet == Spec => []ListIsOrderedSet
<1>1. ListInv => ListIsOrderedSet
  BY LengthCountsElements DEF ListInv, ListIsOrderedSet
<1>2. QED
  BY <1>1, ListInvariant, PTL

(* No call of node.c's operations reorders two nodes that stay listed.     *)
THEOREM ListIsNeverReordered == Spec => OrderIsStable
<1> DEFINE Stable == \A m, n \in announced \cap announced' :
                       Before(node_list, m, n) <=> Before(node_list', m, n)
<1>1. ASSUME ListInv, [Next]_vars
      PROVE  [Stable]_vars
  <2>1. CASE UNCHANGED vars
    BY <2>1
  <2>2. ASSUME NEW nodeid \in Nodes, AddNode(nodeid)
        PROVE  Stable
    BY <1>1, <2>2, NodeAddKeepsOrder DEF ListInv, AddNode
  <2>3. ASSUME NEW nodeid \in Nodes, RemoveNode(nodeid)
        PROVE  Stable
    BY <1>1, <2>3, NodeRemoveKeepsOrder DEF ListInv, RemoveNode
  <2>4. CASE RemoveAllNodes
    BY <2>4 DEF RemoveAllNodes
  <2>5. QED
    BY <1>1, <2>1, <2>2, <2>3, <2>4 DEF Next
<1>2. QED
  BY <1>1, ListInvariant, PTL DEF Spec, OrderIsStable

(* A newly announced node goes before the nodes of its own priority.       *)
THEOREM NewcomerGoesFirst == Spec => NewcomerLeadsItsEquals
<1> DEFINE Leads == \A n \in announced' \ announced, m \in announced \cap announced' :
                      Before(node_list', n, m) <=> Priority[n] >= Priority[m]
<1>1. ASSUME ListInv, [Next]_vars
      PROVE  [Leads]_vars
  <2>1. CASE UNCHANGED vars
    BY <2>1
  <2>2. ASSUME NEW nodeid \in Nodes, AddNode(nodeid)
        PROVE  Leads
    BY <1>1, <2>2, NodeAddLeadsEquals DEF ListInv, AddNode
  <2>3. ASSUME NEW nodeid \in Nodes, RemoveNode(nodeid)
        PROVE  Leads
    BY <2>3 DEF RemoveNode
  <2>4. CASE RemoveAllNodes
    BY <2>4 DEF RemoveAllNodes
  <2>5. QED
    BY <1>1, <2>1, <2>2, <2>3, <2>4 DEF Next
<1>2. QED
  BY <1>1, ListInvariant, PTL DEF Spec, NewcomerLeadsItsEquals

=============================================================================
