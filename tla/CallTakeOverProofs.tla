------------------------- MODULE CallTakeOverProofs -------------------------
(***************************************************************************)
(* What becomes of the calls of CallRecovery when the first master falls:  *)
(* those that its backup could recover are taken over and kept until their *)
(* parties hang up. Before the fall nothing is under way that would cost   *)
(* the backup their rows, its role or its place in the list; then the news *)
(* of the departure comes to it before anything that would.                *)
(***************************************************************************)
EXTENDS CallReplicationProofs

-----------------------------------------------------------------------------
(* The calls of a fallen master *)

(* Nobody hears from m but that it serves; who lists m takes it for the    *)
(* master; who backs it up lists both.                                     *)
Known(m) ==
  \A b \in Nodes \ {m} :
    /\ \A e \in ToSet(inbox[b]) : e.type = "state" /\ e.nodeid = m => e.state \in Active
    /\ m \in ToSet(vip[b].node_list) => vip[b].master_id = m
    /\ vip[b].state = "BACKUP" => {m, b} \subseteq ToSet(vip[b].node_list)

(* What a node that follows m learns from an event.                        *)
LEMMA KnownByFollower ==
  ASSUME AtMostTwoNodes, ViewInv, NEW m \in Nodes, Unrivalled(m), Known(m),
         NEW b \in Nodes \ {m}, HandleEvent(b), sofia[b].calls = {}
  PROVE  /\ m \in ToSet(vip'[b].node_list) => vip'[b].master_id = m
         /\ vip'[b].state = "BACKUP" => {m, b} \subseteq ToSet(vip'[b].node_list)
<1> DEFINE e == Head(inbox[b])
           v == vip[b]
           w == vip'[b]
<1>1. /\ CallsInv /\ SoundTypes /\ v \in SoundVips
      /\ inbox[b] \in Seq(GroupEventsOf(made))
  BY DEF ViewInv, CallsInv, TypeInv, SoundTypes
<1>2. inbox[b] # <<>> /\ e \in GroupEventsOf(made) /\ IsGroupEvent(e) /\ HandledBy(b, e, v, w)
  BY <1>1, HandleShape
<1>3. e \in ToSet(inbox[b])
  BY <1>1, <1>2, ToSetHeadTail
<1>4. /\ e.type = "state" /\ e.nodeid = m => e.state \in Active
      /\ e.type = "state" /\ e.state \in Active => e.nodeid = m
  BY <1>3 DEF Known, Unrivalled
<1>5. w = IdleVip \/ Tracks(v, e, w)
  BY <1>2 DEF HandledBy
<1>6. IdleVip.state = "IDLE" /\ ToSet(IdleVip.node_list) = {}
  BY DEF IdleVip, ToSet
<1>7. Unrivalled(m) /\ Known(m)
  OBVIOUS
<1> HIDE DEF e, v, w
<1>8. m \in ToSet(w.node_list) => w.master_id = m
  <2> SUFFICES ASSUME m \in ToSet(w.node_list), Tracks(v, e, w) PROVE w.master_id = m
    BY <1>5, <1>6
  <2>1. m \in ToSet(v.node_list) \/ (e.type = "state" /\ e.nodeid = m)
    BY DEF Tracks
  <2>2. m \in ToSet(v.node_list) => v.master_id = m
    BY DEF Known, v
  <2>3. w # IdleVip
    BY <1>6
  <2>4. QED
    BY <1>2, <1>4, <2>1, <2>2, <2>3 DEF HandledBy
<1>9. w.state = "BACKUP" => {m, b} \subseteq ToSet(w.node_list)
  <2> SUFFICES ASSUME w.state = "BACKUP", Tracks(v, e, w), w # IdleVip
               PROVE  {m, b} \subseteq ToSet(w.node_list)
    BY <1>5, <1>6
  <2>1. w.node_list \in NodeLists /\ w.member_list \in SUBSET Nodes /\ w.node_list \in Seq(Nodes)
    BY <1>2 DEF HandledBy, SoundVips, NodeLists
  <2>2. CASE v.state # "BACKUP"
    <3>1. e.type = "state" /\ list_entries(w.node_list) = member_list_entries(w)
      BY <1>2, <2>2 DEF HandledBy
    <3>2. Follows(b)
      BY <1>2 DEF HandledBy, Follows, v
    <3>3. ~ViewLacks(v, inbox[b], b) /\ ~ViewLacks(v, inbox[b], m)
      BY <1>7, <3>2 DEF ViewInv, NobodyLacksItself, Unrivalled, v
    <3>4. inbox[b][1] = e
      BY <1>1, <1>2, HeadTailProperties DEF e
    <3>5. b \in v.member_list /\ m \in v.member_list
      BY <3>1, <3>3, <3>4 DEF ViewLacks, IsConfig
    <3>6. w.member_list = {m, b}
      BY <2>1, <3>1, <3>5 DEF Tracks, AtMostTwoNodes
    <3>7. Cardinality({m, b}) = 2
      <4>1. IsFiniteSet({m}) /\ Cardinality({m}) = 1 /\ b \notin {m} /\ {m, b} = {m} \cup {b}
        BY FS_Singleton
      <4>2. Cardinality({m} \cup {b}) = Cardinality({m}) + 1
        BY <4>1, FS_AddElement
      <4>3. QED
        BY <4>1, <4>2
    <3>8. Cardinality(ToSet(w.node_list)) = 2
      BY <2>1, <3>1, <3>6, <3>7, LengthCountsElements DEF member_list_entries
    <3>9. ToSet(w.node_list) \subseteq Nodes
      BY <2>1 DEF ToSet
    <3>10. Nodes = {m, b} /\ IsFiniteSet({m, b})
      BY NodesAssumption DEF AtMostTwoNodes
    <3>11. ToSet(w.node_list) = {m, b}
      BY <3>7, <3>8, <3>9, <3>10, FS_Subset
    <3>12. QED
      BY <3>11
  <2>3. CASE v.state = "BACKUP"
    <3>1. {m, b} \subseteq ToSet(v.node_list)
      BY <1>7, <2>3 DEF Known, v
    <3>2. e.type # "down"
      <4> SUFFICES ASSUME e.type = "down" PROVE FALSE
        OBVIOUS
      <4>1. e.nodeid \in {m, b} /\ e.nodeid \notin e.member_list
        BY <1>2, <1>3 DEF ViewInv, DeparturesAreOut, IsGroupEvent, AtMostTwoNodes
      <4>2. ~ViewLacks(v, inbox[b], b) /\ ~ViewLacks(v, inbox[b], m)
        BY <1>7, <2>3 DEF ViewInv, NobodyLacksItself, Unrivalled, Follows, v
      <4>3. 1 \in 1..Len(inbox[b]) /\ inbox[b][1] = e
        BY <1>1, <1>2, HeadTailProperties, LenProperties, EmptySeq DEF e
      <4>4. QED
        BY <4>1, <4>2, <4>3 DEF ViewLacks, IsConfig
    <3>3. QED
      BY <1>2, <3>1, <3>2 DEF Tracks, IsGroupEvent
  <2>4. QED
    BY <2>2, <2>3
<1>10. QED
  BY <1>8, <1>9 DEF w

-----------------------------------------------------------------------------
(* What a step of one node changes for the others *)

(* Whatever x does.                                                        *)
Acts(x) ==
  \/ HandleEvent(x) \/ DeliverSql(x) \/ LeaveGroup(x)
  \/ HandleFsEvent(x) \/ CallBegins(x) \/ CallEnds(x)
  \/ Stop(x) \/ StopReturns(x) \/ Crash(x) \/ Start(x) \/ Load(x)

(* What the others hear of it.                                             *)
News(x, e) ==
  /\ e \in GroupEventsOf(made)
  /\ e.type = "down" => e.nodeid = x
  /\ e.type = "state" => /\ Follows(x) /\ e.nodeid = x /\ e.state = vip'[x].state
  /\ e.type = "sql" => \E d \in ToSet(sofia[x].events) : d.type = "recovery_send" /\ d.sql = e.sql

(* The rest is left alone.                                                 *)
Untouched(x) ==
  /\ \A n \in Nodes \ {x} : vip'[n] = vip[n] /\ phase'[n] = phase[n] /\ sofia'[n] = sofia[n]
  /\ \A n \in Nodes \ {x} : profiles'[n] = profiles[n] /\ launch'[n] = launch[n]

(* An inbox to which at most one event of x has come.                      *)
Told(x, n) == inbox'[n] = inbox[n] \/ \E e : News(x, e) /\ inbox'[n] = inbox[n] \o <<e>>

(* x itself hears what it says, after what it has dispatched.              *)
HearsItself(x) == \A e \in ToSet(inbox'[x]) : e \in ToSet(inbox[x]) \/ News(x, e)

LEMMA StepNews ==
  ASSUME CallsInv, NEW x \in Nodes, Acts(x)
  PROVE  Untouched(x) /\ HearsItself(x) /\ \A n \in Nodes \ {x} : Told(x, n)
<1> DEFINE S == GroupEventsOf(made)
           Goal == Untouched(x) /\ HearsItself(x) /\ \A n \in Nodes \ {x} : Told(x, n)
<1>1. /\ SoundTypes /\ \A n \in Nodes : inbox[n] \in Seq(S)
      /\ DOMAIN vip = Nodes /\ DOMAIN phase = Nodes /\ DOMAIN sofia = Nodes
      /\ DOMAIN profiles = Nodes /\ DOMAIN launch = Nodes /\ DOMAIN inbox = Nodes
      /\ vip[x] \in SoundVips /\ sofia[x].events \in Seq(FsEventsOf(made))
  BY DEF CallsInv, TypeInv, SoundTypes, Sofias
<1>2. ASSUME NEW e, News(x, e), \A n \in Nodes : inbox'[n] = inbox[n] \/ inbox'[n] = inbox[n] \o <<e>>
      PROVE  HearsItself(x) /\ \A n \in Nodes \ {x} : Told(x, n)
  <2>1. ToSet(inbox[x] \o <<e>>) = ToSet(inbox[x]) \cup {e}
    BY <1>1, <1>2, ToSetAppended DEF News
  <2>2. QED
    BY <1>2, <2>1 DEF HearsItself, Told
<1>3. ASSUME inbox' = inbox PROVE HearsItself(x) /\ \A n \in Nodes \ {x} : Told(x, n)
  BY <1>3 DEF HearsItself, Told
<1>4. ASSUME HandleEvent(x) PROVE Goal
  <2> DEFINE e == Head(inbox[x])
             msg == Message(x, vip'[x].state)
  <2>1. /\ inbox[x] # <<>>
        /\ HandledBy(x, e, vip[x], vip'[x])
        /\ \A n \in Nodes \ {x} : vip'[n] = vip[n] /\ sofia'[n] = sofia[n]
        /\ \/ \A n \in Nodes : inbox'[n] = Rest(x, n)
           \/ \A n \in Nodes : inbox'[n] = IF n \in Joined THEN Rest(x, n) \o <<msg>> ELSE Rest(x, n)
        /\ ~Follows(x) => \A n \in Nodes : inbox'[n] = Rest(x, n)
    BY <1>4, HandleShape
  <2>2. Untouched(x)
    BY <1>4, <2>1 DEF Untouched, HandleEvent
  <2>3. Rest(x, x) \in Seq(S) /\ ToSet(inbox[x]) = {e} \cup ToSet(Rest(x, x))
    BY <1>1, <2>1, ToSetHeadTail DEF Rest
  <2>4. \A n \in Nodes \ {x} : Rest(x, n) = inbox[n]
    BY DEF Rest
  <2>5. CASE \A n \in Nodes : inbox'[n] = Rest(x, n)
    BY <2>2, <2>3, <2>4, <2>5 DEF HearsItself, Told
  <2>6. CASE ~(\A n \in Nodes : inbox'[n] = Rest(x, n))
    <3>1. msg.type = "state" /\ msg.nodeid = x /\ msg.state = vip'[x].state /\ msg \in S
      BY <1>1, <2>1, UuidType DEF Message, GroupEventsOf, HandledBy, SoundVips
    <3>2. Follows(x) /\ \A n \in Nodes : inbox'[n] = Rest(x, n) \/ inbox'[n] = Rest(x, n) \o <<msg>>
      BY <2>1, <2>6
    <3>3. News(x, msg)
      BY <3>1, <3>2 DEF News
    <3> HIDE DEF msg
    <3>4. ToSet(Rest(x, x) \o <<msg>>) = ToSet(Rest(x, x)) \cup {msg}
      BY <2>3, <3>1, ToSetAppended
    <3>5. HearsItself(x)
      BY <2>3, <3>2, <3>3, <3>4 DEF HearsItself
    <3>6. QED
      BY <2>2, <2>4, <3>2, <3>3, <3>5 DEF Told
  <2>7. QED
    BY <2>5, <2>6
<1>5. ASSUME DeliverSql(x) PROVE Goal
  <2>1. inbox[x] # <<>> /\ inbox' = [inbox EXCEPT ![x] = Tail(@)]
    BY <1>5 DEF DeliverSql
  <2>2. ToSet(inbox'[x]) \subseteq ToSet(inbox[x]) /\ \A n \in Nodes \ {x} : inbox'[n] = inbox[n]
    BY <1>1, <2>1, ToSetHeadTail
  <2>3. Untouched(x)
    BY <1>1, <1>5 DEF DeliverSql, Untouched
  <2>4. QED
    BY <2>2, <2>3 DEF HearsItself, Told
<1>6. ASSUME HandleFsEvent(x) PROVE Goal
  <2> DEFINE d == Head(sofia[x].events)
  <2>1. /\ sofia[x].events # <<>>
        /\ inbox' = inbox \/ (d.type = "recovery_send" /\ event_handler(x, d))
    BY <1>6 DEF HandleFsEvent
  <2>2. Untouched(x)
    BY <1>1, <1>6 DEF HandleFsEvent, Untouched
  <2>3. d \in FsEventsOf(made) /\ d \in ToSet(sofia[x].events)
    BY <1>1, <2>1, ToSetHeadTail
  <2> HIDE DEF d
  <2>4. CASE d.type = "recovery_send" /\ event_handler(x, d)
    <3> DEFINE sql == Sql(x, d.profile, d.sql)
    <3>1. d.profile \in SipProfiles /\ d.sql \in StatementsOf(made)
      BY <2>3, <2>4 DEF FsEventsOf
    <3>2. sql \in S /\ sql.type = "sql" /\ sql.sql = d.sql
      BY <3>1 DEF Sql, GroupEventsOf
    <3>3. \A n \in Nodes : inbox'[n] = inbox[n] \/ inbox'[n] = inbox[n] \o <<sql>>
      BY <1>1, <2>4, SendShape
    <3> HIDE DEF sql
    <3>4. News(x, sql)
      BY <2>3, <2>4, <3>2 DEF News
    <3>5. QED
      BY <1>2, <2>2, <3>3, <3>4
  <2>5. QED
    BY <1>3, <2>1, <2>2, <2>4
<1>7. ASSUME CallBegins(x) \/ CallEnds(x) PROVE Goal
  <2>1. Untouched(x) /\ inbox' = inbox
    BY <1>1, <1>7 DEF CallBegins, CallEnds, groupVars, Untouched
  <2>2. QED
    BY <1>3, <2>1
<1>8. ASSUME Stop(x) \/ StopReturns(x) PROVE Goal
  <2>1. Untouched(x) /\ inbox' = inbox
    BY <1>1, <1>8 DEF Stop, StopReturns, Untouched
  <2>2. QED
    BY <1>3, <2>1
<1>9. ASSUME LeaveGroup(x) \/ Crash(x) PROVE Goal
  <2>1. Untouched(x)
    BY <1>1, <1>9 DEF LeaveGroup, Crash, Untouched
  <2>2. inbox' = inbox \/ inbox' = Departure(x)
    BY <1>9 DEF LeaveGroup, Crash, Falls
  <2>3. CASE inbox' = Departure(x)
    <3> DEFINE down == Down(x, Joined \ {x})
    <3>1. /\ inbox'[x] = <<>> /\ down \in S /\ down.type = "down" /\ down.nodeid = x
          /\ \A n \in Nodes \ {x} : inbox'[n] = inbox[n] \/ inbox'[n] = inbox[n] \o <<down>>
      BY <1>1, <2>3, DepartureShape
    <3> HIDE DEF down
    <3>2. News(x, down)
      BY <3>1 DEF News
    <3>3. QED
      BY <2>1, <3>1, <3>2 DEF HearsItself, Told, ToSet
  <2>4. QED
    BY <1>3, <2>1, <2>2, <2>3
<1>10. ASSUME Start(x) \/ Load(x) PROVE Goal
  <2> DEFINE up == Up(Joined \cup {x})
  <2>1. GoUp(x)
    BY <1>10 DEF Start, Load
  <2>2. /\ \A n \in Nodes \ {x} : vip'[n] = vip[n]
        /\ \A n \in Nodes \ {x} : phase'[n] = phase[n]
        /\ up \in S /\ up.type = "up"
    BY <1>1, <2>1, JoinShape
  <2>3. \A n \in Nodes : inbox'[n] = IF n \in Joined \cup {x} THEN inbox[n] \o <<up>> ELSE inbox[n]
    BY <1>1, <2>1, JoinShape
  <2>4. Untouched(x)
    BY <1>1, <1>10, <2>2 DEF Start, Load, historyVars, Untouched
  <2> HIDE DEF up
  <2>5. News(x, up)
    BY <2>2 DEF News
  <2>6. QED
    BY <1>2, <2>4, <2>5, <2>3
<1>11. QED
  BY <1>4, <1>5, <1>6, <1>7, <1>8, <1>9, <1>10 DEF Acts

-----------------------------------------------------------------------------
(* Before the fall *)

(* A statement that removes no row of the calls C.                         *)
Spares(e, C) ==
  Carries(e) => \/ e.sql.op \in {"insert", "insert_missing"}
                \/ e.sql.op = "delete" /\ \A r \in e.sql.rows : r.uuid \notin C

(* What is on the way from m to those who follow spares its calls.         *)
HandsOver(m) ==
  /\ \A e \in ToSet(sofia[m].events) : e.type = "recovery_send" => Spares(e, sofia[m].calls)
  /\ \A b \in Nodes \ {m} :
       /\ sofia[b].calls = {}
       /\ \A e \in ToSet(sofia[b].events) : e.type = "recovery_recv" /\ Spares(e, sofia[m].calls)
       /\ \A e \in ToSet(inbox[b]) : Spares(e, sofia[m].calls)

(* Only m may still fall, and only once.                                   *)
Limits(m) ==
  /\ left["ip"] = {} /\ left["fall"] \subseteq {m}
  /\ phase[m] = "stopping" => left["fall"] = {}
  /\ \A n \in Nodes \ {m} : phase[n] # "stopping"

(* A node that follows has its own id.                                      *)
KnowsItself == \A n \in Nodes : Follows(n) => vip[n].node_id = n

(* The first master serves, or waits in its go_down to leave the group.    *)
Before(m) ==
  /\ ViewInv /\ KnowsItself /\ Unrivalled(m) /\ Known(m) /\ HandsOver(m) /\ Limits(m)
  /\ m \in Serving \/ phase[m] = "stopping"
  /\ owed = {}

(* What may still happen becomes less.                                     *)
LEMMA LimitsStep ==
  ASSUME SoundTypes, NEW m \in Nodes, Limits(m), NEW x \in Nodes, Acts(x)
  PROVE  /\ left'["ip"] = {} /\ left'["fall"] \subseteq left["fall"]
         /\ Stop(x) \/ Crash(x) => x = m /\ left'["fall"] = {} /\ m \in left["fall"]
         /\ ~Stop(x) /\ phase'[x] = "stopping" => phase[x] = "stopping"
         /\ HandleEvent(x) => left' = left
<1>1. /\ left \in [Kinds -> SUBSET Nodes] /\ "ip" \in Kinds /\ "fall" \in Kinds /\ "up" \in Kinds
      /\ phase \in [Nodes -> {"dead", "idle", "running", "stopping", "returning"}]
  BY DEF SoundTypes, Kinds
<1>2. ~Spend("ip", x)
  BY DEF Spend, Limits
<1>3. ASSUME Spend("fall", x) PROVE x = m /\ left'["ip"] = {} /\ left'["fall"] = {} /\ m \in left["fall"]
  BY <1>1, <1>3 DEF Spend, Limits
<1>4. ASSUME Spend("up", x) PROVE left'["ip"] = {} /\ left'["fall"] = left["fall"]
  BY <1>1, <1>4 DEF Spend, Limits
<1>5. CASE HandleEvent(x)
  <2>1. left' = left /\ phase' = phase
    BY <1>2, <1>5 DEF HandleEvent
  <2>2. ~Stop(x) /\ ~Crash(x)
    BY <1>1, <1>3, <2>1 DEF Stop, Crash, Limits
  <2>3. QED
    BY <2>1, <2>2 DEF Limits
<1>6. CASE DeliverSql(x) \/ LeaveGroup(x) \/ HandleFsEvent(x) \/ CallBegins(x) \/ CallEnds(x)
           \/ StopReturns(x)
  <2>1. left' = left
    BY <1>6 DEF DeliverSql, LeaveGroup, HandleFsEvent, CallBegins, CallEnds, StopReturns
  <2>2. phase'[x] = "stopping" => phase[x] = "stopping"
    BY <1>1, <1>6 DEF DeliverSql, LeaveGroup, HandleFsEvent, CallBegins, CallEnds, StopReturns,
                      groupVars
  <2>3. ~Stop(x) /\ ~Crash(x)
    BY <1>3, <2>1 DEF Stop, Crash
  <2>4. QED
    BY <2>1, <2>2, <2>3 DEF Limits
<1>7. CASE Stop(x) \/ Crash(x)
  <2>1. Spend("fall", x)
    BY <1>7 DEF Stop, Crash
  <2>2. Crash(x) => phase'[x] # "stopping"
    BY <1>1 DEF Crash
  <2>3. x = m /\ left'["ip"] = {} /\ left'["fall"] = {} /\ m \in left["fall"]
    BY <1>3, <2>1
  <2>4. ~HandleEvent(x)
    <3>1. HandleEvent(x) => left' = left
      BY <1>2 DEF HandleEvent
    <3>2. QED
      BY <2>3, <3>1
  <2>5. ~Stop(x) => phase'[x] # "stopping"
    BY <1>7, <2>2
  <2>6. left'["fall"] \subseteq left["fall"]
    BY <2>3
  <2>7. QED
    BY <2>3, <2>4, <2>5, <2>6
<1>8. CASE Start(x) \/ Load(x)
  <2>1. Spend("up", x) /\ phase'[x] = "running"
    BY <1>1, <1>8 DEF Start, Load, GoUp
  <2>2. phase'[x] # "stopping" /\ phase'[x] # "dead"
    BY <2>1
  <2>3. ~Stop(x) /\ ~Crash(x)
    BY <1>1, <2>2 DEF Stop, Crash
  <2>4. ~HandleEvent(x)
    <3>1. phase[x] \in {"dead", "idle"}
      BY <1>8 DEF Start, Load
    <3>2. QED
      BY <3>1 DEF HandleEvent, Joined
  <2>5. left'["ip"] = {} /\ left'["fall"] = left["fall"]
    BY <1>4, <2>1
  <2>6. QED
    BY <2>2, <2>3, <2>4, <2>5
<1>9. QED
  BY <1>5, <1>6, <1>7, <1>8 DEF Acts

(* A step of a node that follows m.                                        *)
LEMMA FollowerStep ==
  ASSUME AtMostTwoNodes, NEW m \in Nodes, Before(m), NEW x \in Nodes \ {m}, Acts(x)
  PROVE  /\ Subject(m, x)' /\ sofia'[x].calls = {}
         /\ m \in ToSet(vip'[x].node_list) => vip'[x].master_id = m
         /\ vip'[x].state = "BACKUP" => {m, x} \subseteq ToSet(vip'[x].node_list)
         /\ \A e \in ToSet(sofia'[x].events) :
              e.type = "recovery_recv" /\ Spares(e, sofia[m].calls)
<1> DEFINE v == vip[x]
           s == sofia[x]
           Role == /\ Subject(m, x)'
                   /\ m \in ToSet(vip'[x].node_list) => vip'[x].master_id = m
                   /\ vip'[x].state = "BACKUP" => {m, x} \subseteq ToSet(vip'[x].node_list)
           Data == /\ sofia'[x].calls = {}
                   /\ \A e \in ToSet(sofia'[x].events) :
                        e.type = "recovery_recv" /\ Spares(e, sofia[m].calls)
<1>1. /\ SoundTypes /\ x \in Nodes /\ sofia \in [Nodes -> Sofias(made)] /\ s \in Sofias(made)
      /\ s.events \in Seq(FsEventsOf(made)) /\ inbox[x] \in Seq(GroupEventsOf(made))
      /\ vip \in [Nodes -> SoundVips] /\ v \in SoundVips
  BY DEF Before, ViewInv, CallsInv, TypeInv, SoundTypes, Sofias
<1>2. /\ ViewInv /\ Unrivalled(m) /\ Known(m) /\ HandsOver(m) /\ Limits(m)
  BY DEF Before
<1>3. ASSUME vip'[x] = vip[x] PROVE Role
  BY <1>2, <1>3 DEF Unrivalled, Subject, Known
<1>4. s.calls = {} /\ \A e \in ToSet(s.events) : e.type = "recovery_recv" /\ Spares(e, sofia[m].calls)
  BY <1>2 DEF HandsOver
<1>5. ASSUME sofia'[x] = sofia[x] PROVE Data
  BY <1>4, <1>5
<1>6. ASSUME HandleEvent(x) PROVE Role /\ Data
  <2>1. Subject(m, x)' /\ sofia'[x] = sofia[x]
    BY <1>2, <1>4, <1>6, FollowerHandles
  <2>2. Role
    BY <1>2, <1>4, <1>6, <2>1, KnownByFollower
  <2>3. QED
    BY <1>5, <2>1, <2>2
<1>7. ASSUME DeliverSql(x) PROVE Role /\ Data
  <2> DEFINE e == Head(inbox[x])
             recv == [type |-> "recovery_recv", profile |-> e.profile, sql |-> e.sql]
  <2>1. /\ vip' = vip /\ inbox[x] # <<>> /\ e.type = "sql"
        /\ \/ sofia' = sofia
           \/ sofia' = [sofia EXCEPT ![x] = utils_send_track_event(@, e.sql, e.profile)]
    BY <1>7 DEF DeliverSql
  <2>2. e \in GroupEventsOf(made) /\ e \in ToSet(inbox[x])
    BY <1>1, <2>1, ToSetHeadTail
  <2>3. CASE sofia' = [sofia EXCEPT ![x] = utils_send_track_event(@, e.sql, e.profile)]
    <3>1. sofia'[x] = Fire(s, recv)
      BY <1>1, <2>3 DEF utils_send_track_event
    <3>2. recv \in FsEventsOf(made)
      BY <2>1, <2>2 DEF FsEventsOf, GroupEventsOf
    <3>3. recv.type = "recovery_recv" /\ Spares(recv, sofia[m].calls)
      BY <1>2, <2>1, <2>2 DEF HandsOver, Spares, Carries
    <3> HIDE DEF recv
    <3>4. sofia'[x].calls = s.calls /\ ToSet(sofia'[x].events) = ToSet(s.events) \cup {recv}
      <4>1. sofia[x] \in Sofias(made)
        BY <1>1
      <4>2. /\ Fire(sofia[x], recv).calls = sofia[x].calls
            /\ ToSet(Fire(sofia[x], recv).events) = ToSet(sofia[x].events) \cup {recv}
        <5>1. Fire(sofia[x], recv).calls = sofia[x].calls
          BY <3>2, <4>1, Fired
        <5>2. ToSet(Fire(sofia[x], recv).events) = ToSet(sofia[x].events) \cup {recv}
          <6>1. Fire(sofia[x], recv).events = sofia[x].events \o <<recv>>
            BY <3>2, <4>1, Fired
          <6>2. ToSet(sofia[x].events \o <<recv>>) = ToSet(sofia[x].events) \cup {recv}
            BY <1>1, <3>2, ToSetAppended
          <6>3. QED
            BY <6>1, <6>2
        <5>3. QED
          BY <5>1, <5>2
      <4>3. QED
        BY <3>1, <4>2
    <3>5. Data
      BY <1>4, <3>3, <3>4
    <3>6. QED
      BY <1>3, <2>1, <3>5
  <2>4. QED
    BY <1>3, <1>5, <2>1, <2>3
<1>8. ASSUME LeaveGroup(x) PROVE Role /\ Data
  BY <1>3, <1>5, <1>8 DEF LeaveGroup
<1>9. ASSUME HandleFsEvent(x) PROVE Role /\ Data
  <2> DEFINE e == Head(s.events)
             rest == [s EXCEPT !.events = Tail(@)]
  <2>1. s.events # <<>> /\ vip' = vip
    BY <1>9 DEF HandleFsEvent
  <2>2. e \in ToSet(s.events) /\ ToSet(Tail(s.events)) \subseteq ToSet(s.events)
    BY <1>1, <2>1, ToSetHeadTail
  <2>3. e.type = "recovery_recv"
    BY <1>4, <2>2
  <2>4. sofia'[x] = [rest EXCEPT !.sip_recovery = Execute(@, e.sql)]
    BY <1>1, <1>9, <2>3 DEF HandleFsEvent, TrackEvent
  <2>5. sofia'[x].calls = s.calls /\ sofia'[x].events = Tail(s.events)
    BY <1>1, <2>4 DEF Sofias
  <2>6. QED
    BY <1>3, <1>4, <2>1, <2>2, <2>5
<1>10. ASSUME CallBegins(x) \/ CallEnds(x) PROVE FALSE
  BY <1>2, <1>4, <1>10 DEF CallBegins, CallEnds, Unrivalled, Subject
<1>11. ASSUME Stop(x) \/ Crash(x) PROVE FALSE
  BY <1>1, <1>2, <1>11, LimitsStep
<1>12. ASSUME StopReturns(x) PROVE Role /\ Data
  <2>1. HangUpCalls(x, sofia[x]) = sofia[x]
    BY <1>1, <1>4, NothingToHangUp
  <2>2. sofia'[x] = sofia[x] /\ vip' = vip
    BY <1>1, <1>12, <2>1 DEF StopReturns
  <2>3. QED
    BY <1>3, <1>5, <2>2
<1>13. ASSUME Start(x) \/ Load(x) PROVE Role /\ Data
  <2>1. GoUp(x) /\ sofia' = sofia
    BY <1>13 DEF Start, Load
  <2>2. vip'[x] = [v EXCEPT !.state = "START", !.node_id = x]
    BY <1>1, <2>1, JoinShape
  <2>3. /\ vip'[x].state = "START" /\ vip'[x].node_id = x
        /\ vip'[x].master_id = v.master_id /\ vip'[x].node_list = v.node_list
    BY <1>1, <2>2 DEF SoundVips
  <2>4. Role
    BY <1>2, <2>3 DEF Unrivalled, Subject, Known, Active
  <2>5. QED
    BY <1>5, <2>1, <2>4
<1>14. QED
  BY <1>6, <1>7, <1>8, <1>9, <1>10, <1>11, <1>12, <1>13 DEF Acts

(* An element more, whatever it is.                                        *)
LEMMA LastQueued ==
  ASSUME NEW S, NEW seq \in Seq(S), NEW e
  PROVE  ToSet(Append(seq, e)) = ToSet(seq) \cup {e}
<1>1. PICK T : seq \in Seq(T) /\ e \in T
  <2>1. seq \in Seq(S \cup {e}) /\ e \in S \cup {e}
    BY LargerSeq
  <2>2. QED
    BY <2>1
<1>2. ASSUME NEW q \in Seq(T), NEW d \in T
      PROVE  ToSet(Append(q, d)) = ToSet(q) \cup {d}
  <2>1. Append(q, d) = q \o <<d>>
    BY ToSetAppended
  <2>2. ToSet(q \o <<d>>) = ToSet(q) \cup {d}
    BY ToSetAppended
  <2>3. QED
    BY <2>1, <2>2
<1>3. QED
  BY <1>1, <1>2

(* New calls are named by no statement under way.                          *)
LEMMA SparesMore ==
  ASSUME NEW e, NEW C, NEW D, Spares(e, C), Carries(e) => e.sql \in StatementsOf(made),
         \A c \in D : c \in C \/ c \notin made
  PROVE  Spares(e, D)
<1> SUFFICES ASSUME Carries(e), e.sql.op = "delete", NEW r \in e.sql.rows
             PROVE  r.uuid \notin D
  BY DEF Spares
<1>1. r.uuid \notin C
  BY DEF Spares
<1>2. e.sql.rows \in SUBSET RowsOf(made)
  BY DEF StatementsOf
<1>3. QED
  BY <1>1, <1>2 DEF RowsOf

(* Only vip_thread sets node_id, to the id CPG gives, and go_down resets   *)
(* it.                                                                     *)
LEMMA KnowsItselfKept ==
  ASSUME CallsInv, KnowsItself, NEW x \in Nodes, Acts(x)
  PROVE  KnowsItself'
<1>1. SoundTypes /\ vip \in [Nodes -> SoundVips]
  BY DEF CallsInv, TypeInv, SoundTypes
<1>2. IdleVip.state = "IDLE"
  BY DEF IdleVip
<1>3. \A n \in Nodes \ {x} : vip'[n] = vip[n]
  BY StepNews DEF Untouched
<1>4. CASE HandleEvent(x)
  <2>1. HandledBy(x, Head(inbox[x]), vip[x], vip'[x])
    BY <1>4, HandleShape
  <2>2. QED
    BY <1>2, <1>3, <2>1 DEF HandledBy, KnowsItself, Follows
<1>5. CASE Start(x) \/ Load(x)
  <2>1. vip'[x].node_id = x
    BY <1>1, <1>5, JoinShape DEF Start, Load
  <2>2. QED
    BY <1>3, <2>1 DEF KnowsItself, Follows
<1>6. CASE Stop(x) \/ Crash(x)
  <2>1. vip'[x] = IdleVip
    BY <1>1, <1>6 DEF Stop, Crash, go_down
  <2>2. QED
    BY <1>2, <1>3, <2>1 DEF KnowsItself, Follows
<1>7. CASE vip' = vip
  BY <1>7 DEF KnowsItself, Follows
<1>8. QED
  BY <1>4, <1>5, <1>6, <1>7
     DEF Acts, DeliverSql, LeaveGroup, HandleFsEvent, CallBegins, CallEnds, StopReturns, groupVars

(* A call begins: the event reports its row.                               *)
LEMMA CallTracked ==
  ASSUME SoundTypes, NEW m \in Nodes, NEW c,
         sofia' = [sofia EXCEPT ![m] = Track(@, uuid(m), {c}, ProfileOf[c])]
  PROVE  /\ sofia'[m].calls = sofia[m].calls \cup {c}
         /\ \A e \in ToSet(sofia'[m].events) :
              e \in ToSet(sofia[m].events) \/ e.sql = Insert({Row(c, uuid(m))})
<1> DEFINE s == sofia[m]
           u == uuid(m)
           changed == [s EXCEPT !.calls = @ \cup {c}, !.sip_recovery = @ \cup {Row(c, u)}]
           sent == [type |-> "recovery_send", profile |-> ProfileOf[c],
                    sql |-> Insert({Row(c, u)})]
<1>1. {Row(d, u) : d \in {c}} = {Row(c, u)} /\ {c} # {}
  OBVIOUS
<1>2. s \in Sofias(made) /\ sofia \in [Nodes -> Sofias(made)]
  BY DEF SoundTypes
<1>3. sofia'[m] = Fire(changed, sent)
  BY <1>1, <1>2 DEF Track
<1>4. /\ changed.calls = s.calls \cup {c} /\ changed.events = s.events
      /\ DOMAIN changed = {"sip_recovery", "calls", "events"}
  BY <1>2 DEF Sofias
<1>5. sent.sql = Insert({Row(c, u)})
  OBVIOUS
<1> HIDE DEF changed, sent
<1>6. sofia'[m].calls = changed.calls /\ sofia'[m].events = Append(s.events, sent)
  BY <1>3, <1>4 DEF Fire
<1>7. ToSet(sofia'[m].events) = ToSet(s.events) \cup {sent}
  BY <1>2, <1>6, LastQueued DEF Sofias
<1>8. QED
  BY <1>4, <1>5, <1>6, <1>7

(* A call ends: the event reports its row gone.                            *)
LEMMA CallUntracked ==
  ASSUME SoundTypes, NEW m \in Nodes, NEW c,
         sofia' = [sofia EXCEPT ![m] = Untrack(@, uuid(m), {c}, ProfileOf[c])]
  PROVE  /\ sofia'[m].calls = sofia[m].calls \ {c}
         /\ \A e \in ToSet(sofia'[m].events) :
              e \in ToSet(sofia[m].events) \/ e.sql = Delete({Row(c, uuid(m))})
<1> DEFINE s == sofia[m]
           u == uuid(m)
           changed == [s EXCEPT !.calls = @ \ {c}, !.sip_recovery = @ \ {Row(c, u)}]
           sent == [type |-> "recovery_send", profile |-> ProfileOf[c],
                    sql |-> Delete({Row(c, u)})]
<1>1. {Row(d, u) : d \in {c}} = {Row(c, u)} /\ {c} # {}
  OBVIOUS
<1>2. s \in Sofias(made) /\ sofia \in [Nodes -> Sofias(made)]
  BY DEF SoundTypes
<1>3. sofia'[m] = Fire(changed, sent)
  BY <1>1, <1>2 DEF Untrack
<1>4. /\ changed.calls = s.calls \ {c} /\ changed.events = s.events
      /\ DOMAIN changed = {"sip_recovery", "calls", "events"}
  BY <1>2 DEF Sofias
<1>5. sent.sql = Delete({Row(c, u)})
  OBVIOUS
<1> HIDE DEF changed, sent
<1>6. sofia'[m].calls = changed.calls /\ sofia'[m].events = Append(s.events, sent)
  BY <1>3, <1>4 DEF Fire
<1>7. ToSet(sofia'[m].events) = ToSet(s.events) \cup {sent}
  BY <1>2, <1>6, LastQueued DEF Sofias
<1>8. QED
  BY <1>4, <1>5, <1>6, <1>7

(* What m holds and says: its calls are old or new ones, and what it sends *)
(* spares them.                                                            *)
Passes(m) ==
  /\ \A c \in sofia'[m].calls : c \in sofia[m].calls \/ c \notin made
  /\ \A e \in ToSet(sofia'[m].events) : e.type = "recovery_send" => Spares(e, sofia'[m].calls)

(* No new event but requests and statements of others.                     *)
LEMMA PassesOn ==
  ASSUME NEW m \in Nodes, Before(m), sofia'[m].calls = sofia[m].calls,
         \A e \in ToSet(sofia'[m].events) :
           e.type # "recovery_send" \/ e \in ToSet(sofia[m].events) \/ e.sql.op = "insert_missing"
  PROVE  Passes(m)
BY DEF Before, HandsOver, Passes, Spares

(* vip_thread and FreeSWITCH at the first master.                          *)
LEMMA MasterHandlesEvent ==
  ASSUME NEW m \in Nodes, Before(m), HandleEvent(m)
  PROVE  /\ m \in Serving => (m \in Serving)'
         /\ Passes(m)
<1> DEFINE e == Head(inbox[m])
<1>1. /\ CallsInv /\ SoundTypes /\ vip[m] \in SoundVips /\ sofia[m] \in Sofias(made)
  BY DEF Before, ViewInv, CallsInv, TypeInv, SoundTypes
<1>2. /\ IsGroupEvent(e) /\ HandledBy(m, e, vip[m], vip'[m])
      /\ sofia'[m] = OnCalls(m, vip[m], vip'[m], e, sofia[m])
  BY <1>1, HandleShape
<1> HIDE DEF e
<1>3. CASE m \in Serving
  <2>1. vip[m].state \in Active /\ vip'[m].state \in Active
    BY <1>2, <1>3 DEF Serving, HandledBy
  <2>2. sofia'[m] = IF e.type = "up" THEN virtual_ip_send_all_sql(m, sofia[m]) ELSE sofia[m]
    BY <1>1, <1>2, <2>1, HandledCalls
  <2>3. CASE sofia'[m] = sofia[m]
    BY <2>1, <2>3, PassesOn DEF Serving
  <2>4. CASE sofia'[m] = virtual_ip_send_all_sql(m, sofia[m])
    <3> DEFINE t == sofia'[m]
    <3>1. /\ t.calls = sofia[m].calls
          /\ ToSet(t.events) = ToSet(sofia[m].events) \cup {Request(name) : name \in Names(m)}
      BY <1>1, <2>4, RequestsSent
    <3>2. \A name : Request(name).type # "recovery_send"
      BY DEF Request
    <3>3. Passes(m)
      BY <3>1, <3>2, PassesOn
    <3>4. QED
      BY <2>1, <3>3 DEF Serving
  <2>5. QED
    BY <2>2, <2>3, <2>4
<1>4. CASE m \notin Serving
  <2>1. vip[m].state = "IDLE"
    BY <1>1, <1>4 DEF Before, CallsInv, NodeInv
  <2>2. Action(m, vip[m], e) \notin {"backupup", "react"}
    <3>1. \A event \in EventNames : table[event].IDLE \notin {"backupup", "react"}
      BY DEF table, EventNames
    <3>2. EventOf(m, vip[m], e) \in EventNames \cup {"none"}
      BY <1>2, <2>1 DEF EventOf, MessageEvent, Recorded, IsGroupEvent, EventNames
    <3>3. QED
      BY <2>1, <3>1, <3>2 DEF Action
  <2>3. sofia'[m] = sofia[m]
    BY <1>2, <2>1, <2>2 DEF OnCalls
  <2>4. QED
    BY <1>4, <2>3, PassesOn
<1>5. QED
  BY <1>3, <1>4

(* Statements on their way at the first master: it sends its own on, and   *)
(* fires those of its rows that were asked for.                            *)
LEMMA MasterMovesData ==
  ASSUME NEW m \in Nodes, Before(m), DeliverSql(m) \/ HandleFsEvent(m)
  PROVE  vip' = vip /\ phase' = phase /\ Passes(m)
<1> DEFINE s == sofia[m]
<1>1. /\ sofia \in [Nodes -> Sofias(made)] /\ s \in Sofias(made)
      /\ s.events \in Seq(FsEventsOf(made))
      /\ DOMAIN s = {"sip_recovery", "calls", "events"}
  BY DEF Before, ViewInv, CallsInv, TypeInv, SoundTypes, Sofias
<1>2. ASSUME sofia'[m] = s PROVE Passes(m)
  BY <1>2, PassesOn
<1>3. ASSUME NEW q, NEW rows, sofia'[m] = [s EXCEPT !.events = q, !.sip_recovery = rows],
             \A e \in ToSet(q) : e.type # "recovery_send" \/ e \in ToSet(s.events)
                                 \/ e.sql.op = "insert_missing"
      PROVE  Passes(m)
  <2>1. sofia'[m].calls = s.calls /\ sofia'[m].events = q
    BY <1>1, <1>3
  <2>2. QED
    BY <1>3, <2>1, PassesOn
<1>4. \A e : ToSet(Append(s.events, e)) = ToSet(s.events) \cup {e}
  BY <1>1, LastQueued
<1>5. CASE DeliverSql(m)
  <2> DEFINE e == Head(inbox[m])
             recv == [type |-> "recovery_recv", profile |-> e.profile, sql |-> e.sql]
  <2>1. /\ vip' = vip /\ phase' = phase
        /\ \/ sofia' = sofia
           \/ sofia' = [sofia EXCEPT ![m] = utils_send_track_event(@, e.sql, e.profile)]
    BY <1>5 DEF DeliverSql
  <2>2. CASE sofia' = [sofia EXCEPT ![m] = utils_send_track_event(@, e.sql, e.profile)]
    <3>1. sofia'[m] = [s EXCEPT !.events = Append(s.events, recv)]
      BY <1>1, <2>2 DEF utils_send_track_event, Fire
    <3>2. recv.type # "recovery_send"
      OBVIOUS
    <3> HIDE DEF recv, s
    <3>3. sofia'[m] = [s EXCEPT !.events = Append(s.events, recv), !.sip_recovery = s.sip_recovery]
      BY <1>1, <3>1
    <3> DEFINE q == Append(s.events, recv)
    <3>4. \A d \in ToSet(q) : d.type # "recovery_send" \/ d \in ToSet(s.events)
                             \/ d.sql.op = "insert_missing"
      BY <1>4, <3>2
    <3>5. sofia'[m] = [s EXCEPT !.events = q, !.sip_recovery = s.sip_recovery]
      BY <3>3
    <3> HIDE DEF q
    <3>6. Passes(m)
      BY <1>3, <3>4, <3>5
    <3>7. QED
      BY <2>1, <3>6
  <2>3. QED
    BY <1>2, <2>1, <2>2
<1>6. CASE HandleFsEvent(m)
  <2> DEFINE e == Head(s.events)
             rest == [s EXCEPT !.events = Tail(@)]
             all == [type |-> "recovery_send", profile |-> e.profile,
                     sql |-> InsertMissing(s.sip_recovery)]
  <2>1. /\ s.events # <<>> /\ vip' = vip /\ phase' = phase
        /\ \/ sofia'[m] = rest
           \/ sofia'[m] = TrackEvent(rest, e)
    BY <1>1, <1>6 DEF HandleFsEvent
  <2>2. Tail(s.events) \in Seq(FsEventsOf(made)) /\ ToSet(Tail(s.events)) \subseteq ToSet(s.events)
    BY <1>1, <2>1, ToSetHeadTail
  <2>3. rest.sip_recovery = s.sip_recovery /\ rest.events = Tail(s.events)
    BY <1>1
  <2>4. CASE sofia'[m] = rest
    <3>1. sofia'[m] = [s EXCEPT !.events = Tail(s.events), !.sip_recovery = s.sip_recovery]
      BY <1>1, <2>4
    <3>2. QED
      BY <1>3, <2>1, <2>2, <3>1
  <2>5. CASE sofia'[m] = TrackEvent(rest, e)
    <3>1. CASE e.type = "recovery_recv"
      <4>1. sofia'[m] = [s EXCEPT !.events = Tail(s.events),
                                  !.sip_recovery = Execute(s.sip_recovery, e.sql)]
        BY <1>1, <2>5, <3>1 DEF TrackEvent
      <4>2. QED
        BY <1>3, <2>1, <2>2, <4>1
    <3>2. CASE e.type # "recovery_recv" /\ s.sip_recovery # {}
      <4>1. sofia'[m] = [rest EXCEPT !.events = Append(@, all)]
        BY <2>3, <2>5, <3>2 DEF TrackEvent, Fire
      <4>2. all.sql.op = "insert_missing"
        BY DEF InsertMissing
      <4> HIDE DEF all
      <4>3. sofia'[m] = [s EXCEPT !.events = Append(Tail(s.events), all),
                                  !.sip_recovery = s.sip_recovery]
        BY <1>1, <4>1
      <4>4. ToSet(Append(Tail(s.events), all)) = ToSet(Tail(s.events)) \cup {all}
        BY <2>2, LastQueued
      <4> DEFINE q == Append(Tail(s.events), all)
      <4>5. \A d \in ToSet(q) : d.type # "recovery_send" \/ d \in ToSet(s.events)
                               \/ d.sql.op = "insert_missing"
        BY <2>2, <4>2, <4>4
      <4>6. sofia'[m] = [s EXCEPT !.events = q, !.sip_recovery = s.sip_recovery]
        BY <4>3
      <4> HIDE DEF q
      <4>7. QED
        BY <1>3, <2>1, <4>5, <4>6
    <3>3. CASE e.type # "recovery_recv" /\ s.sip_recovery = {}
      <4>1. sofia'[m] = rest
        BY <2>3, <2>5, <3>3 DEF TrackEvent
      <4>2. QED
        BY <2>4, <4>1
    <3>4. QED
      BY <3>1, <3>2, <3>3
  <2>6. QED
    BY <2>1, <2>4, <2>5
<1>7. QED
  BY <1>5, <1>6

(* A call begins or ends at the first master.                              *)
LEMMA MasterTakesCalls ==
  ASSUME NEW m \in Nodes, Before(m), CallBegins(m) \/ CallEnds(m)
  PROVE  Passes(m)
<1> DEFINE s == sofia[m]
<1>1. /\ SoundTypes /\ s \in Sofias(made)
      /\ s.events \in Seq(FsEventsOf(made)) /\ HandsOver(m) /\ made \subseteq Calls
  BY DEF Before, ViewInv, CallsInv, TypeInv, SoundTypes, Sofias
<1>2. ASSUME NEW e \in ToSet(s.events), e.type = "recovery_send",
             \A c \in sofia'[m].calls : c \in s.calls \/ c \notin made
      PROVE  Spares(e, sofia'[m].calls)
  <2>1. Spares(e, s.calls)
    BY <1>1, <1>2 DEF HandsOver
  <2>2. e \in FsEventsOf(made)
    BY <1>1, LenProperties DEF ToSet
  <2>3. e.sql \in StatementsOf(made)
    BY <1>2, <2>2 DEF FsEventsOf
  <2> HIDE DEF s
  <2>4. QED
    BY <1>2, <2>1, <2>3, SparesMore
<1>3. CASE CallBegins(m)
  <2>1. PICK c \in Calls \ made :
          sofia' = [sofia EXCEPT ![m] = Track(@, uuid(m), {c}, ProfileOf[c])]
    BY <1>3 DEF CallBegins
  <2> HIDE DEF s
  <2>3. /\ sofia'[m].calls = s.calls \cup {c}
        /\ \A e \in ToSet(sofia'[m].events) :
             e \in ToSet(s.events) \/ e.sql = Insert({Row(c, uuid(m))})
    BY <1>1, <2>1, CallTracked DEF s
  <2>4. \A e : e.sql = Insert({Row(c, uuid(m))}) => Spares(e, sofia'[m].calls)
    BY DEF Spares, Insert
  <2>5. QED
    BY <1>2, <2>3, <2>4 DEF Passes, s
<1>4. CASE CallEnds(m)
  <2>1. PICK c \in s.calls :
          sofia' = [sofia EXCEPT ![m] = Untrack(@, uuid(m), {c}, ProfileOf[c])]
    BY <1>4 DEF CallEnds
  <2> HIDE DEF s
  <2>3. /\ sofia'[m].calls = s.calls \ {c}
        /\ \A e \in ToSet(sofia'[m].events) :
             e \in ToSet(s.events) \/ e.sql = Delete({Row(c, uuid(m))})
    BY <1>1, <2>1, CallUntracked DEF s
  <2>4. \A e : e.sql = Delete({Row(c, uuid(m))}) => Spares(e, sofia'[m].calls)
    BY <2>3 DEF Spares, Delete, Row
  <2>5. QED
    BY <1>2, <2>3, <2>4 DEF Passes, s
<1>5. QED
  BY <1>3, <1>4

(* A step of the first master that does not take it out of the group.      *)
LEMMA MasterStep ==
  ASSUME NEW m \in Nodes, Before(m), Acts(m), ~LeaveGroup(m), ~Crash(m)
  PROVE  /\ (m \in Serving)' \/ phase'[m] = "stopping"
         /\ m \in Serving => (m \in Serving)' \/ inbox' = inbox
         /\ Passes(m)
<1>1. /\ SoundTypes /\ NodeInv(m)
      /\ phase \in [Nodes -> {"dead", "idle", "running", "stopping", "returning"}]
  BY DEF Before, ViewInv, CallsInv, TypeInv, SoundTypes
<1>2. /\ m \in Serving \/ phase[m] = "stopping"
      /\ m \in Serving => phase[m] = "running"
  BY <1>1 DEF Before, NodeInv, Serving, Active
<1>3. CASE HandleEvent(m)
  <2>1. phase' = phase
    BY <1>3 DEF HandleEvent
  <2>2. QED
    BY <1>2, <1>3, <2>1, MasterHandlesEvent
<1>4. CASE DeliverSql(m) \/ HandleFsEvent(m)
  <2>1. vip' = vip /\ phase' = phase /\ Passes(m)
    BY <1>4, MasterMovesData
  <2>2. QED
    BY <1>2, <2>1 DEF Serving
<1>5. CASE CallBegins(m) \/ CallEnds(m)
  <2>1. vip' = vip /\ phase' = phase /\ inbox' = inbox
    BY <1>5 DEF CallBegins, CallEnds, groupVars
  <2>2. Passes(m)
    BY <1>5, MasterTakesCalls
  <2>3. QED
    BY <1>2, <2>1, <2>2 DEF Serving
<1>6. CASE Stop(m)
  <2>1. phase'[m] = "stopping" /\ inbox' = inbox /\ sofia' = sofia
    BY <1>1, <1>6 DEF Stop
  <2>2. QED
    BY <2>1, PassesOn
<1>7. CASE StopReturns(m) \/ Start(m) \/ Load(m)
  BY <1>2, <1>7 DEF StopReturns, Start, Load
<1>8. QED
  BY <1>3, <1>4, <1>5, <1>6, <1>7 DEF Acts

(* As long as m stays in the group, nobody rivals it, its calls are handed *)
(* over and nothing is owed.                                               *)
LEMMA BeforeKept ==
  ASSUME AtMostTwoNodes, NEW m \in Nodes, Before(m), ViewInv', [Next]_vars,
         NEW x \in Nodes, Acts(x), x = m => ~LeaveGroup(m) /\ ~Crash(m)
  PROVE  Before(m)'
<1>1. /\ ViewInv /\ CallsInv /\ SoundTypes /\ KnowsItself /\ Unrivalled(m) /\ Known(m)
      /\ HandsOver(m) /\ Limits(m) /\ owed = {} /\ CallsInv'
      /\ \A n \in Nodes : inbox[n] \in Seq(GroupEventsOf(made))
      /\ \A n \in Nodes : sofia[n].events \in Seq(FsEventsOf(made))
  BY DEF Before, ViewInv, CallsInv, TypeInv, SoundTypes, Sofias
<1>2. /\ Untouched(x) /\ HearsItself(x)
      /\ \A n \in Nodes \ {x} : Told(x, n)
  BY <1>1, StepNews
<1>3. \A n \in Nodes : \A e \in ToSet(inbox'[n]) : e \in ToSet(inbox[n]) \/ News(x, e)
  <2> SUFFICES ASSUME NEW n \in Nodes \ {x}, NEW e \in ToSet(inbox'[n])
               PROVE  e \in ToSet(inbox[n]) \/ News(x, e)
    BY <1>2 DEF HearsItself
  <2>1. CASE inbox'[n] = inbox[n]
    BY <2>1
  <2>2. ASSUME NEW d, News(x, d), inbox'[n] = inbox[n] \o <<d>>
        PROVE  e \in ToSet(inbox[n]) \/ News(x, e)
    <3>1. ToSet(inbox[n] \o <<d>>) = ToSet(inbox[n]) \cup {d}
      BY <1>1, <2>2, ToSetAppended DEF News
    <3>2. QED
      BY <2>2, <3>1
  <2>3. QED
    BY <1>2, <2>1, <2>2 DEF Told
<1>4. x # m =>
        /\ Subject(m, x)' /\ sofia'[x].calls = {}
        /\ m \in ToSet(vip'[x].node_list) => vip'[x].master_id = m
        /\ vip'[x].state = "BACKUP" => {m, x} \subseteq ToSet(vip'[x].node_list)
        /\ \A e \in ToSet(sofia'[x].events) :
             e.type = "recovery_recv" /\ Spares(e, sofia[m].calls)
  BY FollowerStep
<1>5. x = m => /\ (m \in Serving)' \/ phase'[m] = "stopping"
               /\ m \in Serving => (m \in Serving)' \/ inbox' = inbox
               /\ Passes(m)
  BY MasterStep
<1>6. (m \in Serving)' \/ phase'[m] = "stopping"
  BY <1>2, <1>5 DEF Before, Serving, Untouched
<1>7. m \in Joined'
  BY <1>1, <1>6 DEF CallsInv, NodeInv, Joined, Serving, Active
<1>8. Unrivalled(m)'
  <2>1. ASSUME NEW n \in Nodes, NEW e \in ToSet(inbox'[n]), e.type = "state", e.state \in Active
        PROVE  e.nodeid = m
    <3>1. CASE e \in ToSet(inbox[n])
      BY <1>1, <2>1, <3>1 DEF Unrivalled
    <3>2. CASE News(x, e)
      BY <1>4, <2>1, <3>2 DEF News, Subject
    <3>3. QED
      BY <1>3, <3>1, <3>2
  <2>2. ASSUME NEW n \in Nodes \ {m} PROVE Subject(m, n)'
    BY <1>1, <1>2, <1>4 DEF Unrivalled, Subject, Untouched
  <2>3. ASSUME NEW n \in Nodes \ {m}, Follows(n)' PROVE ~ViewLacks(vip'[n], inbox'[n], m)
    <3>1. Follows(n) /\ ViewLacks(vip[n], inbox[n], m) => FALSE
      BY <1>1 DEF Unrivalled
    <3>2. QED
      BY <1>1, <1>7, <2>3, <3>1, StepViews DEF ViewsKept
  <2>4. QED
    BY <2>1, <2>2, <2>3 DEF Unrivalled
<1>9. Known(m)'
  <2>1. ASSUME NEW b \in Nodes \ {m}, NEW e \in ToSet(inbox'[b]), e.type = "state", e.nodeid = m
        PROVE  e.state \in Active
    <3>1. CASE e \in ToSet(inbox[b])
      BY <1>1, <2>1, <3>1 DEF Known
    <3>2. CASE e \notin ToSet(inbox[b])
      <4>1. News(x, e) /\ inbox' # inbox
        BY <1>3, <3>2
      <4>2. x = m /\ Follows(m) /\ e.state = vip'[m].state
        BY <2>1, <4>1 DEF News
      <4>3. m \in Serving
        BY <1>1, <4>2 DEF Before, CallsInv, NodeInv, Follows
      <4>4. QED
        BY <1>5, <4>1, <4>2, <4>3 DEF Serving
    <3>3. QED
      BY <3>1, <3>2
  <2>2. ASSUME NEW b \in Nodes \ {m}
        PROVE  /\ m \in ToSet(vip'[b].node_list) => vip'[b].master_id = m
               /\ vip'[b].state = "BACKUP" => {m, b} \subseteq ToSet(vip'[b].node_list)
    BY <1>1, <1>2, <1>4 DEF Known, Untouched
  <2>3. QED
    BY <2>1, <2>2 DEF Known
<1>10. \A c \in sofia'[m].calls : c \in sofia[m].calls \/ c \notin made
  BY <1>2, <1>5 DEF Untouched, Passes
<1>11. \A n \in Nodes : /\ \A e \in ToSet(inbox[n]) : Carries(e) => e.sql \in StatementsOf(made)
                        /\ \A e \in ToSet(sofia[n].events) : Carries(e) => e.sql \in StatementsOf(made)
  <2> SUFFICES ASSUME NEW n \in Nodes
               PROVE  /\ \A e \in ToSet(inbox[n]) : Carries(e) => e.sql \in StatementsOf(made)
                      /\ \A e \in ToSet(sofia[n].events) : Carries(e) => e.sql \in StatementsOf(made)
    OBVIOUS
  <2>1. \A e \in ToSet(inbox[n]) : e \in GroupEventsOf(made)
    BY <1>1, LenProperties DEF ToSet
  <2>2. \A e \in ToSet(sofia[n].events) : e \in FsEventsOf(made)
    BY <1>1, LenProperties DEF ToSet
  <2>3. QED
    BY <2>1, <2>2 DEF GroupEventsOf, FsEventsOf, Carries
<1>12. HandsOver(m)'
  <2> DEFINE C == sofia'[m].calls
  <2>1. ASSUME NEW e, Spares(e, sofia[m].calls), Carries(e) => e.sql \in StatementsOf(made)
        PROVE  Spares(e, C)
    BY <1>10, <2>1, SparesMore
  <2>2. \A e \in ToSet(sofia'[m].events) : e.type = "recovery_send" => Spares(e, C)
    <3>1. CASE x = m
      BY <1>5, <3>1 DEF Passes
    <3>2. CASE x # m
      BY <1>1, <1>2, <3>2 DEF HandsOver, Untouched
    <3>3. QED
      BY <3>1, <3>2
  <2>3. ASSUME NEW b \in Nodes \ {m}
        PROVE  /\ sofia'[b].calls = {}
               /\ \A e \in ToSet(sofia'[b].events) : e.type = "recovery_recv" /\ Spares(e, C)
    <3>1. CASE x = b
      <4>1. sofia'[m] = sofia[m]
        BY <1>2, <3>1 DEF Untouched
      <4>2. QED
        BY <1>4, <3>1, <4>1
    <3>2. CASE x # b
      <4>1. sofia'[b] = sofia[b]
        BY <1>2, <3>2 DEF Untouched
      <4>2. QED
        BY <1>1, <1>11, <2>1, <4>1 DEF HandsOver
    <3>3. QED
      BY <3>1, <3>2
  <2>4. ASSUME NEW b \in Nodes \ {m}, NEW e \in ToSet(inbox'[b])
        PROVE  Spares(e, C)
    <3>1. CASE e \in ToSet(inbox[b])
      BY <1>1, <1>11, <2>1, <3>1 DEF HandsOver
    <3>2. CASE News(x, e) /\ Carries(e)
      <4>1. e.type = "sql"
        BY <3>2 DEF News, GroupEventsOf, Carries
      <4>2. PICK d \in ToSet(sofia[x].events) : d.type = "recovery_send" /\ d.sql = e.sql
        BY <3>2, <4>1 DEF News
      <4>3. x = m
        BY <1>1, <4>2 DEF HandsOver
      <4>4. Spares(d, sofia[m].calls)
        BY <1>1, <4>2, <4>3 DEF HandsOver
      <4>5. Spares(d, C)
        BY <1>11, <2>1, <4>2, <4>4
      <4>6. QED
        BY <3>2, <4>2, <4>5 DEF Spares, Carries
    <3>3. CASE ~Carries(e)
      BY <3>3 DEF Spares
    <3>4. QED
      BY <1>3, <3>1, <3>2, <3>3
  <2> HIDE DEF C
  <2>5. QED
    BY <2>2, <2>3, <2>4 DEF HandsOver, C
<1>13. Limits(m)'
  <2>1. /\ left'["ip"] = {} /\ left'["fall"] \subseteq left["fall"]
        /\ Stop(x) \/ Crash(x) => x = m /\ left'["fall"] = {} /\ m \in left["fall"]
        /\ ~Stop(x) /\ phase'[x] = "stopping" => phase[x] = "stopping"
    BY <1>1, LimitsStep
  <2>2. \A n \in Nodes \ {x} : phase'[n] = phase[n]
    BY <1>2 DEF Untouched
  <2>3. phase'[m] = "stopping" => left'["fall"] = {}
    <3>1. CASE x = m
      BY <1>1, <2>1, <3>1 DEF Limits
    <3>2. CASE x # m
      BY <1>1, <2>1, <2>2, <3>2 DEF Limits
    <3>3. QED
      BY <3>1, <3>2
  <2>4. \A n \in Nodes \ {m} : phase'[n] # "stopping"
    BY <1>1, <2>1, <2>2 DEF Limits
  <2>5. QED
    BY <1>1, <2>1, <2>3, <2>4 DEF Limits
<1>14. owed' = {}
  <2>1. CASE LeaveGroup(x)
    <3>1. sofia[x].calls = {}
      BY <1>1, <2>1 DEF HandsOver
    <3>2. QED
      BY <1>1, <2>1, <3>1 DEF LeaveGroup, Falls, Replicated
  <2>2. CASE ~LeaveGroup(x)
    <3>1. ~Crash(x)
      BY <1>1, LimitsStep
    <3>2. QED
      BY <1>1, <2>2, <3>1
         DEF Acts, HandleEvent, DeliverSql, HandleFsEvent, CallBegins, CallEnds, Stop, StopReturns,
             Start, Load, historyVars
  <2>3. QED
    BY <2>1, <2>2
<1>15. KnowsItself'
  BY <1>1, KnowsItselfKept
<1>16. QED
  BY <1>6, <1>8, <1>9, <1>12, <1>13, <1>14, <1>15 DEF Before

-----------------------------------------------------------------------------
(* The take-over *)

(* A backup stays one until it hears of a departure, ...                   *)
LEMMA BackupHears ==
  ASSUME NEW n \in Nodes, NEW v \in SoundVips, v.state = "BACKUP",
         NEW onDevice, NEW e, IsGroupEvent(e), e.type # "down", NEW works,
         NEW w, w = Dispatch(n, v, onDevice, e, works).vip
  PROVE  w.state = "BACKUP"
<1>1. CASE e.type = "up"
  <2> DEFINE informed == [v EXCEPT !.member_list = e.member_list]
  <2>1. w = fsm_do_transaction(n, informed, onDevice, "BACKUP_UP", works).vip
    BY <1>1 DEF Dispatch, fsm_input_node_up
  <2>2. informed.state = "BACKUP"
    BY DEF SoundVips
  <2> HIDE DEF informed
  <2>3. table["BACKUP_UP"][informed.state] = "nodeup"
    BY <2>2 DEF table
  <2>4. fsm_do_transaction(n, informed, onDevice, "BACKUP_UP", works)
          = virtual_ip_send_state(n, informed, onDevice)
    BY <2>3 DEF fsm_do_transaction
  <2>5. QED
    BY <2>1, <2>2, <2>4 DEF virtual_ip_send_state
<1>2. CASE e.type = "state"
  <2> DEFINE heard == Recorded(v, e)
             event == MessageEvent(n, heard, e)
  <2>1. heard.state = "BACKUP"
    BY DEF Recorded, SoundVips
  <2>2. event \in {"DUPLICATE", "none"}
    BY <2>1 DEF MessageEvent, Active
  <2>3. w = IF event = "none" THEN heard
            ELSE fsm_do_transaction(n, heard, onDevice, event, works).vip
    BY <1>2 DEF Dispatch, fsm_input_new_state_message, Quiet
  <2> HIDE DEF heard, event
  <2>4. table["DUPLICATE"][heard.state] = "dup_warn"
    BY <2>1 DEF table
  <2>5. fsm_do_transaction(n, heard, onDevice, "DUPLICATE", works) = Quiet(heard, onDevice)
    BY <2>4 DEF fsm_do_transaction
  <2>6. QED
    BY <2>1, <2>2, <2>3, <2>5 DEF Quiet
<1>3. QED
  BY <1>1, <1>2 DEF IsGroupEvent

(* ... and takes over when the master it has recorded leaves it alone.     *)
LEMMA BackupTakesOver ==
  ASSUME CallsInv, left["ip"] = {}, NEW b \in Nodes, NEW m \in Nodes \ {b}, Nodes = {m, b},
         vip[b].state = "BACKUP", vip[b].node_id = b, vip[b].master_id = m,
         b \in ToSet(vip[b].node_list), HandleEvent(b),
         Head(inbox[b]).type = "down", Head(inbox[b]).nodeid = m
  PROVE  vip'[b].state = "MASTER" /\ Action(b, vip[b], Head(inbox[b])) = "react"
<1> DEFINE e == Head(inbox[b])
           v == vip[b]
           onDevice == v.state \in Active
<1>1. /\ vip \in [Nodes -> SoundVips] /\ v \in SoundVips
      /\ v.state = "BACKUP" /\ v.node_id = b /\ v.master_id = m /\ b \in ToSet(v.node_list)
      /\ e.type = "down" /\ e.nodeid = m
  BY DEF CallsInv, TypeInv, SoundTypes
<1>2. vip'[b] = Dispatch(b, v, onDevice, e, TRUE).vip
  <2>1. PICK works \in BOOLEAN :
          /\ works \/ Spend("ip", b)
          /\ vip' = [vip EXCEPT ![b] = Dispatch(b, v, onDevice, e, works).vip]
    BY DEF HandleEvent
  <2>2. works
    BY <2>1 DEF Spend
  <2>3. vip' = [vip EXCEPT ![b] = Dispatch(b, v, onDevice, e, TRUE).vip]
    BY <2>1, <2>2
  <2>4. QED
    BY <1>1, <2>3
<1> HIDE DEF e, v, onDevice
<1> DEFINE informed == [v EXCEPT !.member_list = e.member_list]
           departed == [informed EXCEPT !.node_list = node_remove(@, e.nodeid),
                                        !.rollback_node_id = IF @ = e.nodeid THEN NoNode ELSE @]
           rest == node_remove(v.node_list, m)
<1>3. /\ informed.master_id = m /\ informed.node_list = v.node_list
      /\ departed.state = "BACKUP" /\ departed.node_id = b /\ departed.node_list = rest
  BY <1>1 DEF SoundVips
<1>4. rest \in NodeLists /\ ToSet(rest) = ToSet(v.node_list) \ {m}
  BY <1>1, NodeRemoveKeepsNodeList DEF SoundVips
<1>5. node_first(rest) = b
  <2>1. rest \in Seq(Nodes) /\ ToSet(rest) \subseteq Nodes
    BY <1>4, LenProperties DEF NodeLists, ToSet
  <2>2. rest # <<>>
    <3>1. b \in ToSet(rest)
      BY <1>1, <1>4
    <3>2. ToSet(<<>>) = {}
      BY DEF ToSet
    <3>3. QED
      BY <3>1, <3>2
  <2>3. node_first(rest) \in ToSet(rest)
    BY <2>1, <2>2, NodeFirstIsListed
  <2>4. QED
    BY <1>1, <1>4, <2>1, <2>3
<1>6. Dispatch(b, v, onDevice, e, TRUE)
        = fsm_do_transaction(b, departed, onDevice, "MASTER_DOWN", TRUE)
  BY <1>1, <1>3 DEF Dispatch, fsm_input_node_down
<1> HIDE DEF departed, rest
<1>7. table["MASTER_DOWN"][departed.state] = "react" /\ table["MASTER_DOWN"][v.state] = "react"
  BY <1>1, <1>3 DEF table
<1>8. fsm_do_transaction(b, departed, onDevice, "MASTER_DOWN", TRUE)
        = react(b, departed, onDevice, TRUE)
  BY <1>7 DEF fsm_do_transaction
<1>9. react(b, departed, onDevice, TRUE).vip = [departed EXCEPT !.state = "MASTER"]
  BY <1>3, <1>5 DEF react, TakeOver, virtual_ip_send_state
<1>10. DOMAIN departed = DOMAIN v
  BY DEF departed
<1>11. "state" \in DOMAIN v
  BY <1>1 DEF SoundVips
<1>12. vip'[b].state = "MASTER"
  BY <1>6, <1>2, <1>8, <1>9, <1>10, <1>11
<1>13. Action(b, v, e) = "react"
  BY <1>1, <1>7 DEF Action, EventOf
<1>14. QED
  BY <1>12, <1>13 DEF v, e

(* A row of another process, by which b could recover the call c.          *)
Recoverable(b, c) == \E r \in sofia[b].sip_recovery : r.uuid = c /\ r.runtime_uuid # uuid(b)

(* A call whose row is there and whose profile is to be recovered, is.     *)
LEMMA RecoverCallsRecovers ==
  ASSUME SoundTypes, NEW n \in Nodes, NEW c, Recoverable(n, c),
         [name |-> ProfileOf[c], autorecover |-> TRUE] \in ToSet(profiles[n]),
         NEW t, t = RecoverCalls(n, sofia[n])
  PROVE  c \in t.calls
<1> DEFINE size == Len(profiles[n])
           u == uuid(n)
           s == sofia[n]
           Chosen(p) == p = [name |-> ProfileOf[c], autorecover |-> TRUE]
<1>1. /\ profiles[n] \in Seq(Profiles) /\ u \in Uuids /\ s \in Sofias(made)
      /\ size \in Nat /\ DOMAIN profiles[n] = 1..size
  BY UuidType, LenProperties DEF SoundTypes
<1>2. PICK r \in s.sip_recovery : r.uuid = c /\ r.runtime_uuid # u
  BY DEF Recoverable
<1>3. PICK place \in 1..size : Chosen(profiles[n][place])
  BY <1>1 DEF ToSet
<1> DEFINE Kept == [i \in 0..size |-> {x \in Sofias(made) :
                                        c \in x.calls \/ (r \in x.sip_recovery /\ i < place)}]
<1>4. ASSUME NEW x \in Sofias(made), NEW p \in Profiles
      PROVE  /\ RecoverOne(u, x, p) \in Sofias(made)
             /\ c \in x.calls => c \in RecoverOne(u, x, p).calls
             /\ r \in x.sip_recovery => \/ c \in RecoverOne(u, x, p).calls
                                        \/ r \in RecoverOne(u, x, p).sip_recovery /\ ~Chosen(p)
  <2> DEFINE rows == {q \in x.sip_recovery : q.runtime_uuid # u /\ ProfileOf[q.uuid] = p.name}
             calls == {q.uuid : q \in rows}
             y == utils_recover(x, u, p.name)
  <2>1. p.name \in SipProfiles
    BY DEF Profiles
  <2>2. y \in Sofias(made)
    BY <1>1, <2>1, RecoverType
  <2>3. y.calls = x.calls \cup calls
    BY DEF utils_recover, Track, Fire, Sofias
  <2>4. x.sip_recovery \ rows \subseteq y.sip_recovery
    BY DEF utils_recover, Track, Fire, Sofias
  <2>5. r \in rows => c \in calls
    BY <1>2
  <2>6. r \in x.sip_recovery /\ r \notin rows => ~Chosen(p)
    BY <1>2
  <2>7. ~p.autorecover => ~Chosen(p)
    OBVIOUS
  <2>8. RecoverOne(u, x, p) = IF p.autorecover THEN y ELSE x
    BY DEF RecoverOne
  <2> HIDE DEF y, rows, calls, Chosen
  <2>9. CASE p.autorecover
    BY <2>2, <2>3, <2>4, <2>5, <2>6, <2>8, <2>9
  <2>10. CASE ~p.autorecover
    BY <2>7, <2>8, <2>10
  <2>11. QED
    BY <2>9, <2>10
<1>5. \A i \in 0..(size - 1) : i \in 0..size /\ i + 1 \in 0..size /\ i + 1 \in 1..size
  BY <1>1
<1>6. \A i \in 0..(size - 1) : i < place => (i + 1 < place \/ i + 1 = place)
  BY <1>1
<1>7. \A i \in 0..(size - 1) : profiles[n][i + 1] \in Profiles
  BY <1>1, <1>5, ElementOfSeq
<1> DEFINE HasIt(i, x) == c \in x.calls \/ (r \in x.sip_recovery /\ i < place)
<1>8. \A i \in 0..size : \A x : x \in Kept[i] <=> x \in Sofias(made) /\ HasIt(i, x)
  OBVIOUS
<1>9. 0 \in 0..size /\ size \in 0..size /\ 0 < place /\ ~(size < place)
  BY <1>1
<1> HIDE DEF Kept, size, u, s, Chosen, HasIt
<1>10. s \in Kept[0]
  BY <1>1, <1>2, <1>8, <1>9 DEF HasIt
<1>11. ASSUME NEW i \in 0..(size - 1), NEW x \in Kept[i]
       PROVE  RecoverOne(u, x, profiles[n][i + 1]) \in Kept[i + 1]
  <2> DEFINE p == profiles[n][i + 1]
             y == RecoverOne(u, x, p)
  <2>1. x \in Sofias(made) /\ HasIt(i, x)
    <3>1. i \in 0..size
      BY <1>5
    <3>2. \A z : z \in Kept[i] <=> z \in Sofias(made) /\ HasIt(i, z)
      BY <1>8, <3>1
    <3>3. QED
      BY <3>2
  <2>2. p \in Profiles
    BY <1>7
  <2> HIDE DEF p
  <2>3. /\ y \in Sofias(made)
        /\ c \in x.calls => c \in y.calls
        /\ r \in x.sip_recovery => c \in y.calls \/ (r \in y.sip_recovery /\ ~Chosen(p))
    BY <1>4, <2>1, <2>2
  <2> HIDE DEF y
  <2>4. ~Chosen(p) => i + 1 # place
    BY <1>3 DEF p
  <2>5. c \in y.calls \/ (r \in y.sip_recovery /\ i + 1 < place)
    BY <1>6, <2>1, <2>3, <2>4 DEF HasIt
  <2>6. y \in Kept[i + 1]
    <3>1. HasIt(i + 1, y)
      BY <2>5 DEF HasIt
    <3>2. i + 1 \in 0..size
      BY <1>5
    <3>3. \A z : z \in Kept[i + 1] <=> z \in Sofias(made) /\ HasIt(i + 1, z)
      BY <1>8, <3>2
    <3>4. QED
      BY <2>3, <3>1, <3>3
  <2>7. QED
    BY <2>6 DEF y, p
<1>12. Recovering!Loop(u, s, profiles[n]) \in Kept[size]
  <2>1. size \in Nat /\ DOMAIN profiles[n] = 1..size
    BY <1>1
  <2>2. \A i \in 0..(size - 1) : \A x \in Kept[i] :
          RecoverOne(u, x, profiles[n][i + 1]) \in Kept[i + 1]
    BY <1>11
  <2>3. QED
    BY <1>10, <2>1, <2>2, Recovering!LoopInvariant
<1>13. QED
  BY <1>8, <1>9, <1>12, RecoveringIsLoop DEF u, s, HasIt

-----------------------------------------------------------------------------
(* The departure on its way to the backup *)

IsFall(e, m) == e.type = "down" /\ e.nodeid = m

(* What may be dispatched before the departure of m: no other departure,   *)
(* no other master, nothing that removes a row of the calls C.             *)
Ordinary(e, m, C) ==
  /\ e.type # "down"
  /\ e.type = "state" /\ e.state \in Active => e.nodeid = m
  /\ Spares(e, C)

FallAhead(q, m, C) ==
  \E k \in 1..Len(q) : IsFall(q[k], m) /\ \A i \in 1..(k - 1) : Ordinary(q[i], m, C)

(* The departure comes behind what is under way.                           *)
LEMMA FallComes ==
  ASSUME NEW S, NEW q \in Seq(S), NEW d \in S, NEW m, NEW C, IsFall(d, m),
         \A e \in ToSet(q) : Ordinary(e, m, C)
  PROVE  FallAhead(q \o <<d>>, m, C)
<1> DEFINE long == q \o <<d>>
           size == Len(q)
<1>1. /\ size \in Nat /\ Len(long) = size + 1 /\ long[size + 1] = d
      /\ \A i \in 1..size : long[i] = q[i]
  BY OneMoreEvent
<1>2. \A i \in 1..size : q[i] \in ToSet(q)
  BY LenProperties DEF ToSet
<1> HIDE DEF long, size
<1>3. \A i \in 1..size : Ordinary(long[i], m, C)
  BY <1>1, <1>2
<1>4. size + 1 \in 1..(size + 1) /\ (size + 1) - 1 = size
  BY <1>1
<1>5. IsFall(long[size + 1], m)
  BY <1>1
<1>6. FallAhead(long, m, C)
  BY <1>1, <1>3, <1>4, <1>5 DEF FallAhead
<1>7. QED
  BY <1>6 DEF long

(* What comes behind it does not matter, ...                               *)
LEMMA FallStays ==
  ASSUME NEW S, NEW q \in Seq(S), NEW d \in S, NEW m, NEW C, FallAhead(q, m, C)
  PROVE  FallAhead(q \o <<d>>, m, C)
<1> DEFINE long == q \o <<d>>
           size == Len(q)
<1>1. /\ size \in Nat /\ Len(long) = size + 1
      /\ \A i \in 1..size : long[i] = q[i]
  BY OneMoreEvent
<1>2. PICK k \in 1..size : IsFall(q[k], m) /\ \A i \in 1..(k - 1) : Ordinary(q[i], m, C)
  BY DEF FallAhead
<1> HIDE DEF long, size
<1>3. k \in 1..(size + 1) /\ \A i \in 1..(k - 1) : i \in 1..size
  BY <1>1
<1>4. IsFall(long[k], m) /\ \A i \in 1..(k - 1) : Ordinary(long[i], m, C)
  BY <1>1, <1>2, <1>3
<1>5. FallAhead(long, m, C)
  BY <1>1, <1>3, <1>4 DEF FallAhead
<1>6. QED
  BY <1>5 DEF long

(* ... and what is dispatched before brings it nearer.                     *)
LEMMA FallNearer ==
  ASSUME NEW S, NEW q \in Seq(S), NEW m, NEW C, FallAhead(q, m, C)
  PROVE  /\ q # <<>>
         /\ IsFall(Head(q), m) \/ (Ordinary(Head(q), m, C) /\ FallAhead(Tail(q), m, C))
<1> DEFINE rest == Tail(q)
           size == Len(q)
<1>1. PICK k \in 1..size : IsFall(q[k], m) /\ \A i \in 1..(k - 1) : Ordinary(q[i], m, C)
  BY DEF FallAhead
<1>2. size \in Nat /\ size > 0 /\ q # <<>>
  <2>1. size \in Nat /\ size > 0
    BY <1>1, LenProperties
  <2>2. QED
    BY <2>1, EmptySeq
<1>3. /\ Len(rest) = size - 1 /\ Head(q) = q[1]
      /\ \A i \in 1..(size - 1) : rest[i] = q[i + 1]
  <2>1. /\ Head(q) = q[1] /\ Len(Tail(q)) = size - 1
        /\ \A i \in 1..Len(Tail(q)) : Tail(q)[i] = q[i + 1]
    BY <1>2, HeadTailProperties
  <2>2. QED
    BY <2>1
<1> HIDE DEF rest, size
<1>4. CASE k = 1
  BY <1>1, <1>2, <1>3, <1>4
<1>5. CASE k # 1
  <2>1. k - 1 \in 1..(size - 1) /\ (k - 1) + 1 = k /\ 1 \in 1..(k - 1)
    BY <1>2, <1>5
  <2>2. \A i \in 1..((k - 1) - 1) : i \in 1..(size - 1) /\ i + 1 \in 1..(k - 1)
    BY <1>2, <1>5
  <2>3. Ordinary(Head(q), m, C)
    BY <1>1, <1>3, <2>1
  <2>4. IsFall(rest[k - 1], m)
    BY <1>1, <1>3, <2>1
  <2>5. \A i \in 1..((k - 1) - 1) : Ordinary(rest[i], m, C)
    BY <1>1, <1>3, <2>2
  <2>6. FallAhead(rest, m, C)
    BY <1>3, <2>1, <2>4, <2>5 DEF FallAhead
  <2>7. QED
    BY <1>2, <2>3, <2>6 DEF rest
<1>6. QED
  BY <1>4, <1>5

(* Fewer calls are spared all the more.                                    *)
LEMMA SparesFewer ==
  ASSUME NEW C, NEW D \in SUBSET C
  PROVE  /\ \A e : Spares(e, C) => Spares(e, D)
         /\ \A q, m : FallAhead(q, m, C) => FallAhead(q, m, D)
<1>1. \A e : Spares(e, C) => Spares(e, D)
  BY DEF Spares
<1>2. \A e, m : Ordinary(e, m, C) => Ordinary(e, m, D)
  BY <1>1 DEF Ordinary
<1>3. QED
  BY <1>1, <1>2 DEF FallAhead

-----------------------------------------------------------------------------
(* After the fall *)

(* The profile of c is one that b recovers.                                *)
ToRecover(b, c) == [name |-> ProfileOf[c], autorecover |-> TRUE] \in ToSet(profiles[b])

(* b is about to hear that m, its master, has left, with what it needs to  *)
(* recover the calls owed ...                                              *)
Taking(m, b) ==
  /\ vip[b].state = "BACKUP" /\ vip[b].node_id = b /\ vip[b].master_id = m
  /\ b \in ToSet(vip[b].node_list)
  /\ sofia[b].calls = {}
  /\ \A e \in ToSet(sofia[b].events) : e.type = "recovery_recv" /\ Spares(e, owed)
  /\ FallAhead(inbox[b], m, owed)
  /\ \A c \in owed : Recoverable(b, c) /\ ToRecover(b, c)

(* ... or has heard it and holds them.                                     *)
Keeping(b) == b \in Serving /\ owed \subseteq over \cup sofia[b].calls

(* After the fall of the first master.                                     *)
After(m) ==
  /\ ViewInv
  /\ left["fall"] = {} /\ left["ip"] = {} /\ \A n \in Nodes : phase[n] # "stopping"
  /\ owed = {} \/ \E b \in Nodes \ {m} : Taking(m, b) \/ Keeping(b)

(* The first master falls: a backup that could recover its calls will be   *)
(* told of it before of anything that would stop it.                       *)
LEMMA MasterFalls ==
  ASSUME AtMostTwoNodes, NEW m \in Nodes, Before(m), ViewInv', LeaveGroup(m) \/ Crash(m)
  PROVE  After(m)'
<1>1. /\ ViewInv /\ CallsInv /\ SoundTypes /\ KnowsItself /\ Unrivalled(m) /\ Known(m)
      /\ HandsOver(m) /\ Limits(m) /\ owed = {}
      /\ \A n \in Nodes : inbox[n] \in Seq(GroupEventsOf(made))
      /\ phase \in [Nodes -> {"dead", "idle", "running", "stopping", "returning"}]
  BY DEF Before, ViewInv, CallsInv, TypeInv, SoundTypes
<1>2. Acts(m)
  BY DEF Acts
<1>3. /\ \A n \in Nodes \ {m} : vip'[n] = vip[n] /\ phase'[n] = phase[n] /\ sofia'[n] = sofia[n]
      /\ \A n \in Nodes \ {m} : profiles'[n] = profiles[n] /\ launch'[n] = launch[n]
  BY <1>1, <1>2, StepNews DEF Untouched
<1>4. m \in Joined
  BY <1>1 DEF Before, CallsInv, NodeInv, Joined, Serving, Active
<1>5. left'["fall"] = {} /\ left'["ip"] = {} /\ phase'[m] # "stopping" /\ Falls(m)
  <2>1. CASE LeaveGroup(m)
    <3>1. phase[m] = "stopping"
      BY <2>1 DEF LeaveGroup, Before, Serving, Active
    <3>2. left' = left /\ phase'[m] = "returning"
      BY <1>1, <2>1, <3>1 DEF LeaveGroup
    <3>3. QED
      BY <1>1, <2>1, <3>1, <3>2 DEF Limits, LeaveGroup
  <2>2. CASE Crash(m)
    <3>1. left'["fall"] = {} /\ left'["ip"] = {}
      BY <1>1, <1>2, <2>2, LimitsStep
    <3>2. phase'[m] = "dead" /\ Falls(m)
      BY <1>1, <1>4, <2>2 DEF Crash
    <3>3. QED
      BY <3>1, <3>2
  <2>3. QED
    BY <2>1, <2>2
<1>6. \A n \in Nodes : phase'[n] # "stopping"
  BY <1>1, <1>3, <1>5 DEF Limits
<1>7. owed' = Replicated(m) /\ inbox' = Departure(m)
  BY <1>1, <1>5 DEF Falls
<1>8. ASSUME owed' # {} PROVE \E b \in Nodes \ {m} : Taking(m, b)'
  <2>1. PICK b \in Joined \ {m} : TRUE
    BY <1>7, <1>8 DEF Replicated
  <2>2. b \in Nodes \ {m}
    BY <2>1 DEF Joined
  <2>3. /\ owed' \subseteq sofia[m].calls /\ vip[b].state = "BACKUP"
        /\ \A c \in owed' : Row(c, uuid(m)) \in sofia[b].sip_recovery /\ ToRecover(b, c)
    BY <1>7, <1>8, <2>1 DEF Replicated, ToRecover
  <2>4. Follows(b)
    BY <2>3 DEF Follows
  <2>5. vip[b].node_id = b /\ vip[b].master_id = m /\ b \in ToSet(vip[b].node_list)
    BY <1>1, <2>2, <2>3, <2>4 DEF KnowsItself, Known
  <2>6. /\ sofia[b].calls = {}
        /\ \A e \in ToSet(sofia[b].events) : e.type = "recovery_recv" /\ Spares(e, sofia[m].calls)
        /\ \A e \in ToSet(inbox[b]) : Spares(e, sofia[m].calls)
    BY <1>1, <2>2 DEF HandsOver
  <2>7. \A e : Spares(e, sofia[m].calls) => Spares(e, owed')
    BY <2>3, SparesFewer
  <2>8. ASSUME NEW e \in ToSet(inbox[b]) PROVE Ordinary(e, m, owed')
    <3>1. e.type # "down"
      <4> SUFFICES ASSUME e.type = "down" PROVE FALSE
        OBVIOUS
      <4>1. PICK i \in 1..Len(inbox[b]) : inbox[b][i] = e
        BY <1>1, <2>2, LenProperties DEF ToSet
      <4>2. e \in GroupEventsOf(made)
        BY <1>1, <2>2, <4>1, ElementOfSeq
      <4>3. e.nodeid \in {m, b}
        BY <2>2, <4>2 DEF GroupEventsOf, AtMostTwoNodes
      <4>4. e.nodeid \notin e.member_list
        BY <1>1, <2>2 DEF ViewInv, DeparturesAreOut
      <4>5. ~ViewLacks(vip[b], inbox[b], b) /\ ~ViewLacks(vip[b], inbox[b], m)
        BY <1>1, <2>2, <2>4 DEF ViewInv, NobodyLacksItself, Unrivalled
      <4>6. QED
        BY <4>1, <4>3, <4>4, <4>5 DEF ViewLacks, IsConfig
    <3>2. e.type = "state" /\ e.state \in Active => e.nodeid = m
      BY <1>1, <2>2 DEF Unrivalled
    <3>3. QED
      BY <2>6, <2>7, <3>1, <3>2 DEF Ordinary
  <2>9. FallAhead(inbox'[b], m, owed')
    <3> DEFINE down == Down(m, Joined \ {m})
    <3>1. inbox'[b] = inbox[b] \o <<down>> /\ down \in GroupEventsOf(made) /\ IsFall(down, m)
      BY <1>1, <1>7, <2>1, <2>2, DepartureShape DEF IsFall
    <3> HIDE DEF down
    <3>2. QED
      BY <1>1, <2>2, <2>8, <3>1, FallComes
  <2>10. ASSUME NEW c \in owed' PROVE Recoverable(b, c)' /\ ToRecover(b, c)'
    <3>1. Row(c, uuid(m)) \in sofia'[b].sip_recovery
      BY <1>3, <2>2, <2>3
    <3>2. /\ Row(c, uuid(m)).uuid = c /\ Row(c, uuid(m)).runtime_uuid = <<m, launch[m]>>
          /\ <<m, launch[m]>> # <<b, launch'[b]>>
      BY <2>2 DEF Row, uuid
    <3>3. Recoverable(b, c)'
      BY <3>1, <3>2 DEF Recoverable, uuid
    <3>4. ToRecover(b, c)'
      BY <1>3, <2>2, <2>3 DEF ToRecover
    <3>5. QED
      BY <3>3, <3>4
  <2>11. Taking(m, b)'
    BY <1>3, <2>2, <2>3, <2>5, <2>6, <2>7, <2>9, <2>10 DEF Taking
  <2>12. QED
    BY <2>2, <2>11
<1>9. QED
  BY <1>5, <1>6, <1>8 DEF After

(* No more is owed than at the fall, and what is over stays over: a node   *)
(* that leaves the group IDLE holds no call that others could recover.     *)
LEMMA NoMoreOwed ==
  ASSUME NEW m \in Nodes, After(m), NamedAlike, NEW x \in Nodes, Acts(x)
  PROVE  /\ owed' \subseteq owed /\ over \subseteq over'
         /\ left'["fall"] = {} /\ left'["ip"] = {} /\ \A n \in Nodes : phase'[n] # "stopping"
         /\ ~Stop(x) /\ ~Crash(x) /\ (HandleEvent(x) => left' = left)
<1>1. /\ CallsInv /\ SoundTypes /\ Limits(m)
  BY DEF After, ViewInv, CallsInv, TypeInv, Limits
<1>2. \A n \in Nodes \ {x} : phase'[n] = phase[n]
  BY <1>1, StepNews DEF Untouched
<1>3. /\ left'["ip"] = {} /\ left'["fall"] \subseteq left["fall"]
      /\ Stop(x) \/ Crash(x) => m \in left["fall"]
      /\ ~Stop(x) /\ phase'[x] = "stopping" => phase[x] = "stopping"
      /\ HandleEvent(x) => left' = left
  BY <1>1, LimitsStep
<1>4. /\ left'["fall"] = {} /\ left'["ip"] = {} /\ \A n \in Nodes : phase'[n] # "stopping"
      /\ ~Stop(x) /\ ~Crash(x)
  BY <1>2, <1>3 DEF After
<1>5. over \subseteq over'
  BY DEF Acts, HandleEvent, DeliverSql, LeaveGroup, HandleFsEvent, CallBegins, CallEnds, Stop,
         StopReturns, Crash, Start, Load, historyVars
<1>6. CASE LeaveGroup(x)
  <2>1. Replicated(x) = {}
    <3> SUFFICES ASSUME NEW c \in Replicated(x) PROVE FALSE
      OBVIOUS
    <3>1. c \in sofia[x].calls /\ x \in Joined /\ vip[x].state = "IDLE"
      BY <1>6 DEF Replicated, LeaveGroup
    <3>2. phase[x] = "running"
      BY <3>1 DEF Joined, After
    <3>3. ProfileOf[c] \notin Names(x)
      BY <1>1, <3>1, <3>2 DEF CallsInv, NodeInv, Active
    <3>4. PICK b \in Joined \ {x} : ToRecover(b, c)
      BY DEF Replicated, ToRecover
    <3>5. ProfileOf[c] \in Names(b)
      BY <3>4 DEF ToRecover, Names
    <3>6. Names(b) = Names(x)
      BY <3>1, <3>4 DEF NamedAlike, Joined
    <3>7. QED
      BY <3>3, <3>5, <3>6
  <2>2. owed' \subseteq owed
    BY <1>6, <2>1 DEF LeaveGroup, Falls
  <2>3. QED
    BY <1>3, <1>4, <1>5, <2>2
<1>7. CASE ~LeaveGroup(x)
  <2>1. owed' = owed
    BY <1>4, <1>7
       DEF Acts, HandleEvent, DeliverSql, HandleFsEvent, CallBegins, CallEnds, StopReturns,
           Start, Load, historyVars
  <2>2. QED
    BY <1>3, <1>4, <1>5, <2>1
<1>8. QED
  BY <1>6, <1>7

(* The node that has taken the calls over keeps them until they are over.  *)
LEMMA KeepingStays ==
  ASSUME NEW m \in Nodes, After(m), NamedAlike, NEW x \in Nodes, Acts(x),
         NEW b \in Nodes, Keeping(b)
  PROVE  Keeping(b)'
<1> DEFINE s == sofia[b]
<1>1. /\ CallsInv /\ SoundTypes /\ NodeInv(b) /\ vip[b] \in SoundVips
      /\ sofia \in [Nodes -> Sofias(made)] /\ s \in Sofias(made)
  BY DEF After, ViewInv, CallsInv, TypeInv, SoundTypes
<1>2. /\ vip[b].state \in Active /\ vip[b].state # "IDLE" /\ phase[b] = "running"
      /\ owed \subseteq over \cup s.calls
  BY <1>1 DEF Keeping, Serving, NodeInv, Active
<1>3. owed' \subseteq owed /\ over \subseteq over' /\ ~Stop(x) /\ ~Crash(x)
  BY NoMoreOwed
<1>4. ASSUME vip'[b].state \in Active, s.calls \subseteq sofia'[b].calls PROVE Keeping(b)'
  BY <1>2, <1>3, <1>4 DEF Keeping, Serving
<1>5. CASE x # b
  <2>1. vip'[b] = vip[b] /\ sofia'[b] = s
    BY <1>1, <1>5, StepNews DEF Untouched
  <2>2. QED
    BY <1>2, <1>4, <2>1
<1>6. CASE HandleEvent(b)
  <2> DEFINE e == Head(inbox[b])
  <2>1. /\ IsGroupEvent(e) /\ HandledBy(b, e, vip[b], vip'[b])
        /\ sofia'[b] = OnCalls(b, vip[b], vip'[b], e, s)
    BY <1>1, <1>6, HandleShape
  <2> HIDE DEF e
  <2>2. vip'[b].state \in Active
    BY <1>2, <2>1 DEF HandledBy
  <2> HIDE DEF s
  <2>3. sofia'[b] = virtual_ip_send_all_sql(b, s) \/ sofia'[b] = s
    BY <1>1, <1>2, <2>1, <2>2, HandledCalls
  <2>4. sofia'[b] = virtual_ip_send_all_sql(b, s) => sofia'[b].calls = s.calls
    BY <1>1, RequestsSent
  <2>5. QED
    BY <1>4, <2>2, <2>3, <2>4
<1>7. CASE DeliverSql(b)
  <2>1. vip' = vip
    BY <1>7 DEF DeliverSql
  <2>2. \/ sofia' = sofia
        \/ \E event : sofia' = [sofia EXCEPT ![b] = Fire(@, event)]
    BY <1>7 DEF DeliverSql, utils_send_track_event
  <2>3. sofia'[b].calls = s.calls
    BY <1>1, <2>2 DEF Fire, Sofias
  <2>4. QED
    BY <1>2, <1>4, <2>1, <2>3
<1>8. CASE LeaveGroup(b) \/ StopReturns(b) \/ Start(b) \/ Load(b)
  BY <1>2, <1>8 DEF LeaveGroup, StopReturns, Start, Load
<1>9. CASE HandleFsEvent(b)
  <2> DEFINE e == Head(s.events)
             rest == [s EXCEPT !.events = Tail(@)]
  <2>1. vip' = vip /\ (sofia'[b] = rest \/ sofia'[b] = TrackEvent(rest, e))
    BY <1>1, <1>9 DEF HandleFsEvent
  <2>2. rest.calls = s.calls /\ TrackEvent(rest, e).calls = s.calls
    BY <1>1 DEF TrackEvent, Fire, Sofias
  <2>3. QED
    BY <1>2, <1>4, <2>1, <2>2
<1>10. CASE CallBegins(b)
  <2>1. vip' = vip
    BY <1>10 DEF CallBegins, groupVars
  <2>2. PICK c \in Calls \ made :
          sofia' = [sofia EXCEPT ![b] = Track(@, uuid(b), {c}, ProfileOf[c])]
    BY <1>10 DEF CallBegins
  <2>3. sofia'[b].calls = s.calls \cup {c}
    BY <1>1, <2>2, CallTracked
  <2>4. QED
    BY <1>2, <1>4, <2>1, <2>3
<1>11. CASE CallEnds(b)
  <2>1. vip' = vip /\ owed' = owed
    BY <1>11 DEF CallEnds, groupVars
  <2>2. PICK c \in s.calls :
          /\ over' = over \cup {c}
          /\ sofia' = [sofia EXCEPT ![b] = Untrack(@, uuid(b), {c}, ProfileOf[c])]
    BY <1>11 DEF CallEnds
  <2>3. sofia'[b].calls = s.calls \ {c}
    BY <1>1, <2>2, CallUntracked
  <2>4. QED
    BY <1>2, <2>1, <2>2, <2>3 DEF Keeping, Serving
<1>12. QED
  BY <1>3, <1>5, <1>6, <1>7, <1>8, <1>9, <1>10, <1>11 DEF Acts

(* A statement that spares a call leaves its rows.                         *)
LEMMA SparedRows ==
  ASSUME NEW rows, NEW e, NEW C, Carries(e), Spares(e, C), NEW r \in rows, r.uuid \in C
  PROVE  r \in Execute(rows, e.sql)
<1>1. CASE e.sql.op = "insert"
  BY <1>1 DEF Execute
<1>2. CASE e.sql.op = "insert_missing"
  BY <1>2 DEF Execute
<1>3. CASE e.sql.op = "delete" /\ r \notin e.sql.rows
  BY <1>3 DEF Execute
<1>4. QED
  BY <1>1, <1>2, <1>3 DEF Spares

(* The backup takes the calls over when it hears of the departure, and     *)
(* waits for it until then.                                                *)
LEMMA TakingHandles ==
  ASSUME AtMostTwoNodes, NEW m \in Nodes, After(m), NEW b \in Nodes \ {m}, Taking(m, b),
         HandleEvent(b)
  PROVE  \/ vip'[b].state = "MASTER" /\ owed \subseteq sofia'[b].calls
         \/ /\ vip'[b].state = "BACKUP" /\ vip'[b].node_id = b /\ vip'[b].master_id = m
            /\ b \in ToSet(vip'[b].node_list)
            /\ sofia'[b] = sofia[b] /\ FallAhead(inbox'[b], m, owed)
<1> DEFINE e == Head(inbox[b])
           v == vip[b]
           w == vip'[b]
           S == GroupEventsOf(made)
           q == inbox[b]
           onDevice == v.state \in Active
<1>1. /\ CallsInv /\ SoundTypes /\ v \in SoundVips /\ inbox[b] \in Seq(S)
      /\ vip \in [Nodes -> SoundVips] /\ left["ip"] = {}
  BY DEF After, ViewInv, CallsInv, TypeInv, SoundTypes
<1>2. /\ v.state = "BACKUP" /\ v.node_id = b /\ v.master_id = m /\ b \in ToSet(v.node_list)
      /\ sofia[b].calls = {} /\ FallAhead(inbox[b], m, owed)
      /\ \A c \in owed : Recoverable(b, c) /\ ToRecover(b, c)
  BY DEF Taking
<1>3. /\ IsGroupEvent(e) /\ HandledBy(b, e, v, w)
      /\ sofia'[b] = OnCalls(b, v, w, e, sofia[b])
      /\ inbox'[b] = Rest(b, b) \/ inbox'[b] = Rest(b, b) \o <<Message(b, w.state)>>
  BY <1>1, HandleShape
<1>4. w = Dispatch(b, v, onDevice, e, TRUE).vip
  <2>1. PICK works \in BOOLEAN :
          /\ works \/ Spend("ip", b)
          /\ vip' = [vip EXCEPT ![b] = Dispatch(b, v, onDevice, e, works).vip]
    BY DEF HandleEvent
  <2>2. works
    BY <1>1, <2>1 DEF Spend
  <2>3. vip' = [vip EXCEPT ![b] = Dispatch(b, v, onDevice, e, TRUE).vip]
    BY <2>1, <2>2
  <2>4. QED
    BY <1>1, <2>3
<1>5. /\ q # <<>>
      /\ IsFall(e, m) \/ (Ordinary(e, m, owed) /\ FallAhead(Tail(q), m, owed))
  BY <1>1, <1>2, FallNearer
<1>6. Tail(q) \in Seq(S)
  BY <1>1, <1>5, HeadTailProperties
<1>7. CASE IsFall(e, m)
  <2>1. Nodes = {m, b}
    BY DEF AtMostTwoNodes
  <2>2. e.type = "down" /\ e.nodeid = m
    BY <1>7 DEF IsFall
  <2>3. w.state = "MASTER" /\ Action(b, v, e) = "react"
    BY <1>1, <1>2, <2>1, <2>2, BackupTakesOver
  <2> HIDE DEF e, v, w, q, onDevice
  <2>4. sofia'[b] = RecoverCalls(b, sofia[b])
    BY <1>3, <2>3 DEF OnCalls
  <2>5. \A c \in owed : c \in sofia'[b].calls
    BY <1>1, <1>2, <2>4, RecoverCallsRecovers DEF ToRecover
  <2>6. QED
    BY <2>3, <2>5 DEF w
<1>8. CASE Ordinary(e, m, owed) /\ FallAhead(Tail(q), m, owed)
  <2>1. e.type # "down" /\ (e.type = "state" /\ e.state \in Active => e.nodeid = m)
    BY <1>8 DEF Ordinary
  <2>2. FallAhead(inbox'[b], m, owed)
    <3> DEFINE msg == Message(b, w.state)
    <3>1. msg \in S
      BY <1>1, <1>3, UuidType DEF Message, GroupEventsOf, HandledBy, SoundVips
    <3>2. inbox'[b] = Tail(q) \/ inbox'[b] = Tail(q) \o <<msg>>
      BY <1>3 DEF Rest
    <3> HIDE DEF msg, q, S
    <3>3. FallAhead(Tail(q) \o <<msg>>, m, owed)
      BY <1>6, <1>8, <3>1, FallStays
    <3>4. QED
      BY <1>8, <3>2, <3>3
  <2> HIDE DEF e, v, w, q, onDevice
  <2>3. w.state = "BACKUP"
    <3>1. v \in SoundVips /\ IsGroupEvent(e) /\ v.state = "BACKUP"
      BY <1>1, <1>2, <1>3
    <3>2. QED
      BY <1>4, <2>1, <3>1, BackupHears
  <2>4. w # IdleVip
    BY <2>3 DEF IdleVip
  <2>5. w.node_id = b /\ w.master_id = m
    BY <1>2, <1>3, <2>1, <2>4 DEF HandledBy
  <2>6. b \in ToSet(w.node_list)
    BY <1>2, <1>3, <2>1, <2>4 DEF HandledBy, Tracks
  <2>7. v.state \notin Active
    BY <1>2 DEF Active
  <2>8. sofia'[b] \in {sofia[b], HangUpCalls(b, sofia[b])}
    BY <1>1, <1>3, <2>1, <2>7, HandledCalls
  <2>9. HangUpCalls(b, sofia[b]) = sofia[b]
    BY <1>1, <1>2, NothingToHangUp
  <2>10. QED
    BY <2>2, <2>3, <2>5, <2>6, <2>8, <2>9 DEF w
<1>9. QED
  BY <1>5, <1>7, <1>8

(* What the backup hears and applies until then spares the calls.          *)
LEMMA TakingMovesData ==
  ASSUME NEW m \in Nodes, After(m), NEW b \in Nodes \ {m}, Taking(m, b),
         DeliverSql(b) \/ HandleFsEvent(b)
  PROVE  /\ sofia'[b].calls = {}
         /\ \A e \in ToSet(sofia'[b].events) : e.type = "recovery_recv" /\ Spares(e, owed)
         /\ FallAhead(inbox'[b], m, owed)
         /\ \A c \in owed : \A r \in sofia[b].sip_recovery :
              r.uuid = c => r \in sofia'[b].sip_recovery
<1> DEFINE s == sofia[b]
           S == GroupEventsOf(made)
<1>1. /\ SoundTypes /\ sofia \in [Nodes -> Sofias(made)] /\ s \in Sofias(made)
      /\ s.events \in Seq(FsEventsOf(made)) /\ inbox \in [Nodes -> Seq(S)]
  BY DEF After, ViewInv, CallsInv, TypeInv, SoundTypes, Sofias
<1>2. /\ s.calls = {} /\ FallAhead(inbox[b], m, owed)
      /\ \A e \in ToSet(s.events) : e.type = "recovery_recv" /\ Spares(e, owed)
  BY DEF Taking
<1>3. CASE DeliverSql(b)
  <2> DEFINE e == Head(inbox[b])
             recv == [type |-> "recovery_recv", profile |-> e.profile, sql |-> e.sql]
  <2>1. /\ inbox[b] # <<>> /\ e.type = "sql" /\ inbox'[b] = Tail(inbox[b])
        /\ \/ sofia' = sofia
           \/ sofia' = [sofia EXCEPT ![b] = utils_send_track_event(@, e.sql, e.profile)]
    BY <1>1, <1>3 DEF DeliverSql
  <2>2. e \in S /\ inbox[b] \in Seq(S)
    BY <1>1, <2>1, ToSetHeadTail
  <2>3. Ordinary(e, m, owed) /\ FallAhead(inbox'[b], m, owed)
    <3>1. IsFall(e, m) \/ (Ordinary(e, m, owed) /\ FallAhead(Tail(inbox[b]), m, owed))
      BY <1>2, <2>2, FallNearer
    <3>2. QED
      BY <2>1, <3>1 DEF IsFall
  <2>4. CASE sofia' = sofia
    BY <1>2, <2>3, <2>4
  <2>5. CASE sofia' = [sofia EXCEPT ![b] = utils_send_track_event(@, e.sql, e.profile)]
    <3>1. sofia'[b] = Fire(s, recv)
      BY <1>1, <2>5 DEF utils_send_track_event
    <3>2. recv.type = "recovery_recv" /\ Spares(recv, owed)
      BY <2>1, <2>3 DEF Ordinary, Spares, Carries
    <3> HIDE DEF recv
    <3>3. sofia'[b].events = Append(s.events, recv)
      BY <1>1, <3>1 DEF Fire, Sofias
    <3>4. sofia'[b].calls = s.calls /\ sofia'[b].sip_recovery = s.sip_recovery
      BY <1>1, <3>1 DEF Fire, Sofias
    <3>5. ToSet(sofia'[b].events) = ToSet(s.events) \cup {recv}
      BY <1>1, <3>3, LastQueued
    <3>6. QED
      BY <1>2, <2>3, <3>2, <3>4, <3>5
  <2>6. QED
    BY <2>1, <2>4, <2>5
<1>4. CASE HandleFsEvent(b)
  <2> DEFINE e == Head(s.events)
             rest == [s EXCEPT !.events = Tail(@)]
  <2>1. s.events # <<>>
    BY <1>4 DEF HandleFsEvent
  <2>2. e \in ToSet(s.events) /\ ToSet(Tail(s.events)) \subseteq ToSet(s.events)
    BY <1>1, <2>1, ToSetHeadTail
  <2>3. e.type = "recovery_recv" /\ Spares(e, owed)
    BY <1>2, <2>2
  <2>4. sofia'[b] = [rest EXCEPT !.sip_recovery = Execute(@, e.sql)] /\ inbox' = inbox
    BY <1>1, <1>4, <2>3 DEF HandleFsEvent, TrackEvent
  <2>5. /\ sofia'[b].calls = s.calls /\ sofia'[b].events = Tail(s.events)
        /\ sofia'[b].sip_recovery = Execute(s.sip_recovery, e.sql)
    BY <1>1, <2>4 DEF Sofias
  <2>6. Carries(e)
    BY <2>3 DEF Carries
  <2> HIDE DEF e, rest
  <2>7. \A c \in owed : \A r \in s.sip_recovery : r.uuid = c => r \in sofia'[b].sip_recovery
    BY <2>3, <2>5, <2>6, SparedRows
  <2>8. QED
    BY <1>2, <2>2, <2>4, <2>5, <2>7
<1>5. QED
  BY <1>3, <1>4

(* The backup about to take over does, whatever happens meanwhile.         *)
LEMMA TakingLasts ==
  ASSUME AtMostTwoNodes, NEW m \in Nodes, After(m), NamedAlike, NEW x \in Nodes, Acts(x),
         NEW b \in Nodes \ {m}, Taking(m, b)
  PROVE  Taking(m, b)' \/ Keeping(b)'
<1>1. /\ CallsInv /\ SoundTypes /\ NodeInv(b) /\ inbox[b] \in Seq(GroupEventsOf(made))
      /\ phase \in [Nodes -> {"dead", "idle", "running", "stopping", "returning"}]
  BY DEF After, ViewInv, CallsInv, TypeInv, SoundTypes
<1>2. /\ vip[b].state = "BACKUP" /\ vip[b].node_id = b /\ vip[b].master_id = m
      /\ b \in ToSet(vip[b].node_list)
      /\ sofia[b].calls = {} /\ FallAhead(inbox[b], m, owed)
      /\ \A e \in ToSet(sofia[b].events) : e.type = "recovery_recv" /\ Spares(e, owed)
      /\ \A c \in owed : Recoverable(b, c) /\ ToRecover(b, c)
  BY DEF Taking
<1>3. phase[b] = "running"
  BY <1>1, <1>2 DEF NodeInv
<1>4. owed' \subseteq owed /\ over \subseteq over' /\ ~Stop(x) /\ ~Crash(x)
  BY NoMoreOwed
<1>5. ASSUME vip'[b].state = "BACKUP", vip'[b].node_id = b, vip'[b].master_id = m,
             b \in ToSet(vip'[b].node_list), sofia'[b].calls = {},
             \A e \in ToSet(sofia'[b].events) : e.type = "recovery_recv" /\ Spares(e, owed),
             FallAhead(inbox'[b], m, owed),
             \A c \in owed : \A r \in sofia[b].sip_recovery :
               r.uuid = c => r \in sofia'[b].sip_recovery,
             profiles'[b] = profiles[b], launch'[b] = launch[b]
      PROVE  Taking(m, b)'
  <2>1. /\ FallAhead(inbox'[b], m, owed')
        /\ \A e \in ToSet(sofia'[b].events) : e.type = "recovery_recv" /\ Spares(e, owed')
    BY <1>4, <1>5, SparesFewer
  <2>2. \A c \in owed' : ToRecover(b, c)'
    BY <1>2, <1>4, <1>5 DEF ToRecover
  <2>3. \A c \in owed' : Recoverable(b, c)'
    <3> SUFFICES ASSUME NEW c \in owed' PROVE Recoverable(b, c)'
      OBVIOUS
    <3>1. PICK r \in sofia[b].sip_recovery : r.uuid = c /\ r.runtime_uuid # <<b, launch[b]>>
      BY <1>2, <1>4 DEF Recoverable, uuid
    <3>2. r \in sofia'[b].sip_recovery /\ r.runtime_uuid # <<b, launch'[b]>>
      BY <1>4, <1>5, <3>1
    <3>3. QED
      BY <3>1, <3>2 DEF Recoverable, uuid
  <2>4. QED
    BY <1>5, <2>1, <2>2, <2>3 DEF Taking
<1>6. CASE x # b
  <2>1. /\ vip'[b] = vip[b] /\ sofia'[b] = sofia[b] /\ profiles'[b] = profiles[b]
        /\ launch'[b] = launch[b] /\ Told(x, b)
    BY <1>1, <1>6, StepNews DEF Untouched
  <2>2. FallAhead(inbox'[b], m, owed)
    <3>1. ASSUME NEW e, News(x, e), inbox'[b] = inbox[b] \o <<e>>
          PROVE  FallAhead(inbox'[b], m, owed)
      BY <1>1, <1>2, <3>1, FallStays DEF News
    <3>2. QED
      BY <1>2, <2>1, <3>1 DEF Told
  <2>3. QED
    BY <1>2, <1>5, <2>1, <2>2
<1>7. CASE HandleEvent(b)
  <2>1. profiles' = profiles /\ launch' = launch
    BY <1>7 DEF HandleEvent
  <2>2. CASE vip'[b].state = "MASTER" /\ owed \subseteq sofia'[b].calls
    BY <1>4, <2>2 DEF Keeping, Serving, Active
  <2>3. CASE /\ vip'[b].state = "BACKUP" /\ vip'[b].node_id = b /\ vip'[b].master_id = m
             /\ b \in ToSet(vip'[b].node_list)
             /\ sofia'[b] = sofia[b] /\ FallAhead(inbox'[b], m, owed)
    <3>1. Taking(m, b)'
      BY <1>2, <1>5, <2>1, <2>3
    <3>2. QED
      BY <3>1
  <2>4. QED
    BY <1>7, <2>2, <2>3, TakingHandles
<1>8. CASE DeliverSql(b) \/ HandleFsEvent(b)
  <2>1. profiles' = profiles /\ launch' = launch /\ vip' = vip
    BY <1>8 DEF DeliverSql, HandleFsEvent
  <2>2. QED
    BY <1>2, <1>5, <1>8, <2>1, TakingMovesData
<1>9. CASE LeaveGroup(b) \/ StopReturns(b) \/ Start(b) \/ Load(b) \/ CallBegins(b) \/ CallEnds(b)
  BY <1>2, <1>3, <1>9 DEF LeaveGroup, StopReturns, Start, Load, CallBegins, CallEnds, Active
<1>10. QED
  BY <1>4, <1>6, <1>7, <1>8, <1>9 DEF Acts

-----------------------------------------------------------------------------
(* The fall and what follows it *)

(* At first m serves; then m may fall once, by a stop or with its process, *)
(* and no other node falls or fails to move the address.                   *)
OneFall(m) == m \in Serving /\ left["fall"] \subseteq {m} /\ left["ip"] = {}

(* The group settles around m.                                             *)
LEMMA FallAwaited ==
  ASSUME NEW m \in Nodes, Init, ViewInv, OneFall(m)
  PROVE  Before(m)
<1>1. PICK scenario \in Scenarios :
        /\ vip = [n \in Nodes |-> IF n \in scenario.members
                                    THEN Settled(n, scenario.members) ELSE IdleVip]
        /\ phase = [n \in Nodes |-> IF n \in scenario.members THEN "running" ELSE "dead"]
  BY DEF Init
<1> DEFINE members == scenario.members
<1>2. members \subseteq Nodes /\ members # {}
  BY <1>1, ScenariosAssumption
<1>3. ToSet(Ranked(members)) = members
  BY <1>2, RankedType
<1>4. Unrivalled(m) /\ m \in Serving
  BY ReignBegins DEF OneFall, ReignInv, Reigns
<1>5. m = First(members) /\ m \in members
  BY <1>1, <1>4 DEF Serving, Settled, IdleVip, Active
<1>6. ASSUME NEW n \in Nodes
      PROVE  ToSet(inbox[n]) = {} /\ ToSet(sofia[n].events) = {} /\ sofia[n].calls = {}
  BY DEF Init, ToSet
<1>7. KnowsItself
  BY <1>1 DEF KnowsItself, Follows, Settled, IdleVip
<1>8. Known(m)
  <2> SUFFICES ASSUME NEW b \in Nodes \ {m}
               PROVE  /\ m \in ToSet(vip[b].node_list) => vip[b].master_id = m
                      /\ vip[b].state = "BACKUP" => {m, b} \subseteq ToSet(vip[b].node_list)
    BY <1>6 DEF Known
  <2>1. CASE b \in members
    BY <1>1, <1>3, <1>5, <2>1 DEF Settled
  <2>2. CASE b \notin members
    BY <1>1, <2>2 DEF IdleVip, ToSet
  <2>3. QED
    BY <2>1, <2>2
<1>9. HandsOver(m)
  BY <1>6 DEF HandsOver
<1>10. Limits(m)
  BY <1>1 DEF Limits, OneFall
<1>11. owed = {}
  BY DEF Init
<1>12. QED
  BY <1>4, <1>7, <1>8, <1>9, <1>10, <1>11 DEF Before

FallInv(m) == Before(m) \/ After(m)

(* The fall is awaited, or its calls are being taken or kept.              *)
LEMMA FallStep ==
  ASSUME AtMostTwoNodes, NEW m \in Nodes, FallInv(m), NamedAlike, ViewInv', [Next]_vars
  PROVE  FallInv(m)'
<1>1. CASE UNCHANGED vars
  <2>1. /\ UNCHANGED <<vip, phase, inbox, profiles, launch, sofia>>
        /\ UNCHANGED <<made, over, owed, left>>
    BY <1>1 DEF vars, groupVars, historyVars
  <2>2. CASE Before(m)
    <3>1. Unrivalled(m)' /\ Known(m)' /\ KnowsItself'
      BY <2>1, <2>2 DEF Before, Unrivalled, Subject, Known, KnowsItself, Follows
    <3>2. HandsOver(m)' /\ Limits(m)'
      BY <2>1, <2>2 DEF Before, HandsOver, Limits
    <3>3. QED
      BY <2>1, <2>2, <3>1, <3>2 DEF Before, Serving, FallInv
  <2>3. CASE After(m)
    <3>1. ASSUME NEW b \in Nodes PROVE Taking(m, b) => Taking(m, b)'
      BY <2>1 DEF Taking, Recoverable, ToRecover, uuid
    <3>2. ASSUME NEW b \in Nodes PROVE Keeping(b) => Keeping(b)'
      BY <2>1 DEF Keeping, Serving
    <3>3. QED
      BY <2>1, <2>3, <3>1, <3>2 DEF After, FallInv
  <2>4. QED
    BY <2>2, <2>3 DEF FallInv
<1>2. ASSUME NEW x \in Nodes, Acts(x) PROVE FallInv(m)'
  <2>1. CASE Before(m)
    <3>1. CASE x = m /\ (LeaveGroup(m) \/ Crash(m))
      BY <2>1, <3>1, MasterFalls DEF FallInv
    <3>2. CASE x = m => ~LeaveGroup(m) /\ ~Crash(m)
      BY <1>2, <2>1, <3>2, BeforeKept DEF FallInv
    <3>3. QED
      BY <3>1, <3>2
  <2>2. CASE After(m)
    <3>1. /\ owed' \subseteq owed
          /\ left'["fall"] = {} /\ left'["ip"] = {} /\ \A n \in Nodes : phase'[n] # "stopping"
      BY <1>2, <2>2, NoMoreOwed
    <3>2. owed = {} => owed' = {}
      BY <3>1
    <3>3. ASSUME NEW b \in Nodes \ {m}, Taking(m, b) PROVE Taking(m, b)' \/ Keeping(b)'
      BY <1>2, <2>2, <3>3, TakingLasts
    <3>4. ASSUME NEW b \in Nodes \ {m}, Keeping(b) PROVE Keeping(b)'
      BY <1>2, <2>2, <3>4, KeepingStays
    <3>5. owed' = {} \/ \E b \in Nodes \ {m} : Taking(m, b)' \/ Keeping(b)'
      BY <2>2, <3>2, <3>3, <3>4 DEF After
    <3>6. QED
      BY <3>1, <3>5 DEF After, FallInv
  <2>3. QED
    BY <2>1, <2>2 DEF FallInv
<1>3. QED
  BY <1>1, <1>2 DEF Next, Acts

(* In a group of two nodes of the same profiles, a call that the backup    *)
(* could recover when the first master fell, by a stop or with its         *)
(* process, is at rest still in progress on the node that serves or was    *)
(* hung up by a party (fsm.c:63): between the fall and the take-over the   *)
(* backup dispatches and applies nothing that would cost it its role, its  *)
(* place in the list or a row, and the new master keeps the calls whatever *)
(* comes later, the old master's return included.                          *)
THEOREM CallsOutliveTheirMaster ==
  ASSUME AtMostTwoNodes, NEW m \in Nodes
  PROVE  Spec /\ OneFall(m) /\ []NamedAlike => []OwedCallsSurvive
<1>1. Init /\ ViewInv /\ OneFall(m) => FallInv(m)
  BY FallAwaited DEF FallInv
<1>2. FallInv(m) /\ NamedAlike /\ ViewInv' /\ [Next]_vars => FallInv(m)'
  BY FallStep
<1>3. FallInv(m) => OwedCallsSurvive
  <2> SUFFICES ASSUME FallInv(m), AtRest, NEW c \in owed
               PROVE  c \in over \cup UNION {sofia[n].calls : n \in Serving}
    BY DEF OwedCallsSurvive
  <2>1. PICK b \in Nodes \ {m} : Taking(m, b) \/ Keeping(b)
    BY DEF FallInv, Before, After
  <2>2. CASE Taking(m, b)
    <3>1. FallAhead(<<>>, m, owed)
      BY <2>2 DEF Taking, AtRest
    <3>2. Len(<<>>) = 0
      OBVIOUS
    <3>3. QED
      BY <3>1, <3>2 DEF FallAhead
  <2>3. CASE Keeping(b)
    BY <2>3 DEF Keeping
  <2>4. QED
    BY <2>1, <2>2, <2>3
<1>4. QED
  BY <1>1, <1>2, <1>3, ViewInvariant, PTL DEF Spec

=============================================================================
