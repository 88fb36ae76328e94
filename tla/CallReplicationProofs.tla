----------------------- MODULE CallReplicationProofs -----------------------
(***************************************************************************)
(* How the calls of CallRecovery are replicated. As long as the first      *)
(* master serves, every backup that has followed it could recover its      *)
(* calls, and at rest those that name the profile could recover no others: *)
(* what its statements bring is on its way or there, and what they remove  *)
(* comes behind what brought it.                                           *)
(***************************************************************************)
EXTENDS CallRecoveryProofs

-----------------------------------------------------------------------------
(* One master, and those who follow it *)

Subject(m, n) ==
  /\ vip[n].state \notin Active
  /\ vip[n].node_id # m
  /\ vip[n].master_id \in {m, NoNode}

(* The state messages of the group, and the virtual IPs, know no other     *)
(* master than m, and nobody has lost sight of it.                         *)
Unrivalled(m) ==
  /\ \A n \in Nodes : \A e \in ToSet(inbox[n]) :
       e.type = "state" /\ e.state \in Active => e.nodeid = m
  /\ \A n \in Nodes \ {m} : Subject(m, n) /\ (Follows(n) => ~ViewLacks(vip[n], inbox[n], m))

Reigns(m) == vip[m].node_id = m /\ Unrivalled(m)

(* Who follows m does not take it for fallen.                              *)
LEMMA FollowersWait ==
  ASSUME ViewInv, NEW m \in Nodes, Unrivalled(m), NEW x \in Nodes \ {m}, Follows(x),
         inbox[x] # <<>>, NEW e, e = Head(inbox[x])
  PROVE  /\ ~(e.type = "down" /\ vip[x].master_id = e.nodeid)
         /\ ~(e.type = "state" /\ Cardinality(vip[x].member_list) = 1)
<1> DEFINE S == GroupEventsOf(made)
<1>1. vip[x] \in SoundVips /\ inbox[x] \in Seq(S)
  BY DEF ViewInv, CallsInv, TypeInv, SoundTypes
<1>2. e \in S /\ e \in ToSet(inbox[x])
  BY <1>1, ToSetHeadTail
<1>3. 1 \in 1..Len(inbox[x]) /\ inbox[x][1] = e
  BY <1>1, HeadTailProperties, LenProperties, EmptySeq
<1>4. ~ViewLacks(vip[x], inbox[x], x) /\ ~ViewLacks(vip[x], inbox[x], m)
  BY DEF ViewInv, NobodyLacksItself, Unrivalled
<1>5. ASSUME e.type = "down", vip[x].master_id = e.nodeid PROVE FALSE
  <2>1. e.nodeid \in Nodes /\ NoNode \notin Nodes
    BY <1>2, <1>5, NodesAssumption DEF GroupEventsOf, NoNode
  <2>2. e.nodeid = m
    BY <1>5, <2>1 DEF Unrivalled, Subject
  <2>3. m \notin e.member_list
    BY <1>2, <1>5, <2>2 DEF ViewInv, DeparturesAreOut
  <2>4. QED
    BY <1>3, <1>4, <1>5, <2>3 DEF ViewLacks, IsConfig
<1>6. ASSUME e.type = "state", Cardinality(vip[x].member_list) = 1 PROVE FALSE
  <2>1. ~IsConfig(inbox[x][1])
    BY <1>3, <1>6 DEF IsConfig
  <2>2. x \in vip[x].member_list /\ m \in vip[x].member_list
    BY <1>4, <2>1 DEF ViewLacks
  <2>3. IsFiniteSet(vip[x].member_list)
    BY <1>1, NodesAssumption, FS_Subset DEF SoundVips
  <2>4. PICK only : vip[x].member_list = {only}
    BY <1>6, <2>3, FS_Singleton
  <2>5. QED
    BY <2>2, <2>4
<1>7. QED
  BY <1>5, <1>6

Carries(e) == e.type \in {"recovery_send", "recovery_recv", "sql"}

(* News without calls, and no rival to m in them.                          *)
Harmless(m, e) == ~Carries(e) /\ (e.type = "state" /\ e.state \in Active => e.nodeid = m)

(* What n has heard in the step carries no calls.                          *)
Hears(m, n) ==
  \E box : /\ \/ box = inbox[n]
              \/ inbox[n] # <<>> /\ ~Carries(Head(inbox[n])) /\ box = Tail(inbox[n])
           /\ \/ inbox'[n] = box
              \/ \E e \in GroupEventsOf(made) : Harmless(m, e) /\ inbox'[n] = box \o <<e>>

UpPending(box) == \E e \in ToSet(box) : e.type = "up"

(* A step of the group: no row and no statement moves, but that the master *)
(* asks for its rows when it hears that somebody has joined.               *)
GroupStep(m) ==
  /\ \A n \in Nodes : Hears(m, n) \/ (n # m /\ ~Follows(n)' /\ inbox'[n] = <<>>)
  /\ \A n \in Nodes \ {m} :
       /\ Subject(m, n)'
       /\ \/ sofia'[n] = sofia[n]
          \/ /\ ~Follows(n)' /\ sofia'[n].calls = {} /\ sofia'[n].events = <<>>
             /\ sofia'[n].sip_recovery = sofia[n].sip_recovery
       /\ Follows(n)' => (Follows(n) /\ profiles'[n] = profiles[n]) \/ UpPending(inbox'[m])
  /\ vip'[m].node_id = m
  /\ \/ sofia'[m] = sofia[m] /\ (UpPending(inbox[m]) => UpPending(inbox'[m]))
     \/ sofia'[m] = virtual_ip_send_all_sql(m, sofia[m])
  /\ profiles'[m] = profiles[m] /\ launch'[m] = launch[m] /\ made' = made

(* The dispatch of an event at a node that follows ...                     *)
LEMMA FollowerHandles ==
  ASSUME ViewInv, NEW m \in Nodes, Unrivalled(m), NEW x \in Nodes \ {m}, HandleEvent(x),
         sofia[x].calls = {}
  PROVE  Subject(m, x)' /\ sofia'[x] = sofia[x] /\ (Follows(x)' => Follows(x))
<1> DEFINE e == Head(inbox[x])
<1>1. /\ CallsInv /\ SoundTypes /\ vip[x] \in SoundVips /\ x \in Nodes
      /\ inbox[x] \in Seq(GroupEventsOf(made))
  BY DEF ViewInv, CallsInv, TypeInv, SoundTypes
<1>2. /\ inbox[x] # <<>> /\ IsGroupEvent(e)
      /\ HandledBy(x, e, vip[x], vip'[x])
      /\ sofia'[x] = OnCalls(x, vip[x], vip'[x], e, sofia[x])
  BY <1>1, HandleShape
<1>3. e \in ToSet(inbox[x])
  BY <1>1, <1>2, ToSetHeadTail
<1> HIDE DEF e
<1>4. Subject(m, x)
  BY DEF Unrivalled
<1>5. Follows(x) => /\ ~(e.type = "down" /\ vip[x].master_id = e.nodeid)
                    /\ ~(e.type = "state" /\ Cardinality(vip[x].member_list) = 1)
  BY <1>2, FollowersWait DEF e
<1>6. vip'[x].state \notin Active
  <2> SUFFICES ASSUME vip'[x].state \in Active PROVE FALSE
    OBVIOUS
  <2>1. Follows(x)
    BY <1>2 DEF HandledBy, Follows, Active
  <2>2. QED
    BY <1>2, <1>4, <1>5, <2>1 DEF HandledBy, Subject
<1>7. Subject(m, x)'
  <2>1. IdleVip.node_id = NoNode /\ IdleVip.master_id = NoNode /\ NoNode # m
    BY NodesAssumption DEF IdleVip, NoNode
  <2>2. vip'[x].node_id # m
    BY <1>2, <1>4, <2>1 DEF HandledBy, Subject
  <2>3. vip'[x].master_id \in {m, NoNode}
    <3>1. e.type = "state" /\ e.state \in Active => e.nodeid = m
      BY <1>3 DEF Unrivalled
    <3>2. QED
      BY <1>2, <1>4, <2>1, <3>1 DEF HandledBy, Subject
  <2>4. QED
    BY <1>6, <2>2, <2>3 DEF Subject
<1>8. sofia'[x] = sofia[x]
  <2>1. HangUpCalls(x, sofia[x]) = sofia[x]
    BY <1>1, NothingToHangUp
  <2>2. CASE Follows(x)
    BY <1>1, <1>2, <1>4, <1>5, <2>1, <2>2, HandledCalls DEF Subject
  <2>3. CASE ~Follows(x)
    <3>1. Action(x, vip[x], e) \notin {"backupup", "react"}
      <4>1. \A event \in EventNames : table[event].IDLE \notin {"backupup", "react"}
        BY DEF table, EventNames
      <4>2. vip[x].state = "IDLE"
        BY <2>3 DEF Follows
      <4>3. EventOf(x, vip[x], e) \in EventNames \cup {"none"}
        BY <1>2, <4>2 DEF EventOf, MessageEvent, Recorded, IsGroupEvent, EventNames
      <4>4. QED
        BY <4>1, <4>2, <4>3 DEF Action
    <3>2. QED
      BY <1>2, <2>3, <3>1 DEF OnCalls, Follows
  <2>4. QED
    BY <2>2, <2>3
<1>9. QED
  BY <1>2, <1>7, <1>8 DEF HandledBy, Follows

(* ... and at the master.                                                  *)
LEMMA MasterHandles ==
  ASSUME ViewInv, NEW m \in Nodes, Reigns(m), m \in Serving, HandleEvent(m),
         NEW e, e = Head(inbox[m])
  PROVE  /\ vip'[m].state \in Active /\ vip'[m].node_id = m
         /\ sofia'[m] = IF e.type = "up" THEN virtual_ip_send_all_sql(m, sofia[m]) ELSE sofia[m]
<1>1. CallsInv /\ vip[m] \in SoundVips /\ vip[m].state \in Active
  BY DEF ViewInv, CallsInv, TypeInv, SoundTypes, Serving
<1>2. /\ IsGroupEvent(e) /\ HandledBy(m, e, vip[m], vip'[m])
      /\ sofia'[m] = OnCalls(m, vip[m], vip'[m], e, sofia[m])
  BY <1>1, HandleShape
<1>3. vip'[m].state \in Active
  BY <1>1, <1>2 DEF HandledBy
<1>4. vip'[m].node_id = m
  BY <1>2, <1>3 DEF HandledBy, Reigns, Unrivalled, IdleVip, Active
<1>5. QED
  BY <1>1, <1>2, <1>3, <1>4, HandledCalls

(* An inbox to which at most harmless news has come.                       *)
LEMMA HearsMore ==
  ASSUME NEW m, NEW n, NEW e \in GroupEventsOf(made), Harmless(m, e),
         inbox'[n] = inbox[n] \/ inbox'[n] = inbox[n] \o <<e>>
  PROVE  Hears(m, n)
BY DEF Hears

(* A step that only changes roles, stops or starts: the common part.       *)
LEMMA QuietStep ==
  ASSUME NEW m \in Nodes, Reigns(m), vip'[m] = vip[m], inbox' = inbox,
         \A n \in Nodes \ {m} : Subject(m, n)' /\ sofia'[n] = sofia[n]
                                /\ (Follows(n)' => Follows(n)),
         sofia'[m] = sofia[m], profiles' = profiles, launch' = launch, made' = made
  PROVE  GroupStep(m)
<1>1. \A n \in Nodes : Hears(m, n)
  BY DEF Hears
<1>2. vip'[m].node_id = m
  BY DEF Reigns, Unrivalled
<1>3. QED
  BY <1>1, <1>2 DEF GroupStep

(* vip_thread dispatches an event of the group.                            *)
LEMMA HandleIsGroupStep ==
  ASSUME ViewInv, NEW m \in Nodes, Reigns(m), m \in Serving,
         \A n \in Nodes \ {m} : sofia[n].calls = {},
         NEW x \in Nodes, HandleEvent(x)
  PROVE  GroupStep(m)
<1> DEFINE e == Head(inbox[x])
           msg == Message(x, vip'[x].state)
           S == GroupEventsOf(made)
<1>1. CallsInv /\ SoundTypes /\ \A n \in Nodes : inbox[n] \in Seq(S)
  BY DEF ViewInv, CallsInv, TypeInv, SoundTypes
<1>2. /\ x \in Joined /\ inbox[x] # <<>> /\ e \in S /\ e.type # "sql"
      /\ \A n \in Nodes \ {x} : vip'[n] = vip[n] /\ sofia'[n] = sofia[n]
      /\ vip'[x] \in SoundVips
      /\ \/ \A n \in Nodes : inbox'[n] = Rest(x, n)
         \/ \A n \in Nodes :
              inbox'[n] = IF n \in Joined THEN Rest(x, n) \o <<msg>> ELSE Rest(x, n)
  BY <1>1, HandleShape DEF HandledBy
<1>3. UNCHANGED <<phase, profiles, launch, made>>
  BY DEF HandleEvent
<1>4. ~Carries(e)
  BY <1>2 DEF Carries, GroupEventsOf
<1>5. ASSUME NEW n \in Nodes \ {m}
      PROVE  Subject(m, n)' /\ sofia'[n] = sofia[n] /\ (Follows(n)' => Follows(n))
  <2>1. CASE n = x
    BY <2>1, FollowerHandles DEF Reigns
  <2>2. CASE n # x
    BY <1>2, <2>2 DEF Reigns, Unrivalled, Subject, Follows
  <2>3. QED
    BY <2>1, <2>2
<1>6. Harmless(m, msg) /\ msg \in S
  <2>1. msg.type = "state" /\ msg.state = vip'[x].state /\ msg.nodeid = x
    BY DEF Message
  <2>2. x # m => vip'[x].state \notin Active
    BY <1>5 DEF Subject
  <2>3. msg \in S
    BY <1>1, <1>2, UuidType DEF Message, GroupEventsOf, SoundVips
  <2>4. QED
    BY <2>1, <2>2, <2>3 DEF Harmless, Carries
<1> HIDE DEF msg
<1>7. ASSUME NEW n \in Nodes PROVE Hears(m, n)
  <2>1. inbox'[n] = Rest(x, n) \/ inbox'[n] = Rest(x, n) \o <<msg>>
    BY <1>2
  <2>2. \/ Rest(x, n) = inbox[n]
        \/ inbox[n] # <<>> /\ ~Carries(Head(inbox[n])) /\ Rest(x, n) = Tail(inbox[n])
    BY <1>2, <1>4 DEF Rest
  <2>3. QED
    BY <1>6, <2>1, <2>2 DEF Hears
<1>8. vip'[m].node_id = m
  BY <1>2, MasterHandles DEF Reigns, Unrivalled
<1>9. \/ sofia'[m] = sofia[m] /\ (UpPending(inbox[m]) => UpPending(inbox'[m]))
      \/ sofia'[m] = virtual_ip_send_all_sql(m, sofia[m])
  <2>1. ASSUME x = m => e.type # "up" PROVE UpPending(inbox[m]) => UpPending(inbox'[m])
    <3>1. UpPending(inbox[m]) => UpPending(Rest(x, m))
      BY <1>1, <1>2, <2>1, ToSetHeadTail DEF UpPending, Rest
    <3>2. Rest(x, m) \in Seq(S)
      BY <1>1, <1>2, ToSetHeadTail DEF Rest
    <3>3. ToSet(Rest(x, m)) \subseteq ToSet(inbox'[m])
      BY <1>2, <1>6, <3>2, ToSetAppended
    <3>4. QED
      BY <3>1, <3>3 DEF UpPending
  <2>2. CASE x # m
    BY <1>2, <2>1, <2>2
  <2>3. CASE x = m
    BY <2>1, <2>3, MasterHandles
  <2>4. QED
    BY <2>2, <2>3
<1>10. QED
  BY <1>3, <1>5, <1>7, <1>8, <1>9 DEF GroupStep

(* A node that leaves, or dies.                                            *)
LEMMA DepartureIsGroupStep ==
  ASSUME ViewInv, NEW m \in Nodes, Reigns(m), NEW x \in Nodes \ {m},
         inbox' = Departure(x) \/ inbox' = inbox,
         ~Follows(x)', Subject(m, x)',
         \A n \in Nodes \ {x} : vip'[n] = vip[n] /\ sofia'[n] = sofia[n],
         \/ sofia'[x] = sofia[x]
         \/ /\ sofia'[x].calls = {} /\ sofia'[x].events = <<>>
            /\ sofia'[x].sip_recovery = sofia[x].sip_recovery,
         profiles' = profiles, launch' = launch, made' = made
  PROVE  GroupStep(m)
<1> DEFINE S == GroupEventsOf(made)
           down == Down(x, Joined \ {x})
<1>1. SoundTypes /\ x \in Nodes /\ \A n \in Nodes : inbox[n] \in Seq(S)
  BY DEF ViewInv, CallsInv, TypeInv, SoundTypes
<1>2. /\ inbox'[x] = <<>> \/ inbox' = inbox
      /\ \A n \in Nodes \ {x} : inbox'[n] = inbox[n] \/ inbox'[n] = inbox[n] \o <<down>>
      /\ down \in S /\ down.type = "down"
  <2>1. down \in S /\ down.type = "down"
    BY DEF Down, GroupEventsOf, Joined
  <2>2. CASE inbox' = inbox
    BY <2>1, <2>2
  <2>3. CASE inbox' = Departure(x)
    BY <1>1, <2>3, DepartureShape
  <2>4. QED
    BY <2>2, <2>3
<1>3. Harmless(m, down)
  BY <1>2 DEF Harmless, Carries
<1> HIDE DEF down
<1>4. \A n \in Nodes : Hears(m, n) \/ (n # m /\ ~Follows(n)' /\ inbox'[n] = <<>>)
  BY <1>2, <1>3, HearsMore
<1>5. ToSet(inbox[m]) \subseteq ToSet(inbox'[m])
  <2>1. inbox'[m] = inbox[m] \/ inbox'[m] = inbox[m] \o <<down>>
    BY <1>2
  <2>2. inbox[m] \in Seq(S) /\ down \in S
    BY <1>1, <1>2
  <2>3. ToSet(inbox[m] \o <<down>>) = ToSet(inbox[m]) \cup {down}
    BY <2>2, ToSetAppended
  <2>4. QED
    BY <2>1, <2>3
<1>6. UpPending(inbox[m]) => UpPending(inbox'[m])
  BY <1>5 DEF UpPending
<1>7. ASSUME NEW n \in Nodes \ {m}
      PROVE  /\ Subject(m, n)'
             /\ Follows(n)' => Follows(n) /\ profiles'[n] = profiles[n]
  BY DEF Reigns, Unrivalled, Subject, Follows
<1>8. vip'[m].node_id = m
  BY DEF Reigns, Unrivalled
<1>9. QED
  BY <1>4, <1>6, <1>7, <1>8 DEF GroupStep

(* A node that joins.                                                      *)
LEMMA JoinIsGroupStep ==
  ASSUME ViewInv, NEW m \in Nodes, Reigns(m), m \in Joined, NEW x \in Nodes \ {m}, GoUp(x),
         sofia' = sofia, profiles'[m] = profiles[m], launch'[m] = launch[m], made' = made,
         \A n \in Nodes \ {x} : profiles'[n] = profiles[n]
  PROVE  GroupStep(m)
<1> DEFINE S == GroupEventsOf(made)
           up == Up(Joined \cup {x})
<1>1. SoundTypes /\ x \in Nodes /\ \A n \in Nodes : inbox[n] \in Seq(S)
  BY DEF ViewInv, CallsInv, TypeInv, SoundTypes
<1>2. /\ vip'[x].state = "START" /\ vip'[x].node_id = x /\ vip'[x].master_id = vip[x].master_id
      /\ up \in S /\ up.type = "up"
      /\ \A n \in Nodes \ {x} : vip'[n] = vip[n]
  BY <1>1, JoinShape
<1>3. \A n \in Nodes : inbox'[n] = IF n \in Joined \cup {x} THEN inbox[n] \o <<up>> ELSE inbox[n]
  BY <1>1, JoinShape
<1>4. Harmless(m, up)
  BY <1>2 DEF Harmless, Carries
<1> HIDE DEF up
<1>5. \A n \in Nodes : Hears(m, n)
  BY <1>2, <1>3, <1>4, HearsMore
<1>6. UpPending(inbox'[m])
  BY <1>1, <1>2, <1>3, ToSetAppended DEF UpPending
<1>7. ASSUME NEW n \in Nodes \ {m} PROVE Subject(m, n)'
  <2>1. CASE n = x
    BY <1>2, <2>1 DEF Reigns, Unrivalled, Subject, Active
  <2>2. CASE n # x
    BY <1>2, <2>2 DEF Reigns, Unrivalled, Subject
  <2>3. QED
    BY <2>1, <2>2
<1>8. vip'[m].node_id = m
  BY <1>2 DEF Reigns, Unrivalled
<1>9. QED
  BY <1>5, <1>6, <1>7, <1>8 DEF GroupStep

(* Every step of the group while m serves.                                 *)
LEMMA GroupSteps ==
  ASSUME ViewInv, NEW m \in Nodes, Reigns(m), m \in Serving, (m \in Serving)',
         \A n \in Nodes \ {m} : sofia[n].calls = {},
         NEW x \in Nodes,
         \/ HandleEvent(x) \/ LeaveGroup(x) \/ Stop(x) \/ StopReturns(x)
         \/ Crash(x) \/ Start(x) \/ Load(x)
  PROVE  GroupStep(m)
<1>1. /\ SoundTypes /\ vip \in [Nodes -> SoundVips] /\ sofia \in [Nodes -> Sofias(made)]
      /\ phase \in [Nodes -> {"dead", "idle", "running", "stopping", "returning"}]
      /\ DOMAIN profiles = Nodes /\ DOMAIN launch = Nodes
  BY DEF ViewInv, CallsInv, TypeInv, SoundTypes
<1>2. /\ vip[m].state \in Active /\ vip'[m].state \in Active
      /\ phase[m] = "running" /\ m \in Joined
  <2>1. vip[m].state \in Active /\ vip'[m].state \in Active
    BY DEF Serving
  <2>2. NodeInv(m)
    BY DEF ViewInv, CallsInv
  <2>3. QED
    BY <2>1, <2>2 DEF NodeInv, Joined, Active
<1>3. x # m => Subject(m, x)
  BY DEF Reigns, Unrivalled
<1>4. IdleVip.state = "IDLE" /\ IdleVip.node_id # m /\ IdleVip.master_id = NoNode
  BY NodesAssumption DEF IdleVip, NoNode
<1>5. ASSUME LeaveGroup(x) PROVE GroupStep(m)
  <2>1. /\ inbox' = Departure(x) /\ vip[x].state = "IDLE"
        /\ UNCHANGED <<vip, sofia, profiles, launch, made>>
    BY <1>5 DEF LeaveGroup, Falls
  <2>2. x # m
    BY <1>2, <2>1 DEF Active
  <2>3. QED
    BY <1>3, <2>1, <2>2, DepartureIsGroupStep DEF Follows, Subject
<1>6. ASSUME Stop(x) PROVE GroupStep(m)
  <2>1. vip' = [vip EXCEPT ![x] = IdleVip] /\ UNCHANGED <<inbox, sofia, profiles, launch, made>>
    BY <1>6 DEF Stop, go_down
  <2>2. x # m
    BY <1>1, <1>2, <1>4, <2>1 DEF Active
  <2>3. vip'[m] = vip[m]
    BY <2>1, <2>2
  <2>4. ASSUME NEW n \in Nodes \ {m} PROVE Subject(m, n)' /\ (Follows(n)' => Follows(n))
    BY <1>1, <1>4, <2>1 DEF Reigns, Unrivalled, Subject, Follows, Active
  <2>5. QED
    BY <2>1, <2>3, <2>4, QuietStep
<1>7. ASSUME StopReturns(x) PROVE GroupStep(m)
  <2>1. /\ phase[x] = "returning" /\ sofia' = [sofia EXCEPT ![x] = HangUpCalls(x, @)]
        /\ UNCHANGED <<vip, inbox, profiles, launch, made>>
    BY <1>7 DEF StopReturns, historyVars
  <2>2. x # m
    BY <1>2, <2>1
  <2>3. sofia' = sofia
    <3>1. HangUpCalls(x, sofia[x]) = sofia[x]
      BY <1>1, <2>2, NothingToHangUp
    <3>2. QED
      BY <1>1, <2>1, <3>1
  <2>4. \A n \in Nodes \ {m} : Subject(m, n)' /\ (Follows(n)' => Follows(n))
    BY <2>1 DEF Reigns, Unrivalled, Subject, Follows
  <2>5. QED
    BY <2>1, <2>3, <2>4, QuietStep
<1>8. ASSUME Crash(x) PROVE GroupStep(m)
  <2>1. /\ inbox' = Departure(x) \/ inbox' = inbox
        /\ vip' = [vip EXCEPT ![x] = IdleVip]
        /\ sofia' = [sofia EXCEPT ![x].calls = {}, ![x].events = <<>>]
        /\ UNCHANGED <<profiles, launch, made>>
    BY <1>8 DEF Crash, Falls
  <2>2. x # m
    BY <1>1, <1>2, <1>4, <2>1 DEF Active
  <2>3. vip'[x] = IdleVip /\ \A n \in Nodes \ {x} : vip'[n] = vip[n] /\ sofia'[n] = sofia[n]
    BY <1>1, <2>1
  <2>4. /\ sofia'[x].calls = {} /\ sofia'[x].events = <<>>
        /\ sofia'[x].sip_recovery = sofia[x].sip_recovery
    BY <1>1, <2>1 DEF Sofias
  <2>5. Subject(m, x)' /\ ~Follows(x)'
    BY <1>4, <2>3 DEF Subject, Follows, Active
  <2>6. QED
    BY <2>1, <2>2, <2>3, <2>4, <2>5, DepartureIsGroupStep
<1>9. ASSUME Start(x) \/ Load(x) PROVE GroupStep(m)
  <2>1. /\ GoUp(x) /\ phase[x] \in {"idle", "dead"} /\ sofia' = sofia /\ made' = made
        /\ \A n \in Nodes \ {x} : profiles'[n] = profiles[n] /\ launch'[n] = launch[n]
    BY <1>1, <1>9 DEF Start, Load, historyVars
  <2>2. x # m
    BY <1>2, <2>1
  <2>3. QED
    BY <1>2, <2>1, <2>2, JoinIsGroupStep
<1>10. QED
  BY <1>5, <1>6, <1>7, <1>8, <1>9, HandleIsGroupStep

-----------------------------------------------------------------------------
(* The rows of the master *)

(* A statement of m: one that inserts rows of its process, or deletes rows *)
(* of one profile whose calls are over.                                    *)
Mine(m, e) ==
  Carries(e) =>
    /\ e.sql.op \in {"insert", "insert_missing", "delete"}
    /\ \A r \in e.sql.rows : r.runtime_uuid = uuid(m)
    /\ e.sql.op = "delete" =>
         \A r \in e.sql.rows : ProfileOf[r.uuid] = e.profile /\ r.uuid \notin sofia[m].calls

(* All rows and statements of the group are those of m: its table is that  *)
(* of its calls, the others hold no call.                                  *)
Holdings(m) ==
  /\ sofia[m].sip_recovery = {Row(c, uuid(m)) : c \in sofia[m].calls}
  /\ \A n \in Nodes : \A e \in ToSet(inbox[n]) : Mine(m, e) /\ (e.type = "sql" => e.nodeid = m)
  /\ \A n \in Nodes : \A e \in ToSet(sofia[n].events) :
       Mine(m, e) /\ (e.type = "recovery_recv" <=> n # m)
  /\ \A n \in Nodes \ {m} : /\ sofia[n].calls = {}
                            /\ \A r \in sofia[n].sip_recovery : r.runtime_uuid = uuid(m)

(* No statement speaks of a call that is yet to be made.                   *)
LEMMA MineKept ==
  ASSUME NEW m, NEW e \in FsEventsOf(made) \cup GroupEventsOf(made), Mine(m, e),
         launch'[m] = launch[m],
         \A c \in sofia'[m].calls : c \in sofia[m].calls \/ c \notin made
  PROVE  Mine(m, e)'
<1> SUFFICES ASSUME Carries(e)
             PROVE  Mine(m, e)'
  BY DEF Mine
<1>1. e.sql \in StatementsOf(made)
  BY DEF Carries, FsEventsOf, GroupEventsOf
<1>2. e.sql.op \in {"insert", "insert_missing", "delete"}
  BY DEF Mine
<1>3. \A r \in e.sql.rows : r.uuid \in made
  BY <1>1, <1>2 DEF StatementsOf, RowsOf
<1>4. uuid(m)' = uuid(m)
  BY DEF uuid
<1>5. QED
  BY <1>2, <1>3, <1>4 DEF Mine

(* What a step must respect: the statements that come are those of m.      *)
LEMMA HoldingsKept ==
  ASSUME SoundTypes, NEW m \in Nodes, Holdings(m), launch'[m] = launch[m],
         \A c \in sofia'[m].calls : c \in sofia[m].calls \/ c \notin made,
         sofia'[m].sip_recovery = {Row(c, uuid(m)) : c \in sofia'[m].calls},
         \A n \in Nodes : \A e \in ToSet(inbox'[n]) :
           e \in ToSet(inbox[n]) \/ (Mine(m, e)' /\ (e.type = "sql" => e.nodeid = m)),
         \A n \in Nodes : \A e \in ToSet(sofia'[n].events) :
           \/ e \in ToSet(sofia[n].events)
           \/ Mine(m, e)' /\ (e.type = "recovery_recv" <=> n # m),
         \A n \in Nodes \ {m} :
           /\ sofia'[n].calls = {}
           /\ \A r \in sofia'[n].sip_recovery : r \in sofia[n].sip_recovery
                                                \/ r.runtime_uuid = uuid(m)
  PROVE  Holdings(m)'
<1>1. uuid(m)' = uuid(m)
  BY DEF uuid
<1>2. ASSUME NEW n \in Nodes, NEW e \in ToSet(inbox[n])
      PROVE  Mine(m, e)' /\ (e.type = "sql" => e.nodeid = m)
  <2>1. e \in GroupEventsOf(made)
    <3>1. inbox[n] \in Seq(GroupEventsOf(made))
      BY DEF SoundTypes
    <3>2. QED
      BY <3>1, ElementOfSeq, LenProperties DEF ToSet
  <2>2. Mine(m, e) /\ (e.type = "sql" => e.nodeid = m)
    BY DEF Holdings
  <2>3. QED
    BY <2>1, <2>2, MineKept
<1>3. ASSUME NEW n \in Nodes, NEW e \in ToSet(sofia[n].events)
      PROVE  Mine(m, e)' /\ (e.type = "recovery_recv" <=> n # m)
  <2>1. e \in FsEventsOf(made)
    <3>1. sofia[n].events \in Seq(FsEventsOf(made))
      BY DEF SoundTypes, Sofias
    <3>2. QED
      BY <3>1, ElementOfSeq, LenProperties DEF ToSet
  <2>2. Mine(m, e) /\ (e.type = "recovery_recv" <=> n # m)
    BY DEF Holdings
  <2>3. QED
    BY <2>1, <2>2, MineKept
<1>4. \A n \in Nodes \ {m} : \A r \in sofia'[n].sip_recovery : r.runtime_uuid = uuid(m)
  BY DEF Holdings
<1>5. \A n \in Nodes : \A e \in ToSet(inbox'[n]) : Mine(m, e)' /\ (e.type = "sql" => e.nodeid = m)
  BY <1>2
<1>6. \A n \in Nodes : \A e \in ToSet(sofia'[n].events) :
        Mine(m, e)' /\ (e.type = "recovery_recv" <=> n # m)
  BY <1>3
<1>7. sofia'[m].sip_recovery = {Row(c, uuid(m)') : c \in sofia'[m].calls}
  BY <1>1
<1>8. QED
  BY <1>1, <1>4, <1>5, <1>6, <1>7 DEF Holdings

-----------------------------------------------------------------------------
(* The steps that move rows and statements, while m serves *)

ReignInv(m) == ViewInv /\ Reigns(m) /\ Holdings(m) /\ m \in Serving

RecvOf(e) == [type |-> "recovery_recv", profile |-> e.profile, sql |-> e.sql]

(* The variables that only steps of the group change.                      *)
GroupRests == UNCHANGED <<vip, phase, profiles, launch, past>>

(* What the types say of one node.                                         *)
LEMMA NodeTypes ==
  ASSUME ViewInv, NEW n \in Nodes
  PROVE  /\ SoundTypes /\ sofia \in [Nodes -> Sofias(made)] /\ sofia[n] \in Sofias(made)
         /\ inbox[n] \in Seq(GroupEventsOf(made)) /\ DOMAIN inbox = Nodes
         /\ sofia[n].events \in Seq(FsEventsOf(made)) /\ uuid(n) \in Uuids
BY UuidType DEF ViewInv, CallsInv, TypeInv, SoundTypes, Sofias

(* A statement reaches a node: m skips it, the others queue it.            *)
Delivers(m, x, e) ==
  /\ inbox[x] # <<>> /\ e = Head(inbox[x]) /\ e.type = "sql" /\ e \in GroupEventsOf(made)
  /\ inbox'[x] = Tail(inbox[x])
  /\ \A n \in Nodes \ {x} : inbox'[n] = inbox[n] /\ sofia'[n] = sofia[n]
  /\ \/ sofia'[x] = sofia[x] /\ (x = m \/ e.profile \notin Names(x))
     \/ /\ x # m /\ e.profile \in Names(x)
        /\ sofia'[x].sip_recovery = sofia[x].sip_recovery /\ sofia'[x].calls = sofia[x].calls
        /\ RecvOf(e) \in FsEventsOf(made)
        /\ sofia'[x].events = sofia[x].events \o <<RecvOf(e)>>
  /\ GroupRests /\ made' = made

(* The master skips its own statements.                                    *)
LEMMA DeliverShape ==
  ASSUME NEW m \in Nodes, ReignInv(m), NEW x \in Nodes, DeliverSql(x)
  PROVE  Delivers(m, x, Head(inbox[x]))
<1> DEFINE e == Head(inbox[x])
<1>1. /\ inbox[x] # <<>> /\ e.type = "sql"
      /\ inbox' = [inbox EXCEPT ![x] = Tail(@)]
      /\ sofia' = IF vip[x].node_id # e.nodeid /\ e.profile \in Names(x)
                    THEN [sofia EXCEPT ![x] = utils_send_track_event(@, e.sql, e.profile)]
                    ELSE sofia
      /\ GroupRests /\ made' = made
  BY DEF DeliverSql, historyVars, GroupRests
<1>2. /\ sofia \in [Nodes -> Sofias(made)] /\ sofia[x] \in Sofias(made)
      /\ inbox[x] \in Seq(GroupEventsOf(made)) /\ DOMAIN inbox = Nodes
  BY NodeTypes DEF ReignInv
<1>3. e \in GroupEventsOf(made) /\ e \in ToSet(inbox[x])
  BY <1>1, <1>2, ToSetHeadTail
<1>4. e.nodeid = m
  BY <1>1, <1>3 DEF ReignInv, Holdings
<1>5. vip[x].node_id # m <=> x # m
  BY DEF ReignInv, Reigns, Unrivalled, Subject
<1>6. inbox'[x] = Tail(inbox[x]) /\ \A n \in Nodes \ {x} : inbox'[n] = inbox[n]
  BY <1>1, <1>2
<1>7. CASE x # m /\ e.profile \in Names(x)
  <2>1. RecvOf(e) \in FsEventsOf(made)
    BY <1>1, <1>3 DEF RecvOf, FsEventsOf, GroupEventsOf
  <2>2. /\ sofia'[x] = Fire(sofia[x], RecvOf(e))
        /\ \A n \in Nodes \ {x} : sofia'[n] = sofia[n]
    BY <1>1, <1>2, <1>4, <1>5, <1>7 DEF utils_send_track_event, RecvOf
  <2> HIDE DEF e
  <2>3. /\ sofia'[x].sip_recovery = sofia[x].sip_recovery /\ sofia'[x].calls = sofia[x].calls
        /\ sofia'[x].events = sofia[x].events \o <<RecvOf(e)>>
    BY <1>2, <2>1, <2>2, Fired
  <2>4. QED
    BY <1>1, <1>3, <1>6, <1>7, <2>1, <2>2, <2>3 DEF Delivers, e
<1>8. CASE ~(x # m /\ e.profile \in Names(x))
  BY <1>1, <1>3, <1>4, <1>5, <1>6, <1>8 DEF Delivers
<1>9. QED
  BY <1>7, <1>8

(* A node that follows applies a statement to its table.                   *)
Applies(x, e) ==
  /\ sofia[x].events # <<>> /\ e = Head(sofia[x].events) /\ e.type = "recovery_recv"
  /\ e \in FsEventsOf(made)
  /\ inbox' = inbox
  /\ \A n \in Nodes \ {x} : sofia'[n] = sofia[n]
  /\ sofia'[x].sip_recovery = Execute(sofia[x].sip_recovery, e.sql)
  /\ sofia'[x].calls = sofia[x].calls /\ sofia'[x].events = Tail(sofia[x].events)
  /\ GroupRests /\ made' = made

(* All the events of such a node are statements of others.                 *)
LEMMA ApplyShape ==
  ASSUME NEW m \in Nodes, ReignInv(m), NEW x \in Nodes \ {m}, HandleFsEvent(x)
  PROVE  Applies(x, Head(sofia[x].events))
<1> DEFINE e == Head(sofia[x].events)
           rest == [sofia[x] EXCEPT !.events = Tail(@)]
<1>1. /\ sofia \in [Nodes -> Sofias(made)] /\ sofia[x] \in Sofias(made)
      /\ sofia[x].events \in Seq(FsEventsOf(made)) /\ sofia[x].events # <<>>
  BY NodeTypes DEF ReignInv, HandleFsEvent
<1>2. e \in FsEventsOf(made) /\ e \in ToSet(sofia[x].events)
  BY <1>1, ToSetHeadTail
<1>3. e.type = "recovery_recv"
  BY <1>2 DEF ReignInv, Holdings
<1>4. /\ inbox' = inbox /\ sofia' = [sofia EXCEPT ![x] = TrackEvent(rest, e)]
      /\ GroupRests /\ made' = made
  BY <1>3 DEF HandleFsEvent, historyVars, GroupRests
<1>5. TrackEvent(rest, e) = [rest EXCEPT !.sip_recovery = Execute(@, e.sql)]
  BY <1>3 DEF TrackEvent
<1>6. /\ rest.sip_recovery = sofia[x].sip_recovery /\ rest.calls = sofia[x].calls
      /\ rest.events = Tail(sofia[x].events) /\ rest \in Sofias(made)
  BY <1>1, ToSetHeadTail DEF Sofias
<1> HIDE DEF rest, e
<1>7. /\ sofia'[x].sip_recovery = Execute(rest.sip_recovery, e.sql)
      /\ sofia'[x].calls = rest.calls /\ sofia'[x].events = rest.events
  <2>1. sofia'[x] = [rest EXCEPT !.sip_recovery = Execute(@, e.sql)]
    BY <1>1, <1>4, <1>5
  <2>2. QED
    BY <1>6, <2>1 DEF Sofias
<1>8. QED
  BY <1>1, <1>2, <1>3, <1>4, <1>6, <1>7 DEF Applies, e

AllRows(m, profile) ==
  [type |-> "recovery_send", profile |-> profile, sql |-> InsertMissing(sofia[m].sip_recovery)]

(* The master passes on a change of its table, or fires all its rows.      *)
Sends(m, e) ==
  /\ sofia[m].events # <<>> /\ e = Head(sofia[m].events) /\ e \in FsEventsOf(made)
  /\ \A n \in Nodes \ {m} : sofia'[n] = sofia[n]
  /\ sofia'[m].sip_recovery = sofia[m].sip_recovery /\ sofia'[m].calls = sofia[m].calls
  /\ \/ /\ e.type = "recovery_send" /\ sofia'[m].events = Tail(sofia[m].events)
        /\ \A n \in Nodes :
             inbox'[n] = IF e.profile \in Names(m) /\ n \in Joined
                           THEN inbox[n] \o <<Sql(m, e.profile, e.sql)>> ELSE inbox[n]
        /\ Sql(m, e.profile, e.sql) \in GroupEventsOf(made)
     \/ /\ e.type = "request_all" /\ inbox' = inbox
        /\ IF sofia[m].sip_recovery = {} THEN sofia'[m].events = Tail(sofia[m].events)
           ELSE sofia'[m].events = Tail(sofia[m].events) \o <<AllRows(m, e.profile)>>
        /\ AllRows(m, e.profile) \in FsEventsOf(made)
  /\ GroupRests /\ made' = made

(* It has no events of others.                                             *)
LEMMA SendsShape ==
  ASSUME NEW m \in Nodes, ReignInv(m), HandleFsEvent(m)
  PROVE  Sends(m, Head(sofia[m].events))
<1> DEFINE e == Head(sofia[m].events)
           rest == [sofia[m] EXCEPT !.events = Tail(@)]
           all == AllRows(m, e.profile)
<1>1. /\ SoundTypes /\ sofia \in [Nodes -> Sofias(made)] /\ sofia[m] \in Sofias(made)
      /\ sofia[m].events \in Seq(FsEventsOf(made)) /\ sofia[m].events # <<>>
  BY NodeTypes DEF ReignInv, HandleFsEvent
<1>2. e \in FsEventsOf(made) /\ e \in ToSet(sofia[m].events)
      /\ Tail(sofia[m].events) \in Seq(FsEventsOf(made))
  BY <1>1, ToSetHeadTail
<1>3. e.type # "recovery_recv"
  BY <1>2 DEF ReignInv, Holdings
<1>4. e.type \in {"recovery_send", "request_all"} /\ e.profile \in SipProfiles
  BY <1>2, <1>3 DEF FsEventsOf
<1>5. GroupRests /\ made' = made
  BY DEF HandleFsEvent, historyVars, GroupRests
<1>6. /\ rest.sip_recovery = sofia[m].sip_recovery /\ rest.calls = sofia[m].calls
      /\ rest.events = Tail(sofia[m].events) /\ rest \in Sofias(made)
  BY <1>1, <1>2 DEF Sofias
<1>7. m \in Joined
  <2>1. vip[m].state \in Active /\ NodeInv(m)
    BY DEF ReignInv, Serving, ViewInv, CallsInv
  <2>2. QED
    BY <2>1 DEF NodeInv, Joined, Active
<1>8. ASSUME e.type = "recovery_send" PROVE Sends(m, e)
  <2>1. event_handler(m, e) /\ sofia' = [sofia EXCEPT ![m] = rest]
    BY <1>8 DEF HandleFsEvent
  <2>2. sofia'[m] = rest /\ \A n \in Nodes \ {m} : sofia'[n] = sofia[n]
    BY <1>1, <2>1
  <2>3. Sql(m, e.profile, e.sql) \in GroupEventsOf(made)
    BY <1>2, <1>8 DEF FsEventsOf, GroupEventsOf, Sql
  <2> DEFINE msg == Sql(m, e.profile, e.sql)
  <2> HIDE DEF rest
  <2>4. \A n \in Nodes : inbox'[n] = IF e.profile \in Names(m) /\ n \in Joined
                                        THEN inbox[n] \o <<msg>> ELSE inbox[n]
    <3>1. CASE e.profile \in Names(m)
      <4>1. inbox' = Multicast(inbox, Joined, <<msg>>)
        BY <1>7, <2>1, <3>1 DEF event_handler
      <4> HIDE DEF msg
      <4>2. QED
        BY <3>1, <4>1 DEF Multicast
    <3>2. CASE e.profile \notin Names(m)
      BY <2>1, <3>2 DEF event_handler
    <3>3. QED
      BY <3>1, <3>2
  <2>5. QED
    BY <1>1, <1>2, <1>5, <1>6, <1>8, <2>2, <2>3, <2>4 DEF Sends
<1>9. ASSUME e.type = "request_all" PROVE Sends(m, e)
  <2>1. /\ inbox' = inbox /\ sofia' = [sofia EXCEPT ![m] = TrackEvent(rest, e)]
    BY <1>9 DEF HandleFsEvent
  <2>2. sofia'[m] = TrackEvent(rest, e) /\ \A n \in Nodes \ {m} : sofia'[n] = sofia[n]
    BY <1>1, <2>1
  <2>3. all \in FsEventsOf(made)
    <3>1. sofia[m].sip_recovery \in SUBSET RowsOf(made)
      BY <1>1 DEF Sofias
    <3>2. InsertMissing(sofia[m].sip_recovery) \in StatementsOf(made)
      BY <3>1, StatementTypes
    <3>3. QED
      BY <1>4, <3>2 DEF AllRows, FsEventsOf
  <2>4. TrackEvent(rest, e) = IF rest.sip_recovery = {} THEN rest ELSE Fire(rest, all)
    BY <1>6, <1>9 DEF TrackEvent, AllRows
  <2> HIDE DEF rest, all
  <2>5. /\ sofia'[m].sip_recovery = rest.sip_recovery /\ sofia'[m].calls = rest.calls
        /\ IF rest.sip_recovery = {} THEN sofia'[m].events = rest.events
           ELSE sofia'[m].events = rest.events \o <<all>>
    <3>1. rest \in Sofias(made) /\ all \in FsEventsOf(made)
      BY <1>6, <2>3
    <3>2. Fire(rest, all).sip_recovery = rest.sip_recovery /\ Fire(rest, all).calls = rest.calls
      BY <3>1, Fired
    <3>3. Fire(rest, all).events = rest.events \o <<all>>
      BY <3>1, Fired
    <3>4. CASE rest.sip_recovery = {}
      BY <2>2, <2>4, <3>4
    <3>5. CASE rest.sip_recovery # {}
      BY <2>2, <2>4, <3>2, <3>3, <3>5
    <3>6. QED
      BY <3>4, <3>5
  <2>6. QED
    BY <1>1, <1>2, <1>5, <1>6, <1>9, <2>1, <2>2, <2>3, <2>5 DEF Sends, all
<1>10. QED
  BY <1>4, <1>8, <1>9

(* The event of a change of the master's own table.                        *)
Change(m, c, sql) == [type |-> "recovery_send", profile |-> ProfileOf[c], sql |-> sql]

(* A call is made to the master, ...                                       *)
Begins(m, c) ==
  /\ c \in Calls /\ c \notin made /\ made' = made \cup {c}
  /\ \A n \in Nodes \ {m} : sofia'[n] = sofia[n]
  /\ sofia'[m].sip_recovery = sofia[m].sip_recovery \cup {Row(c, uuid(m))}
  /\ sofia'[m].calls = sofia[m].calls \cup {c}
  /\ Change(m, c, Insert({Row(c, uuid(m))})) \in FsEventsOf(made \cup {c})
  /\ sofia'[m].events = sofia[m].events \o <<Change(m, c, Insert({Row(c, uuid(m))}))>>
  /\ inbox' = inbox /\ GroupRests

(* ... or one of its calls is hung up.                                     *)
Ends(m, c) ==
  /\ c \in sofia[m].calls /\ made' = made
  /\ \A n \in Nodes \ {m} : sofia'[n] = sofia[n]
  /\ sofia'[m].sip_recovery = sofia[m].sip_recovery \ {Row(c, uuid(m))}
  /\ sofia'[m].calls = sofia[m].calls \ {c}
  /\ Change(m, c, Delete({Row(c, uuid(m))})) \in FsEventsOf(made)
  /\ sofia'[m].events = sofia[m].events \o <<Change(m, c, Delete({Row(c, uuid(m))}))>>
  /\ inbox' = inbox /\ GroupRests

(* Only the master takes calls.                                            *)
LEMMA BeginShape ==
  ASSUME NEW m \in Nodes, ReignInv(m), NEW x \in Nodes, CallBegins(x)
  PROVE  \E c \in Calls : Begins(m, c)
<1>1. x = m
  <2>1. vip[x].state \in Active
    BY DEF CallBegins
  <2>2. QED
    BY <2>1 DEF ReignInv, Reigns, Unrivalled, Subject
<1>2. PICK c \in Calls \ made :
        /\ made' = made \cup {c}
        /\ sofia' = [sofia EXCEPT ![m] = Track(@, uuid(m), {c}, ProfileOf[c])]
  BY <1>1 DEF CallBegins
<1>3. GroupRests /\ inbox' = inbox
  BY DEF CallBegins, GroupRests, groupVars
<1> DEFINE u == uuid(m)
           C == made \cup {c}
           event == Change(m, c, Insert({Row(c, u)}))
           begun == [sofia[m] EXCEPT !.calls = @ \cup {c}, !.sip_recovery = @ \cup {Row(c, u)}]
<1>4. /\ sofia \in [Nodes -> Sofias(made)] /\ sofia[m] \in Sofias(made) /\ u \in Uuids
      /\ sofia[m].events \in Seq(FsEventsOf(made))
  BY NodeTypes DEF ReignInv
<1>5. Row(c, u) \in RowsOf(C) /\ RowsOf(made) \subseteq RowsOf(C)
  BY <1>4 DEF Row, RowsOf
<1>6. ProfileOf[c] \in SipProfiles
  BY ScenariosAssumption
<1>7. event \in FsEventsOf(C)
  <2>1. {Row(c, u)} \in SUBSET RowsOf(C)
    BY <1>5
  <2>2. Insert({Row(c, u)}) \in StatementsOf(C)
    BY <2>1, StatementTypes
  <2>3. QED
    BY <1>6, <2>2 DEF Change, FsEventsOf
<1>8. begun \in Sofias(C)
  <2>1. StatementsOf(made) \subseteq StatementsOf(C)
    BY <1>5 DEF StatementsOf
  <2>2. FsEventsOf(made) \subseteq FsEventsOf(C)
    BY <2>1 DEF FsEventsOf
  <2>3. sofia[m].events \in Seq(FsEventsOf(C))
    BY <1>4, <2>2, LargerSeq
  <2>4. QED
    BY <1>4, <1>5, <2>3 DEF Sofias
<1>9. /\ begun.calls = sofia[m].calls \cup {c} /\ begun.events = sofia[m].events
      /\ begun.sip_recovery = sofia[m].sip_recovery \cup {Row(c, u)}
  BY <1>4 DEF Sofias
<1>10. Track(sofia[m], u, {c}, ProfileOf[c]) = Fire(begun, event)
  <2>1. {Row(d, u) : d \in {c}} = {Row(c, u)}
    OBVIOUS
  <2>2. QED
    BY <2>1 DEF Track, Change
<1>11. /\ sofia'[m] = Fire(begun, event)
       /\ \A n \in Nodes \ {m} : sofia'[n] = sofia[n]
  BY <1>2, <1>4, <1>10
<1> HIDE DEF begun, event, C
<1>12. /\ Fire(begun, event).calls = begun.calls
       /\ Fire(begun, event).sip_recovery = begun.sip_recovery
       /\ Fire(begun, event).events = begun.events \o <<event>>
  <2>1. Fire(begun, event).events = begun.events \o <<event>>
    BY <1>7, <1>8, Fired
  <2>2. QED
    BY <1>7, <1>8, <2>1, Fired
<1>13. QED
  BY <1>2, <1>3, <1>7, <1>9, <1>11, <1>12 DEF Begins, event, C

(* Only it has calls to end.                                               *)
LEMMA EndShape ==
  ASSUME NEW m \in Nodes, ReignInv(m), NEW x \in Nodes, CallEnds(x)
  PROVE  \E c \in Calls : Ends(m, c)
<1>1. x = m
  BY DEF CallEnds, ReignInv, Holdings
<1>2. PICK c \in sofia[m].calls :
        sofia' = [sofia EXCEPT ![m] = Untrack(@, uuid(m), {c}, ProfileOf[c])]
  BY <1>1 DEF CallEnds
<1>3. GroupRests /\ inbox' = inbox /\ made' = made
  BY DEF CallEnds, GroupRests, groupVars
<1> DEFINE u == uuid(m)
           event == Change(m, c, Delete({Row(c, u)}))
           ended == [sofia[m] EXCEPT !.calls = @ \ {c}, !.sip_recovery = @ \ {Row(c, u)}]
<1>4. /\ sofia \in [Nodes -> Sofias(made)] /\ sofia[m] \in Sofias(made) /\ u \in Uuids
      /\ made \subseteq Calls
  BY NodeTypes DEF ReignInv, SoundTypes
<1>5. c \in made /\ Row(c, u) \in RowsOf(made)
  BY <1>4 DEF Row, RowsOf, Sofias
<1>6. ProfileOf[c] \in SipProfiles
  BY <1>4, <1>5, ScenariosAssumption
<1>7. event \in FsEventsOf(made)
  <2>1. {Row(c, u)} \in SUBSET RowsOf(made)
    BY <1>5
  <2>2. Delete({Row(c, u)}) \in StatementsOf(made)
    BY <2>1, StatementTypes
  <2>3. QED
    BY <1>6, <2>2 DEF Change, FsEventsOf
<1>8. ended \in Sofias(made)
  BY <1>4 DEF Sofias
<1>9. /\ ended.calls = sofia[m].calls \ {c} /\ ended.events = sofia[m].events
      /\ ended.sip_recovery = sofia[m].sip_recovery \ {Row(c, u)}
  BY <1>4 DEF Sofias
<1>10. Untrack(sofia[m], u, {c}, ProfileOf[c]) = Fire(ended, event)
  <2>1. {Row(d, u) : d \in {c}} = {Row(c, u)}
    OBVIOUS
  <2>2. QED
    BY <2>1 DEF Untrack, Change
<1>11. /\ sofia'[m] = Fire(ended, event)
       /\ \A n \in Nodes \ {m} : sofia'[n] = sofia[n]
  BY <1>2, <1>4, <1>10
<1> HIDE DEF ended, event
<1>12. /\ Fire(ended, event).calls = ended.calls
       /\ Fire(ended, event).sip_recovery = ended.sip_recovery
       /\ Fire(ended, event).events = ended.events \o <<event>>
  <2>1. Fire(ended, event).events = ended.events \o <<event>>
    BY <1>7, <1>8, Fired
  <2>2. QED
    BY <1>7, <1>8, <2>1, Fired
<1>13. QED
  BY <1>2, <1>3, <1>4, <1>5, <1>7, <1>9, <1>11, <1>12 DEF Ends, event

-----------------------------------------------------------------------------
(* The reign is kept *)

(* What any step is, while m serves.                                       *)
LEMMA ReignSteps ==
  ASSUME NEW m \in Nodes, ReignInv(m), (m \in Serving)', [Next]_vars
  PROVE  \/ GroupStep(m)
         \/ \E x \in Nodes : Delivers(m, x, Head(inbox[x]))
         \/ \E x \in Nodes \ {m} : Applies(x, Head(sofia[x].events))
         \/ Sends(m, Head(sofia[m].events))
         \/ \E c \in Calls : Begins(m, c) \/ Ends(m, c)
<1>1. \A n \in Nodes \ {m} : sofia[n].calls = {}
  BY DEF ReignInv, Holdings
<1>2. CASE UNCHANGED vars
  <2>1. /\ vip' = vip /\ inbox' = inbox /\ sofia' = sofia /\ profiles' = profiles
        /\ launch' = launch /\ made' = made
    BY <1>2 DEF vars, groupVars, historyVars
  <2>2. \A n \in Nodes \ {m} : Subject(m, n)' /\ (Follows(n)' => Follows(n))
    BY <2>1 DEF ReignInv, Reigns, Unrivalled, Subject, Follows
  <2>3. GroupStep(m)
    BY <2>1, <2>2, QuietStep DEF ReignInv
  <2>4. QED
    BY <2>3
<1>3. ASSUME NEW x \in Nodes,
             \/ HandleEvent(x) \/ LeaveGroup(x) \/ Stop(x) \/ StopReturns(x)
             \/ Crash(x) \/ Start(x) \/ Load(x)
      PROVE  GroupStep(m)
  BY <1>1, <1>3, GroupSteps DEF ReignInv
<1>4. ASSUME NEW x \in Nodes, HandleFsEvent(x)
      PROVE  \/ \E y \in Nodes \ {m} : Applies(y, Head(sofia[y].events))
             \/ Sends(m, Head(sofia[m].events))
  <2>1. CASE x = m
    BY <1>4, <2>1, SendsShape
  <2>2. CASE x # m
    BY <1>4, <2>2, ApplyShape
  <2>3. QED
    BY <2>1, <2>2
<1>5. ASSUME NEW x \in Nodes, DeliverSql(x)
      PROVE  Delivers(m, x, Head(inbox[x]))
  BY <1>5, DeliverShape
<1>6. ASSUME NEW x \in Nodes, CallBegins(x) \/ CallEnds(x)
      PROVE  \E c \in Calls : Begins(m, c) \/ Ends(m, c)
  BY <1>6, BeginShape, EndShape
<1>7. QED
  BY <1>2, <1>3, <1>4, <1>5, <1>6 DEF Next

(* What is heard was in the inbox, or is harmless.                         *)
LEMMA HeardNews ==
  ASSUME SoundTypes, NEW m, NEW n \in Nodes, Hears(m, n), NEW e \in ToSet(inbox'[n])
  PROVE  e \in ToSet(inbox[n]) \/ Harmless(m, e)
<1> DEFINE S == GroupEventsOf(made)
<1>1. inbox[n] \in Seq(S)
  BY DEF SoundTypes
<1>2. PICK box : /\ \/ box = inbox[n]
                    \/ inbox[n] # <<>> /\ ~Carries(Head(inbox[n])) /\ box = Tail(inbox[n])
                 /\ \/ inbox'[n] = box
                    \/ \E new \in S : Harmless(m, new) /\ inbox'[n] = box \o <<new>>
  BY DEF Hears
<1>3. box \in Seq(S) /\ ToSet(box) \subseteq ToSet(inbox[n])
  BY <1>1, <1>2, ToSetHeadTail
<1>4. ASSUME NEW new \in S, Harmless(m, new), inbox'[n] = box \o <<new>>
      PROVE  e \in ToSet(inbox[n]) \/ Harmless(m, e)
  BY <1>3, <1>4, ToSetAppended
<1>5. QED
  BY <1>2, <1>3, <1>4

(* An event that comes behind a statement delivered, or sent by m.         *)
LEMMA DataNews ==
  ASSUME NEW m \in Nodes, ReignInv(m), NEW n \in Nodes, NEW e \in ToSet(inbox'[n]),
         \/ \E x \in Nodes : Delivers(m, x, Head(inbox[x]))
         \/ \E x \in Nodes \ {m} : Applies(x, Head(sofia[x].events))
         \/ Sends(m, Head(sofia[m].events))
         \/ \E c \in Calls : Begins(m, c) \/ Ends(m, c)
  PROVE  \/ e \in ToSet(inbox[n])
         \/ \E d \in ToSet(sofia[m].events) : d.type = "recovery_send"
                                              /\ e = Sql(m, d.profile, d.sql)
<1> DEFINE S == GroupEventsOf(made)
<1>1. inbox[n] \in Seq(S) /\ sofia[m].events \in Seq(FsEventsOf(made))
  BY NodeTypes DEF ReignInv
<1>2. CASE \E x \in Nodes : Delivers(m, x, Head(inbox[x]))
  <2>1. PICK x \in Nodes : Delivers(m, x, Head(inbox[x]))
    BY <1>2
  <2>2. inbox'[n] = inbox[n] \/ (inbox[n] # <<>> /\ inbox'[n] = Tail(inbox[n]))
    BY <2>1 DEF Delivers
  <2>3. QED
    BY <1>1, <2>2, ToSetHeadTail
<1>3. CASE Sends(m, Head(sofia[m].events))
  <2> DEFINE d == Head(sofia[m].events)
             msg == Sql(m, d.profile, d.sql)
  <2>1. \/ inbox'[n] = inbox[n]
        \/ inbox'[n] = inbox[n] \o <<msg>> /\ d.type = "recovery_send" /\ msg \in S
    BY <1>3 DEF Sends
  <2>2. sofia[m].events # <<>>
    BY <1>3 DEF Sends
  <2>3. d \in ToSet(sofia[m].events)
    BY <1>1, <2>2, ToSetHeadTail
  <2> HIDE DEF d, msg
  <2>4. e \in ToSet(inbox[n]) \/ (e = msg /\ d.type = "recovery_send")
    <3>1. CASE inbox'[n] = inbox[n]
      BY <3>1
    <3>2. ASSUME inbox'[n] = inbox[n] \o <<msg>>, msg \in S, d.type = "recovery_send"
          PROVE  e \in ToSet(inbox[n]) \/ e = msg
      <4>1. ToSet(inbox[n] \o <<msg>>) = ToSet(inbox[n]) \cup {msg}
        BY <1>1, <3>2, ToSetAppended
      <4>2. QED
        BY <3>2, <4>1
    <3>3. QED
      BY <2>1, <3>1, <3>2
  <2>5. QED
    BY <2>3, <2>4 DEF msg
<1>4. CASE inbox' = inbox
  BY <1>4
<1>5. QED
  BY <1>2, <1>3, <1>4 DEF Applies, Begins, Ends

(* No rival comes up while m serves.                                       *)
LEMMA ReignsKept ==
  ASSUME NEW m \in Nodes, ReignInv(m), (m \in Serving)', CallsInv', [Next]_vars
  PROVE  Reigns(m)'
<1>1. SoundTypes
  BY DEF ReignInv, ViewInv, CallsInv, TypeInv
<1>2. m \in Joined'
  <2>1. vip'[m].state \in Active
    BY DEF Serving
  <2>2. QED
    BY <2>1 DEF CallsInv, NodeInv, Joined, Active
<1>3. ASSUME NEW n \in Nodes \ {m}, Follows(n)' PROVE ~ViewLacks(vip'[n], inbox'[n], m)
  <2>1. ViewsKept
    BY StepViews DEF ReignInv
  <2>2. QED
    BY <1>2, <1>3, <2>1 DEF ViewsKept, ReignInv, Reigns, Unrivalled
<1>4. CASE GroupStep(m)
  <2>1. ASSUME NEW n \in Nodes, NEW e \in ToSet(inbox'[n])
        PROVE  e.type = "state" /\ e.state \in Active => e.nodeid = m
    <3>1. CASE Hears(m, n)
      BY <1>1, <2>1, <3>1, HeardNews DEF Harmless, ReignInv, Reigns, Unrivalled
    <3>2. CASE inbox'[n] = <<>>
      BY <2>1, <3>2 DEF ToSet
    <3>3. QED
      BY <1>4, <3>1, <3>2 DEF GroupStep
  <2>2. vip'[m].node_id = m /\ \A n \in Nodes \ {m} : Subject(m, n)'
    BY <1>4 DEF GroupStep
  <2>3. QED
    BY <1>3, <2>1, <2>2 DEF Reigns, Unrivalled
<1>5. CASE \/ \E x \in Nodes : Delivers(m, x, Head(inbox[x]))
           \/ \E x \in Nodes \ {m} : Applies(x, Head(sofia[x].events))
           \/ Sends(m, Head(sofia[m].events))
           \/ \E c \in Calls : Begins(m, c) \/ Ends(m, c)
  <2>1. vip' = vip
    BY <1>5 DEF Delivers, Applies, Sends, Begins, Ends, GroupRests
  <2>2. ASSUME NEW n \in Nodes, NEW e \in ToSet(inbox'[n])
        PROVE  e.type = "state" /\ e.state \in Active => e.nodeid = m
    BY <1>5, <2>2, DataNews DEF ReignInv, Reigns, Unrivalled, Sql
  <2>3. vip'[m].node_id = m /\ \A n \in Nodes \ {m} : Subject(m, n)'
    BY <2>1 DEF ReignInv, Reigns, Unrivalled, Subject
  <2>4. QED
    BY <1>3, <2>2, <2>3 DEF Reigns, Unrivalled
<1>6. QED
  BY <1>4, <1>5, ReignSteps

(* All rows and statements stay those of m.                                *)
LEMMA HoldingsKeptByData ==
  ASSUME NEW m \in Nodes, ReignInv(m),
         \/ \E x \in Nodes : Delivers(m, x, Head(inbox[x]))
         \/ \E x \in Nodes \ {m} : Applies(x, Head(sofia[x].events))
         \/ Sends(m, Head(sofia[m].events))
         \/ \E c \in Calls : Begins(m, c) \/ Ends(m, c)
  PROVE  Holdings(m)'
<1> DEFINE F == FsEventsOf(made)
           u == uuid(m)
<1>1. /\ SoundTypes /\ Holdings(m)
      /\ \A n \in Nodes : sofia[n].events \in Seq(F) /\ inbox[n] \in Seq(GroupEventsOf(made))
      /\ sofia[m].calls \subseteq made
  BY NodeTypes DEF ReignInv, Sofias
<1>2. launch'[m] = launch[m] /\ u' = u
  BY DEF Delivers, Applies, Sends, Begins, Ends, GroupRests, uuid
<1>3. \A c \in sofia'[m].calls : c \in sofia[m].calls \/ c \notin made
  BY DEF Delivers, Applies, Sends, Begins, Ends
<1>4. \A c, d : Row(c, u) = Row(d, u) => c = d
  BY DEF Row
<1>5. sofia'[m].sip_recovery = {Row(c, u) : c \in sofia'[m].calls}
  <2>1. sofia[m].sip_recovery = {Row(c, u) : c \in sofia[m].calls}
    BY <1>1 DEF Holdings
  <2>2. CASE sofia'[m].sip_recovery = sofia[m].sip_recovery /\ sofia'[m].calls = sofia[m].calls
    BY <2>1, <2>2
  <2>3. ASSUME NEW c \in Calls, Begins(m, c)
        PROVE  sofia'[m].sip_recovery = {Row(d, u) : d \in sofia'[m].calls}
    BY <2>1, <2>3 DEF Begins
  <2>4. ASSUME NEW c \in Calls, Ends(m, c)
        PROVE  sofia'[m].sip_recovery = {Row(d, u) : d \in sofia'[m].calls}
    BY <1>4, <2>1, <2>4 DEF Ends
  <2>5. QED
    BY <2>2, <2>3, <2>4 DEF Delivers, Applies, Sends
<1>6. ASSUME NEW e \in F \cup GroupEventsOf(made), Mine(m, e) PROVE Mine(m, e)'
  BY <1>2, <1>3, <1>6, MineKept
<1>7. ASSUME NEW n \in Nodes, NEW e \in ToSet(inbox'[n])
      PROVE  e \in ToSet(inbox[n]) \/ (Mine(m, e)' /\ (e.type = "sql" => e.nodeid = m))
  <2>1. ASSUME NEW d \in ToSet(sofia[m].events), d.type = "recovery_send",
               e = Sql(m, d.profile, d.sql)
        PROVE  Mine(m, e)' /\ (e.type = "sql" => e.nodeid = m)
    <3>1. d \in F
      BY <1>1, <2>1, ElementOfSeq, LenProperties DEF ToSet
    <3>2. Mine(m, d)'
      BY <1>1, <1>6, <2>1, <3>1 DEF Holdings
    <3>3. e.type = "sql" /\ e.nodeid = m /\ e.profile = d.profile /\ e.sql = d.sql
      BY <2>1 DEF Sql
    <3>4. QED
      BY <2>1, <3>2, <3>3 DEF Mine, Carries
  <2>2. QED
    BY <1>7, <2>1, DataNews
<1>8. ASSUME NEW n \in Nodes, NEW e \in ToSet(sofia'[n].events)
      PROVE  \/ e \in ToSet(sofia[n].events)
             \/ Mine(m, e)' /\ (e.type = "recovery_recv" <=> n # m)
  <2>1. CASE \/ sofia'[n].events = sofia[n].events
             \/ sofia[n].events # <<>> /\ sofia'[n].events = Tail(sofia[n].events)
    BY <1>1, <1>8, <2>1, ToSetHeadTail
  <2>2. ASSUME NEW x \in Nodes, Delivers(m, x, Head(inbox[x])), n = x, n # m,
               sofia'[n].events = sofia[n].events \o <<RecvOf(Head(inbox[x]))>>,
               RecvOf(Head(inbox[x])) \in F
        PROVE  e \in ToSet(sofia[n].events) \/ (Mine(m, e)' /\ e.type = "recovery_recv")
    <3> DEFINE d == Head(inbox[x])
               new == RecvOf(d)
    <3>1. d \in ToSet(inbox[x]) /\ d.type = "sql"
      BY <1>1, <2>2, ToSetHeadTail DEF Delivers
    <3>2. Mine(m, d)
      BY <1>1, <3>1 DEF Holdings
    <3>3. Mine(m, new) /\ new.type = "recovery_recv"
      BY <3>1, <3>2 DEF Mine, Carries, RecvOf
    <3>4. e \in ToSet(sofia[n].events) \/ e = new
      <4>1. new \in F /\ sofia[n].events \in Seq(F) /\ sofia'[n].events = sofia[n].events \o <<new>>
        BY <1>1, <2>2
      <4> HIDE DEF new
      <4>2. QED
        BY <1>8, <4>1, ToSetAppended
    <3>5. QED
      BY <1>6, <2>2, <3>3, <3>4
  <2>3. ASSUME n = m, NEW new \in FsEventsOf(made'), new.type = "recovery_send", Mine(m, new)',
               \/ sofia'[n].events = sofia[n].events \o <<new>>
               \/ sofia[n].events # <<>> /\ sofia'[n].events = Tail(sofia[n].events) \o <<new>>,
               made \subseteq made'
        PROVE  e \in ToSet(sofia[n].events) \/ (Mine(m, e)' /\ e.type # "recovery_recv")
    <3> DEFINE G == FsEventsOf(made')
    <3>1. F \subseteq G
      BY <2>3 DEF FsEventsOf, StatementsOf, RowsOf
    <3>2. /\ sofia[n].events \in Seq(G)
          /\ sofia[n].events # <<>> => Tail(sofia[n].events) \in Seq(G)
          /\ sofia[n].events # <<>> => ToSet(Tail(sofia[n].events)) \subseteq ToSet(sofia[n].events)
      BY <1>1, <3>1, LargerSeq, ToSetHeadTail
    <3>3. PICK box \in Seq(G) : ToSet(box) \subseteq ToSet(sofia[n].events)
                               /\ sofia'[n].events = box \o <<new>>
      BY <2>3, <3>2
    <3>4. new \in G
      BY <2>3
    <3> HIDE DEF G
    <3>5. e \in ToSet(sofia[n].events) \/ e = new
      BY <1>8, <3>3, <3>4, ToSetAppended
    <3>6. QED
      BY <2>3, <3>5
  <2>4. ASSUME NEW c \in Calls, Begins(m, c), n = m
        PROVE  e \in ToSet(sofia[n].events) \/ (Mine(m, e)' /\ e.type # "recovery_recv")
    <3> PICK new : new = Change(m, c, Insert({Row(c, u)}))
      OBVIOUS
    <3>1. /\ new \in FsEventsOf(made') /\ made \subseteq made'
          /\ sofia'[n].events = sofia[n].events \o <<new>>
      BY <2>4 DEF Begins
    <3>2. new.type = "recovery_send" /\ Mine(m, new)'
      BY <1>2 DEF Change, Mine, Insert, Row, Carries
    <3>3. QED
      BY <2>3, <2>4, <3>1, <3>2
  <2>5. ASSUME NEW c \in Calls, Ends(m, c), n = m
        PROVE  e \in ToSet(sofia[n].events) \/ (Mine(m, e)' /\ e.type # "recovery_recv")
    <3> PICK new : new = Change(m, c, Delete({Row(c, u)}))
      OBVIOUS
    <3>1. /\ new \in FsEventsOf(made') /\ made \subseteq made'
          /\ sofia'[n].events = sofia[n].events \o <<new>>
      BY <2>5 DEF Ends
    <3>2. new.type = "recovery_send" /\ Mine(m, new)'
      <4>1. c \notin sofia'[m].calls
        BY <2>5 DEF Ends
      <4>2. QED
        BY <1>2, <4>1 DEF Change, Mine, Delete, Row, Carries
    <3>3. QED
      BY <2>3, <2>5, <3>1, <3>2
  <2>6. ASSUME Sends(m, Head(sofia[m].events)), n = m,
               NEW d, d = Head(sofia[m].events),
               sofia'[m].events = Tail(sofia[m].events) \o <<AllRows(m, d.profile)>>,
               AllRows(m, d.profile) \in F
        PROVE  e \in ToSet(sofia[n].events) \/ (Mine(m, e)' /\ e.type # "recovery_recv")
    <3> PICK new : new = AllRows(m, d.profile)
      OBVIOUS
    <3>1. /\ new \in FsEventsOf(made') /\ made \subseteq made' /\ sofia[n].events # <<>>
          /\ sofia'[n].events = Tail(sofia[n].events) \o <<new>>
      BY <2>6 DEF Sends
    <3>2. \A r \in sofia[m].sip_recovery : r.runtime_uuid = u
      BY <1>1 DEF Holdings, Row
    <3>3. new.type = "recovery_send" /\ Mine(m, new)'
      BY <1>2, <3>2 DEF AllRows, Mine, InsertMissing, Carries
    <3>4. QED
      BY <2>3, <2>6, <3>1, <3>3
  <2>7. ASSUME Sends(m, Head(sofia[m].events)), n = m
        PROVE  e \in ToSet(sofia[n].events) \/ (Mine(m, e)' /\ e.type # "recovery_recv")
    BY <2>1, <2>6, <2>7 DEF Sends
  <2>8. CASE n = m
    BY <2>1, <2>4, <2>5, <2>7, <2>8 DEF Delivers, Applies
  <2>9. CASE n # m
    BY <2>1, <2>2, <2>9 DEF Delivers, Applies, Sends, Begins, Ends
  <2>10. QED
    BY <2>8, <2>9
<1>9. ASSUME NEW n \in Nodes \ {m}
      PROVE  /\ sofia'[n].calls = {}
             /\ \A r \in sofia'[n].sip_recovery : r \in sofia[n].sip_recovery \/ r.runtime_uuid = u
  <2>1. CASE sofia'[n].calls = sofia[n].calls /\ sofia'[n].sip_recovery = sofia[n].sip_recovery
    BY <1>1, <2>1 DEF Holdings
  <2>2. ASSUME Applies(n, Head(sofia[n].events))
        PROVE  /\ sofia'[n].calls = {}
               /\ \A r \in sofia'[n].sip_recovery :
                    r \in sofia[n].sip_recovery \/ r.runtime_uuid = u
    <3> DEFINE e == Head(sofia[n].events)
    <3>1. e \in ToSet(sofia[n].events) /\ e.type = "recovery_recv"
      BY <1>1, <2>2, ToSetHeadTail DEF Applies
    <3>2. Mine(m, e)
      BY <1>1, <3>1 DEF Holdings
    <3>3. /\ e.sql.op \in {"insert", "insert_missing", "delete"}
          /\ \A r \in e.sql.rows : r.runtime_uuid = u
      BY <3>1, <3>2 DEF Mine, Carries
    <3>4. sofia'[n].sip_recovery = Execute(sofia[n].sip_recovery, e.sql) /\ sofia'[n].calls = {}
      BY <1>1, <2>2 DEF Applies, Holdings
    <3> HIDE DEF e
    <3>5. \A r \in Execute(sofia[n].sip_recovery, e.sql) :
            r \in sofia[n].sip_recovery \/ r \in e.sql.rows
      BY <3>3 DEF Execute
    <3>6. QED
      BY <3>3, <3>4, <3>5
  <2>3. QED
    BY <2>1, <2>2 DEF Delivers, Applies, Sends, Begins, Ends
<1> HIDE DEF u
<1>10. QED
  BY <1>1, <1>2, <1>3, <1>5, <1>7, <1>8, <1>9, HoldingsKept DEF u

(* The events of the group move none.                                      *)
LEMMA HoldingsKeptByGroup ==
  ASSUME NEW m \in Nodes, ReignInv(m), GroupStep(m)
  PROVE  Holdings(m)'
<1>1. SoundTypes /\ Holdings(m) /\ sofia[m] \in Sofias(made)
  BY NodeTypes DEF ReignInv
<1>2. /\ sofia'[m].sip_recovery = sofia[m].sip_recovery /\ sofia'[m].calls = sofia[m].calls
      /\ \/ sofia'[m].events = sofia[m].events
         \/ ToSet(sofia'[m].events) = ToSet(sofia[m].events)
                                      \cup {Request(name) : name \in Names(m)}
  <2>1. sofia'[m] = sofia[m] \/ sofia'[m] = virtual_ip_send_all_sql(m, sofia[m])
    BY DEF GroupStep
  <2>2. CASE sofia'[m] = sofia[m]
    BY <2>2
  <2>3. CASE sofia'[m] = virtual_ip_send_all_sql(m, sofia[m])
    BY <1>1, <2>3, RequestsSent
  <2>4. QED
    BY <2>1, <2>2, <2>3
<1>3. ASSUME NEW n \in Nodes, NEW e \in ToSet(inbox'[n])
      PROVE  e \in ToSet(inbox[n]) \/ (Mine(m, e)' /\ (e.type = "sql" => e.nodeid = m))
  <2>1. CASE Hears(m, n)
    BY <1>1, <1>3, <2>1, HeardNews DEF Harmless, Mine, Carries
  <2>2. CASE inbox'[n] = <<>>
    BY <1>3, <2>2 DEF ToSet
  <2>3. QED
    BY <2>1, <2>2 DEF GroupStep
<1>4. ASSUME NEW n \in Nodes, NEW e \in ToSet(sofia'[n].events)
      PROVE  \/ e \in ToSet(sofia[n].events)
             \/ Mine(m, e)' /\ (e.type = "recovery_recv" <=> n # m)
  <2>1. CASE n = m
    BY <1>2, <1>4, <2>1 DEF Request, Mine, Carries
  <2>2. CASE n # m
    <3>1. sofia'[n].events = sofia[n].events \/ sofia'[n].events = <<>>
      BY <2>2 DEF GroupStep
    <3>2. QED
      BY <1>4, <3>1 DEF ToSet
  <2>3. QED
    BY <2>1, <2>2
<1>5. \A n \in Nodes \ {m} : sofia'[n].calls = {} /\ sofia'[n].sip_recovery = sofia[n].sip_recovery
  BY <1>1 DEF GroupStep, Holdings
<1>6. launch'[m] = launch[m]
  BY DEF GroupStep
<1>7. sofia'[m].sip_recovery = {Row(c, uuid(m)) : c \in sofia'[m].calls}
  BY <1>1, <1>2 DEF Holdings
<1>8. QED
  BY <1>1, <1>2, <1>3, <1>4, <1>5, <1>6, <1>7, HoldingsKept

(* The reign lasts as long as m serves.                                    *)
LEMMA ReignKept ==
  ASSUME NEW m \in Nodes, ReignInv(m), (m \in Serving)', ViewInv', [Next]_vars
  PROVE  ReignInv(m)'
<1>1. Reigns(m)'
  BY ReignsKept DEF ViewInv
<1>2. Holdings(m)'
  BY ReignSteps, HoldingsKeptByGroup, HoldingsKeptByData
<1>3. QED
  BY <1>1, <1>2 DEF ReignInv

-----------------------------------------------------------------------------
(* The rows of the calls come to those who follow *)

Brings(e, r) == Carries(e) /\ e.sql.op \in {"insert", "insert_missing"} /\ r \in e.sql.rows

(* The row r of the master m is in the table of b, or it is under way: in  *)
(* a statement that b will apply or hear, in an event of m that will send  *)
(* it, or m will be asked for all its rows.                                *)
Coming(m, b, r) ==
  \/ r \in sofia[b].sip_recovery
  \/ \E e \in ToSet(sofia[b].events) : Brings(e, r)
  \/ \E e \in ToSet(inbox[b]) : Brings(e, r) /\ e.profile \in Names(b)
  \/ \E e \in ToSet(sofia[m].events) : /\ e.type = "request_all" \/ Brings(e, r)
                                       /\ e.profile \in Names(m) \cap Names(b)
  \/ UpPending(inbox[m])

AllComing(m) ==
  \A b \in Nodes \ {m}, c \in sofia[m].calls :
    Follows(b) /\ ProfileOf[c] \in Names(m) \cap Names(b) => Coming(m, b, Row(c, uuid(m)))

(* A statement is not lost while the group goes on.                        *)
LEMMA StatementsWait ==
  ASSUME SoundTypes, NEW m, NEW n \in Nodes, Hears(m, n),
         NEW e \in ToSet(inbox[n]), Carries(e)
  PROVE  e \in ToSet(inbox'[n])
<1> DEFINE S == GroupEventsOf(made)
<1>1. inbox[n] \in Seq(S)
  BY DEF SoundTypes
<1>2. PICK box : /\ \/ box = inbox[n]
                    \/ inbox[n] # <<>> /\ ~Carries(Head(inbox[n])) /\ box = Tail(inbox[n])
                 /\ \/ inbox'[n] = box
                    \/ \E new \in S : Harmless(m, new) /\ inbox'[n] = box \o <<new>>
  BY DEF Hears
<1>3. box \in Seq(S) /\ e \in ToSet(box)
  <2>1. CASE box = inbox[n]
    BY <1>1, <2>1
  <2>2. CASE inbox[n] # <<>> /\ ~Carries(Head(inbox[n])) /\ box = Tail(inbox[n])
    <3>1. box \in Seq(S) /\ ToSet(inbox[n]) = {Head(inbox[n])} \cup ToSet(box)
      BY <1>1, <2>2, ToSetHeadTail
    <3>2. QED
      BY <2>2, <3>1
  <2>3. QED
    BY <1>2, <2>1, <2>2
<1>4. ASSUME NEW new \in S, inbox'[n] = box \o <<new>>
      PROVE  e \in ToSet(inbox'[n])
  <2>1. ToSet(box \o <<new>>) = ToSet(box) \cup {new}
    BY <1>3, ToSetAppended
  <2>2. QED
    BY <1>3, <1>4, <2>1
<1>5. QED
  BY <1>2, <1>3, <1>4

(* A node of those who follow goes on, or m will be asked for its rows.    *)
LEMMA ComingByGroup ==
  ASSUME NEW m \in Nodes, ReignInv(m), AllComing(m), GroupStep(m)
  PROVE  AllComing(m)'
<1> SUFFICES ASSUME NEW b \in Nodes \ {m}, NEW c \in sofia'[m].calls, Follows(b)',
                    ProfileOf[c] \in Names(m)' \cap Names(b)', ~UpPending(inbox'[m])
             PROVE  Coming(m, b, Row(c, uuid(m)))'
  BY DEF AllComing, Coming
<1>1. SoundTypes /\ sofia[m] \in Sofias(made)
  BY NodeTypes DEF ReignInv
<1>2. Follows(b) /\ Names(b)' = Names(b) /\ Names(m)' = Names(m) /\ uuid(m)' = uuid(m)
  BY DEF GroupStep, Names, uuid
<1>3. /\ sofia'[b] = sofia[b] /\ Hears(m, b)
      /\ \/ sofia'[m] = sofia[m] /\ (UpPending(inbox[m]) => UpPending(inbox'[m]))
         \/ sofia'[m] = virtual_ip_send_all_sql(m, sofia[m])
  BY DEF GroupStep
<1>4. /\ sofia'[m].calls = sofia[m].calls
      /\ ToSet(sofia[m].events) \subseteq ToSet(sofia'[m].events)
      /\ UpPending(inbox[m]) => \A name \in Names(m) : Request(name) \in ToSet(sofia'[m].events)
  <2>1. CASE sofia'[m] = sofia[m] /\ (UpPending(inbox[m]) => UpPending(inbox'[m]))
    BY <2>1
  <2>2. CASE sofia'[m] = virtual_ip_send_all_sql(m, sofia[m])
    <3>1. /\ sofia'[m].calls = sofia[m].calls
          /\ ToSet(sofia'[m].events) = ToSet(sofia[m].events) \cup {Request(k) : k \in Names(m)}
      BY <1>1, <2>2, RequestsSent
    <3>2. QED
      BY <3>1
  <2>3. QED
    BY <1>3, <2>1, <2>2
<1> DEFINE r == Row(c, uuid(m))
<1>5. Coming(m, b, r)
  BY <1>2, <1>4 DEF AllComing
<1> HIDE DEF r
<1>6. CASE r \in sofia[b].sip_recovery \/ \E e \in ToSet(sofia[b].events) : Brings(e, r)
  BY <1>2, <1>3, <1>6 DEF Coming, r
<1>7. ASSUME NEW e \in ToSet(inbox[b]), Brings(e, r), e.profile \in Names(b)
      PROVE  \E d \in ToSet(inbox'[b]) : Brings(d, r) /\ d.profile \in Names(b)'
  <2>1. e \in ToSet(inbox'[b])
    BY <1>1, <1>3, <1>7, StatementsWait DEF Brings
  <2>2. QED
    BY <1>2, <1>7, <2>1
<1>8. ASSUME NEW e \in ToSet(sofia[m].events), e.type = "request_all" \/ Brings(e, r),
             e.profile \in Names(m) \cap Names(b)
      PROVE  \E d \in ToSet(sofia'[m].events) : /\ d.type = "request_all" \/ Brings(d, r)
                                                /\ d.profile \in Names(m)' \cap Names(b)'
  BY <1>2, <1>4, <1>8
<1>9. ASSUME UpPending(inbox[m])
      PROVE  \E d \in ToSet(sofia'[m].events) : /\ d.type = "request_all" \/ Brings(d, r)
                                                /\ d.profile \in Names(m)' \cap Names(b)'
  <2>1. Request(ProfileOf[c]) \in ToSet(sofia'[m].events)
    BY <1>2, <1>4, <1>9
  <2>2. Request(ProfileOf[c]).type = "request_all" /\ Request(ProfileOf[c]).profile = ProfileOf[c]
    BY DEF Request
  <2>3. QED
    BY <2>1, <2>2
<1>10. QED
  BY <1>2, <1>5, <1>6, <1>7, <1>8, <1>9 DEF Coming, r

(* What a statement of m does to a row of a call in progress.              *)
LEMMA RowsStay ==
  ASSUME NEW m \in Nodes, ReignInv(m), NEW b \in Nodes \ {m}, NEW c \in sofia[m].calls,
         NEW e \in ToSet(sofia[b].events), Carries(e),
         \/ Row(c, uuid(m)) \in sofia[b].sip_recovery
         \/ Brings(e, Row(c, uuid(m)))
  PROVE  Row(c, uuid(m)) \in Execute(sofia[b].sip_recovery, e.sql)
<1> DEFINE r == Row(c, uuid(m))
           rows == sofia[b].sip_recovery
<1>1. rows \in SUBSET RowsOf(made) /\ r.uuid = c
  BY NodeTypes DEF ReignInv, Sofias, Row
<1>2. /\ e.sql.op \in {"insert", "insert_missing", "delete"}
      /\ e.sql.op = "delete" => r \notin e.sql.rows
  BY <1>1 DEF ReignInv, Holdings, Mine
<1>3. ASSUME NEW present \in rows, present.uuid = r.uuid PROVE present = r
  <2>1. present.runtime_uuid = uuid(m)
    BY DEF ReignInv, Holdings
  <2>2. QED
    BY <1>1, <1>3, <2>1 DEF RowsOf, Row
<1> HIDE DEF r, rows
<1> DEFINE sql == e.sql
           after == Execute(rows, sql)
<1>4. /\ sql.op = "insert" => after = rows \cup sql.rows
      /\ sql.op = "insert_missing" =>
           after = rows \cup {q \in sql.rows : \A present \in rows : present.uuid # q.uuid}
      /\ sql.op = "delete" => after = rows \ sql.rows
  BY DEF Execute
<1> HIDE DEF after
<1>5. CASE r \in rows
  BY <1>2, <1>5, <1>4 DEF r, rows, after
<1>6. CASE r \notin rows
  <2>1. e.sql.op \in {"insert", "insert_missing"} /\ r \in e.sql.rows
    BY <1>6 DEF Brings, r, rows
  <2>2. \A present \in rows : present.uuid # r.uuid
    BY <1>3, <1>6
  <2>3. QED
    BY <1>4, <2>1, <2>2 DEF r, rows, after
<1>7. QED
  BY <1>5, <1>6 DEF r, rows

(* A statement delivered.                                                  *)
LEMMA ComingByDelivery ==
  ASSUME NEW m \in Nodes, ReignInv(m), AllComing(m),
         NEW x \in Nodes, Delivers(m, x, Head(inbox[x]))
  PROVE  AllComing(m)'
<1> SUFFICES ASSUME NEW b \in Nodes \ {m}, NEW c \in sofia'[m].calls, Follows(b)',
                    ProfileOf[c] \in Names(m)' \cap Names(b)'
             PROVE  Coming(m, b, Row(c, uuid(m)))'
  BY DEF AllComing
<1> DEFINE r == Row(c, uuid(m))
           h == Head(inbox[x])
<1>1. /\ Follows(b)' = Follows(b) /\ Names(b)' = Names(b) /\ Names(m)' = Names(m)
      /\ uuid(m)' = uuid(m) /\ sofia'[m].calls = sofia[m].calls
  BY DEF Delivers, GroupRests, Names, uuid, Follows
<1>2. Coming(m, b, r)
  BY <1>1 DEF AllComing
<1>3. /\ \A n \in Nodes : /\ inbox[n] \in Seq(GroupEventsOf(made))
                          /\ sofia[n].events \in Seq(FsEventsOf(made))
  BY NodeTypes DEF ReignInv
<1>4. /\ inbox[x] # <<>> /\ h.type = "sql" /\ inbox'[x] = Tail(inbox[x])
      /\ \A n \in Nodes \ {x} : inbox'[n] = inbox[n] /\ sofia'[n] = sofia[n]
  BY DEF Delivers
<1>5. ToSet(inbox[x]) = {h} \cup ToSet(inbox'[x])
  BY <1>3, <1>4, ToSetHeadTail
<1>6. /\ sofia'[x].sip_recovery = sofia[x].sip_recovery
      /\ ToSet(sofia[x].events) \subseteq ToSet(sofia'[x].events)
      /\ x # m /\ h.profile \in Names(x) => RecvOf(h) \in ToSet(sofia'[x].events)
      /\ x = m => sofia'[x] = sofia[x]
  <2>1. CASE sofia'[x] = sofia[x] /\ (x = m \/ h.profile \notin Names(x))
    BY <2>1
  <2>2. ASSUME x # m, sofia'[x].sip_recovery = sofia[x].sip_recovery,
               RecvOf(h) \in FsEventsOf(made),
               sofia'[x].events = sofia[x].events \o <<RecvOf(h)>>
        PROVE  /\ ToSet(sofia[x].events) \subseteq ToSet(sofia'[x].events)
               /\ RecvOf(h) \in ToSet(sofia'[x].events)
    <3>1. ToSet(sofia[x].events \o <<RecvOf(h)>>) = ToSet(sofia[x].events) \cup {RecvOf(h)}
      BY <1>3, <2>2, ToSetAppended
    <3>2. QED
      BY <2>2, <3>1
  <2>3. QED
    BY <2>1, <2>2 DEF Delivers
<1> HIDE DEF r, h
<1>7. CASE r \in sofia[b].sip_recovery \/ \E e \in ToSet(sofia[b].events) : Brings(e, r)
  BY <1>1, <1>4, <1>6, <1>7 DEF Coming, r
<1>8. ASSUME NEW e \in ToSet(inbox[b]), Brings(e, r), e.profile \in Names(b)
      PROVE  Coming(m, b, Row(c, uuid(m)))'
  <2>1. CASE e \in ToSet(inbox'[b])
    BY <1>1, <1>8, <2>1 DEF Coming, r
  <2>2. CASE e \notin ToSet(inbox'[b])
    <3>1. x = b /\ e = h
      BY <1>4, <1>5, <1>8, <2>2
    <3>2. RecvOf(e) \in ToSet(sofia'[b].events)
      BY <1>6, <1>8, <3>1
    <3>3. Brings(RecvOf(e), r)
      BY <1>8 DEF Brings, Carries, RecvOf
    <3>4. QED
      BY <1>1, <3>2, <3>3 DEF Coming, r
  <2>3. QED
    BY <2>1, <2>2
<1>9. CASE \E e \in ToSet(sofia[m].events) : /\ e.type = "request_all" \/ Brings(e, r)
                                             /\ e.profile \in Names(m) \cap Names(b)
  BY <1>1, <1>4, <1>6, <1>9 DEF Coming, r
<1>10. CASE UpPending(inbox[m])
  <2>1. UpPending(inbox'[m])
    BY <1>4, <1>5, <1>10 DEF UpPending
  <2>2. QED
    BY <2>1 DEF Coming
<1>11. QED
  BY <1>2, <1>7, <1>8, <1>9, <1>10 DEF Coming

(* A statement applied.                                                    *)
LEMMA ComingByApplication ==
  ASSUME NEW m \in Nodes, ReignInv(m), AllComing(m),
         NEW x \in Nodes \ {m}, Applies(x, Head(sofia[x].events))
  PROVE  AllComing(m)'
<1> SUFFICES ASSUME NEW b \in Nodes \ {m}, NEW c \in sofia'[m].calls, Follows(b)',
                    ProfileOf[c] \in Names(m)' \cap Names(b)'
             PROVE  Coming(m, b, Row(c, uuid(m)))'
  BY DEF AllComing
<1> DEFINE r == Row(c, uuid(m))
           h == Head(sofia[x].events)
<1>1. /\ Follows(b)' = Follows(b) /\ Names(b)' = Names(b) /\ Names(m)' = Names(m)
      /\ uuid(m)' = uuid(m) /\ sofia'[m] = sofia[m] /\ inbox' = inbox
      /\ b # x => sofia'[b] = sofia[b]
  BY DEF Applies, GroupRests, Names, uuid, Follows
<1>2. Coming(m, b, r)
  BY <1>1 DEF AllComing
<1>3. CASE b # x
  BY <1>1, <1>2, <1>3 DEF Coming
<1>4. ASSUME b = x PROVE Coming(m, b, Row(c, uuid(m)))'
  <2>1. /\ sofia[x].events \in Seq(FsEventsOf(made)) /\ sofia[x].events # <<>>
        /\ sofia'[x].events = Tail(sofia[x].events)
        /\ sofia'[x].sip_recovery = Execute(sofia[x].sip_recovery, h.sql)
        /\ h.type = "recovery_recv"
    BY NodeTypes DEF ReignInv, Applies
  <2>2. ToSet(sofia[x].events) = {h} \cup ToSet(sofia'[x].events) /\ Carries(h)
    BY <2>1, ToSetHeadTail DEF Carries
  <2>3. c \in sofia[m].calls
    BY <1>1
  <2> HIDE DEF h
  <2>4. ASSUME r \in sofia[b].sip_recovery \/ Brings(h, r)
        PROVE  r \in sofia'[b].sip_recovery
    BY <1>4, <2>1, <2>2, <2>3, <2>4, RowsStay
  <2>5. CASE r \in sofia[b].sip_recovery \/ \E e \in ToSet(sofia[b].events) : Brings(e, r)
    <3>1. r \in sofia'[b].sip_recovery \/ \E e \in ToSet(sofia'[b].events) : Brings(e, r)
      BY <1>4, <2>2, <2>4, <2>5
    <3>2. QED
      BY <1>1, <3>1 DEF Coming
  <2>6. CASE ~(r \in sofia[b].sip_recovery \/ \E e \in ToSet(sofia[b].events) : Brings(e, r))
    BY <1>1, <1>2, <2>6 DEF Coming
  <2>7. QED
    BY <2>5, <2>6
<1>5. QED
  BY <1>3, <1>4

(* A change sent, or all rows fired.                                       *)
LEMMA ComingBySending ==
  ASSUME NEW m \in Nodes, ReignInv(m), AllComing(m), Sends(m, Head(sofia[m].events))
  PROVE  AllComing(m)'
<1> SUFFICES ASSUME NEW b \in Nodes \ {m}, NEW c \in sofia'[m].calls, Follows(b)',
                    ProfileOf[c] \in Names(m)' \cap Names(b)'
             PROVE  Coming(m, b, Row(c, uuid(m)))'
  BY DEF AllComing
<1> DEFINE r == Row(c, uuid(m))
           h == Head(sofia[m].events)
<1>1. /\ Follows(b)' = Follows(b) /\ Names(b)' = Names(b) /\ Names(m)' = Names(m)
      /\ uuid(m)' = uuid(m) /\ sofia'[m].calls = sofia[m].calls /\ sofia'[b] = sofia[b]
      /\ sofia'[m].sip_recovery = sofia[m].sip_recovery
  BY DEF Sends, GroupRests, Names, uuid, Follows
<1>2. Coming(m, b, r) /\ b \in Joined
  BY <1>1, FollowersJoined DEF AllComing, ReignInv, ViewInv
<1>3. /\ sofia[m].events \in Seq(FsEventsOf(made)) /\ sofia[m].events # <<>>
      /\ \A n \in Nodes : inbox[n] \in Seq(GroupEventsOf(made))
  BY NodeTypes DEF ReignInv, Sends
<1>4. /\ ToSet(sofia[m].events) = {h} \cup ToSet(Tail(sofia[m].events))
      /\ Tail(sofia[m].events) \in Seq(FsEventsOf(made))
  BY <1>3, ToSetHeadTail
<1>5. ASSUME NEW n \in Nodes
      PROVE  /\ ToSet(inbox[n]) \subseteq ToSet(inbox'[n])
             /\ h.type = "recovery_send" /\ h.profile \in Names(m) /\ n \in Joined =>
                  Sql(m, h.profile, h.sql) \in ToSet(inbox'[n])
  <2> DEFINE msg == Sql(m, h.profile, h.sql)
  <2>1. msg \in GroupEventsOf(made) =>
          ToSet(inbox[n] \o <<msg>>) = ToSet(inbox[n]) \cup {msg}
    BY <1>3, ToSetAppended
  <2>2. \/ inbox'[n] = inbox[n] /\ ~(h.type = "recovery_send" /\ h.profile \in Names(m)
                                                             /\ n \in Joined)
        \/ msg \in GroupEventsOf(made) /\ inbox'[n] = inbox[n] \o <<msg>>
    BY DEF Sends
  <2> HIDE DEF msg, h
  <2>3. QED
    BY <2>1, <2>2 DEF msg
<1>6. /\ ToSet(Tail(sofia[m].events)) \subseteq ToSet(sofia'[m].events)
      /\ h.type = "request_all" /\ sofia[m].sip_recovery # {} =>
           AllRows(m, h.profile) \in ToSet(sofia'[m].events)
  <2> DEFINE all == AllRows(m, h.profile)
             rest == Tail(sofia[m].events)
  <2>1. ASSUME NEW event \in FsEventsOf(made)
        PROVE  ToSet(rest \o <<event>>) = ToSet(rest) \cup {event}
    <3>1. rest \in Seq(FsEventsOf(made))
      BY <1>4
    <3> HIDE DEF rest
    <3>2. QED
      BY <3>1, ToSetAppended
  <2>2. \/ /\ sofia'[m].events = rest
           /\ ~(h.type = "request_all" /\ sofia[m].sip_recovery # {})
        \/ all \in FsEventsOf(made) /\ sofia'[m].events = rest \o <<all>>
    BY DEF Sends
  <2> HIDE DEF all, rest, h
  <2>3. QED
    BY <2>1, <2>2 DEF all, rest
<1> HIDE DEF r, h
<1>7. CASE r \in sofia[b].sip_recovery \/ \E e \in ToSet(sofia[b].events) : Brings(e, r)
  BY <1>1, <1>7 DEF Coming, r
<1>8. CASE \E e \in ToSet(inbox[b]) : Brings(e, r) /\ e.profile \in Names(b)
  BY <1>1, <1>5, <1>8 DEF Coming, r
<1>9. ASSUME NEW e \in ToSet(sofia[m].events), e.type = "request_all" \/ Brings(e, r),
             e.profile \in Names(m) \cap Names(b)
      PROVE  Coming(m, b, Row(c, uuid(m)))'
  <2>1. CASE e \in ToSet(Tail(sofia[m].events))
    <3>1. e \in ToSet(sofia'[m].events)
      BY <1>6, <2>1
    <3>2. QED
      BY <1>1, <1>9, <3>1 DEF Coming, r
  <2>2. CASE e = h /\ e.type = "request_all"
    <3>1. r \in sofia[m].sip_recovery
      BY <1>1 DEF ReignInv, Holdings, r
    <3>2. Brings(AllRows(m, h.profile), r) /\ AllRows(m, h.profile).profile = h.profile
      BY <3>1 DEF Brings, AllRows, InsertMissing, Carries
    <3>3. AllRows(m, h.profile) \in ToSet(sofia'[m].events)
      BY <1>6, <2>2, <3>1
    <3>4. \E d \in ToSet(sofia'[m].events) : Brings(d, r) /\ d.profile \in Names(m) \cap Names(b)
      BY <1>9, <2>2, <3>2, <3>3
    <3>5. QED
      BY <1>1, <3>4 DEF Coming, r
  <2>3. CASE e = h /\ e.type # "request_all"
    <3>1. e.type = "recovery_send"
      BY <1>9, <2>3 DEF Sends, h
    <3>2. Sql(m, e.profile, e.sql) \in ToSet(inbox'[b])
      BY <1>2, <1>5, <1>9, <2>3, <3>1
    <3>3. Brings(Sql(m, e.profile, e.sql), r) /\ Sql(m, e.profile, e.sql).profile \in Names(b)
      BY <1>9, <2>3 DEF Brings, Carries, Sql
    <3>4. QED
      BY <1>1, <3>2, <3>3 DEF Coming, r
  <2>4. QED
    BY <1>4, <1>9, <2>1, <2>2, <2>3
<1>10. CASE UpPending(inbox[m])
  BY <1>5, <1>10 DEF Coming, UpPending
<1>11. QED
  BY <1>2, <1>7, <1>8, <1>9, <1>10 DEF Coming

(* A call that begins or ends.                                             *)
LEMMA ComingByCall ==
  ASSUME NEW m \in Nodes, ReignInv(m), AllComing(m),
         NEW d \in Calls, Begins(m, d) \/ Ends(m, d)
  PROVE  AllComing(m)'
<1> SUFFICES ASSUME NEW b \in Nodes \ {m}, NEW c \in sofia'[m].calls, Follows(b)',
                    ProfileOf[c] \in Names(m)' \cap Names(b)'
             PROVE  Coming(m, b, Row(c, uuid(m)))'
  BY DEF AllComing
<1> DEFINE r == Row(c, uuid(m))
           begun == Change(m, d, Insert({Row(d, uuid(m))}))
           ended == Change(m, d, Delete({Row(d, uuid(m))}))
<1>1. /\ Follows(b)' = Follows(b) /\ Names(b)' = Names(b) /\ Names(m)' = Names(m)
      /\ uuid(m)' = uuid(m) /\ sofia'[b] = sofia[b] /\ inbox' = inbox
  BY DEF Begins, Ends, GroupRests, Names, uuid, Follows
<1>2. /\ \/ begun \in FsEventsOf(made') /\ sofia'[m].events = sofia[m].events \o <<begun>>
         \/ /\ ended \in FsEventsOf(made') /\ sofia'[m].events = sofia[m].events \o <<ended>>
            /\ sofia'[m].calls \subseteq sofia[m].calls
      /\ sofia'[m].calls \subseteq sofia[m].calls \cup {d}
      /\ sofia[m].events \in Seq(FsEventsOf(made')) 
  <2>1. made \subseteq made'
    BY DEF Begins, Ends
  <2>2. FsEventsOf(made) \subseteq FsEventsOf(made')
    BY <2>1 DEF FsEventsOf, StatementsOf, RowsOf
  <2>3. sofia[m].events \in Seq(FsEventsOf(made))
    BY NodeTypes DEF ReignInv
  <2>4. sofia[m].events \in Seq(FsEventsOf(made'))
    BY <2>2, <2>3, LargerSeq
  <2>5. QED
    BY <2>4 DEF Begins, Ends
<1> HIDE DEF begun, ended
<1>3. /\ ToSet(sofia[m].events) \subseteq ToSet(sofia'[m].events)
      /\ begun \in ToSet(sofia'[m].events) \/ c \in sofia[m].calls
  <2>1. ASSUME NEW event \in FsEventsOf(made'), sofia'[m].events = sofia[m].events \o <<event>>
        PROVE  ToSet(sofia'[m].events) = ToSet(sofia[m].events) \cup {event}
    BY <1>2, <2>1, ToSetAppended
  <2>2. QED
    BY <1>2, <2>1
<1>4. CASE c \in sofia[m].calls
  <2>1. Coming(m, b, r)
    BY <1>1, <1>4 DEF AllComing
  <2>2. QED
    BY <1>1, <1>3, <2>1 DEF Coming
<1>5. CASE c \notin sofia[m].calls
  <2>1. c = d /\ begun \in ToSet(sofia'[m].events)
    BY <1>2, <1>3, <1>5
  <2>2. Brings(begun, r) /\ begun.profile = ProfileOf[c]
    BY <2>1 DEF begun, Brings, Change, Insert, Carries
  <2>3. \E e \in ToSet(sofia'[m].events) : Brings(e, r) /\ e.profile \in Names(m)' \cap Names(b)'
    BY <2>1, <2>2
  <2>4. QED
    BY <1>1, <2>3 DEF Coming
<1>6. QED
  BY <1>4, <1>5

(* A row stays under way until it is there.                                *)
LEMMA ComingKept ==
  ASSUME NEW m \in Nodes, ReignInv(m), AllComing(m), (m \in Serving)', [Next]_vars
  PROVE  AllComing(m)'
BY ReignSteps, ComingByGroup, ComingByDelivery, ComingByApplication, ComingBySending, ComingByCall

-----------------------------------------------------------------------------
(* The first reign *)

(* The first member by priority reigns over the group when it settles.     *)
LEMMA ReignBegins ==
  ASSUME NEW m \in Nodes, Init, m \in Serving, ViewInv
  PROVE  ReignInv(m) /\ AllComing(m)
<1>1. PICK scenario \in Scenarios :
        vip = [n \in Nodes |-> IF n \in scenario.members
                                 THEN Settled(n, scenario.members) ELSE IdleVip]
  BY DEF Init
<1> DEFINE members == scenario.members
<1>2. /\ vip[m].state = "MASTER" /\ m = First(members) /\ m \in members
      /\ vip[m].node_id = m
  BY <1>1 DEF Serving, Settled, IdleVip, Active
<1>3. ASSUME NEW n \in Nodes
      PROVE  /\ inbox[n] = <<>> /\ sofia[n].events = <<>> /\ sofia[n].calls = {}
             /\ sofia[n].sip_recovery = {}
             /\ ToSet(inbox[n]) = {} /\ ToSet(sofia[n].events) = {}
  BY DEF Init, ToSet
<1>4. ASSUME NEW n \in Nodes \ {m} PROVE Subject(m, n)
  <2>1. NoNode # m
    BY NodesAssumption DEF NoNode
  <2>2. QED
    BY <1>1, <1>2, <2>1 DEF Subject, Settled, IdleVip, Active
<1>5. ASSUME NEW n \in Nodes \ {m}, Follows(n) PROVE ~ViewLacks(vip[n], inbox[n], m)
  <2>1. m \in vip[n].member_list
    BY <1>1, <1>2, <1>5 DEF Follows, Settled, IdleVip
  <2>2. QED
    BY <1>3, <2>1 DEF ViewLacks
<1>6. Reigns(m)
  BY <1>2, <1>3, <1>4, <1>5 DEF Reigns, Unrivalled
<1>7. Holdings(m) /\ AllComing(m)
  BY <1>3 DEF Holdings, AllComing
<1>8. QED
  BY <1>6, <1>7 DEF ReignInv

Supplied(m) == ReignInv(m) /\ AllComing(m)

(* While the first master serves, whoever joins, leaves or dies around it, *)
(* every backup at rest could recover every call: the statements reach all *)
(* that follow in the order sent, and the rows sent before a node had      *)
(* joined are asked for when it does (fsm.c:136).                          *)
THEOREM BackupsKeepUp ==
  ASSUME NEW m \in Nodes
  PROVE  Spec /\ [](m \in Serving) => []BackupsCanRecover
<1>1. Init /\ ViewInv /\ m \in Serving => Supplied(m)
  BY ReignBegins DEF Supplied
<1>2. Supplied(m) /\ (m \in Serving)' /\ ViewInv' /\ [Next]_vars => Supplied(m)'
  BY ReignKept, ComingKept DEF Supplied
<1>3. Supplied(m) => BackupsCanRecover
  <2> SUFFICES ASSUME ReignInv(m), AllComing(m), AtRest, NEW k \in Serving, NEW b \in Nodes,
                      vip[b].state = "BACKUP", NEW c \in sofia[k].calls,
                      ProfileOf[c] \in Names(k) \cap Names(b)
               PROVE  \E r \in sofia[b].sip_recovery : r.uuid = c /\ r.runtime_uuid # uuid(b)
    BY DEF Supplied, BackupsCanRecover
  <2>1. k = m
    BY DEF ReignInv, Reigns, Unrivalled, Subject, Serving
  <2>2. b # m /\ Follows(b)
    BY DEF ReignInv, Serving, Active, Follows
  <2>3. Coming(m, b, Row(c, uuid(m)))
    BY <2>1, <2>2 DEF AllComing
  <2>4. \A n \in Nodes : ToSet(inbox[n]) = {} /\ ToSet(sofia[n].events) = {}
    BY DEF AtRest, ToSet
  <2>5. Row(c, uuid(m)) \in sofia[b].sip_recovery
    BY <2>3, <2>4 DEF Coming, UpPending
  <2>6. Row(c, uuid(m)).uuid = c /\ Row(c, uuid(m)).runtime_uuid = uuid(m)
    BY DEF Row
  <2>7. uuid(m) # uuid(b)
    BY <2>2 DEF uuid
  <2>8. QED
    BY <2>5, <2>6, <2>7
<1>4. QED
  BY <1>1, <1>2, <1>3, ViewInvariant, PTL DEF Spec

-----------------------------------------------------------------------------
(* The rows of the calls that are over go *)

Removes(e, r) == Carries(e) /\ e.sql.op = "delete" /\ r \in e.sql.rows

Has(q, r) == \E e \in ToSet(q) : Removes(e, r)

(* What brings r is followed by what removes it.                           *)
Closed(q, r) == \A i \in 1..Len(q) : Brings(q[i], r) => \E j \in (i + 1)..Len(q) : Removes(q[j], r)

(* Taking the first event of a queue.                                      *)
LEMMA ClosedTail ==
  ASSUME NEW S, NEW q \in Seq(S), q # <<>>, NEW r
  PROVE  /\ Closed(q, r) => Closed(Tail(q), r)
         /\ Closed(q, r) /\ Brings(Head(q), r) => Has(Tail(q), r)
         /\ Has(q, r) => Removes(Head(q), r) \/ Has(Tail(q), r)
<1> DEFINE rest == Tail(q)
           size == Len(q)
<1>1. /\ size \in Nat /\ size > 0 /\ Len(rest) = size - 1 /\ Head(q) = q[1]
      /\ \A i \in 1..(size - 1) : rest[i] = q[i + 1]
      /\ DOMAIN rest = 1..(size - 1)
  <2>1. /\ Head(q) = q[1] /\ Tail(q) \in Seq(S) /\ size \in Nat /\ size > 0
        /\ Len(Tail(q)) = size - 1
        /\ \A i \in 1..Len(Tail(q)) : Tail(q)[i] = q[i + 1]
    BY HeadTailProperties, LenProperties, EmptySeq
  <2>2. QED
    BY <2>1, LenProperties
<1>2. ToSet(q) = {Head(q)} \cup ToSet(rest)
  BY ToSetHeadTail
<1> HIDE DEF rest, size
<1>3. ASSUME Closed(q, r), NEW i \in 1..(size - 1), Brings(rest[i], r)
      PROVE  \E j \in (i + 1)..(size - 1) : Removes(rest[j], r)
  <2>1. i + 1 \in 1..size /\ Brings(q[i + 1], r)
    BY <1>1, <1>3
  <2>2. PICK j \in (i + 1 + 1)..size : Removes(q[j], r)
    BY <1>3, <2>1 DEF Closed, size
  <2>3. j - 1 \in (i + 1)..(size - 1) /\ j - 1 \in 1..(size - 1) /\ (j - 1) + 1 = j
    BY <1>1, <2>2
  <2>4. QED
    BY <1>1, <2>2, <2>3
<1>4. ASSUME Closed(q, r), Brings(Head(q), r) PROVE Has(rest, r)
  <2>1. 1 \in 1..size
    BY <1>1
  <2>2. PICK j \in (1 + 1)..size : Removes(q[j], r)
    BY <1>1, <1>4, <2>1 DEF Closed, size
  <2>3. j - 1 \in 1..(size - 1) /\ (j - 1) + 1 = j
    BY <1>1, <2>2
  <2>4. Removes(rest[j - 1], r)
    BY <1>1, <2>2, <2>3
  <2>5. rest[j - 1] \in ToSet(rest)
    BY <1>1, <2>3 DEF ToSet
  <2>6. QED
    BY <2>4, <2>5 DEF Has
<1>5. Closed(q, r) => Closed(rest, r)
  BY <1>1, <1>3 DEF Closed
<1>6. QED
  BY <1>2, <1>4, <1>5 DEF Has, rest

(* An event comes last.                                                    *)
LEMMA ClosedAppend ==
  ASSUME NEW S, NEW q \in Seq(S), NEW e \in S, NEW r
  PROVE  /\ Has(q \o <<e>>, r) <=> Has(q, r) \/ Removes(e, r)
         /\ Removes(e, r) => Closed(q \o <<e>>, r)
         /\ Closed(q, r) /\ ~Brings(e, r) => Closed(q \o <<e>>, r)
<1> DEFINE long == q \o <<e>>
           size == Len(q)
<1>1. /\ size \in Nat /\ Len(long) = size + 1 /\ long[size + 1] = e
      /\ \A i \in 1..size : long[i] = q[i]
  BY OneMoreEvent
<1>2. ToSet(long) = ToSet(q) \cup {e}
  BY ToSetAppended
<1> HIDE DEF long, size
<1>3. ASSUME Removes(e, r), NEW i \in 1..(size + 1), Brings(long[i], r)
      PROVE  \E j \in (i + 1)..(size + 1) : Removes(long[j], r)
  <2>1. ~Brings(e, r)
    BY <1>3 DEF Removes, Brings
  <2>2. i # size + 1
    BY <1>1, <1>3, <2>1
  <2>3. size + 1 \in (i + 1)..(size + 1)
    BY <1>1, <2>2
  <2>4. QED
    BY <1>1, <1>3, <2>3
<1>4. ASSUME Closed(q, r), ~Brings(e, r), NEW i \in 1..(size + 1), Brings(long[i], r)
      PROVE  \E j \in (i + 1)..(size + 1) : Removes(long[j], r)
  <2>1. i \in 1..size
    BY <1>1, <1>4
  <2>2. Brings(q[i], r)
    BY <1>1, <1>4, <2>1
  <2>3. PICK j \in (i + 1)..size : Removes(q[j], r)
    BY <1>4, <2>1, <2>2 DEF Closed, size
  <2>4. j \in 1..size /\ j \in (i + 1)..(size + 1)
    BY <1>1, <2>1, <2>3
  <2>5. QED
    BY <1>1, <2>3, <2>4
<1>5. Removes(e, r) => Closed(long, r)
  BY <1>1, <1>3 DEF Closed
<1>6. Closed(q, r) /\ ~Brings(e, r) => Closed(long, r)
  BY <1>1, <1>4 DEF Closed
<1>7. Has(long, r) <=> Has(q, r) \/ Removes(e, r)
  BY <1>2 DEF Has
<1>8. QED
  BY <1>5, <1>6, <1>7 DEF long

(* The requests for rows bring none and remove none.                       *)
LEMMA RequestsClosed ==
  ASSUME SoundTypes, NEW n \in Nodes, NEW s \in Sofias(made),
         NEW t, t = virtual_ip_send_all_sql(n, s), NEW r, Closed(s.events, r)
  PROVE  Closed(t.events, r)
<1> DEFINE size == Len(profiles[n])
           Kept == [i \in 0..size |-> {x \in Sofias(made) : Closed(x.events, r)}]
<1>1. /\ profiles[n] \in Seq(Profiles) /\ size \in Nat /\ DOMAIN profiles[n] = 1..size
  BY LenProperties DEF SoundTypes
<1>2. \A i \in 0..(size - 1) : i \in 0..size /\ i + 1 \in 0..size /\ i + 1 \in 1..size
  BY <1>1
<1>3. 0 \in 0..size /\ size \in 0..size
  BY <1>1
<1> HIDE DEF size
<1>4. \A i \in 0..size : \A x : x \in Kept[i] <=> x \in Sofias(made) /\ Closed(x.events, r)
  OBVIOUS
<1> HIDE DEF Kept
<1>5. ASSUME NEW i \in 0..(size - 1), NEW x \in Kept[i]
      PROVE  RequestOne(0, x, profiles[n][i + 1]) \in Kept[i + 1]
  <2> DEFINE y == RequestOne(0, x, profiles[n][i + 1])
             request == Request(profiles[n][i + 1].name)
  <2>1. x \in Sofias(made) /\ Closed(x.events, r) /\ i + 1 \in 0..size
    BY <1>2, <1>4
  <2>2. profiles[n][i + 1].name \in SipProfiles
    <3>1. profiles[n][i + 1] \in Profiles
      BY <1>1, <1>2, ElementOfSeq DEF size
    <3>2. QED
      BY <3>1 DEF Profiles
  <2>3. y \in Sofias(made)
    BY <2>1, <2>2, RequestType DEF RequestOne
  <2>4. request \in FsEventsOf(made) /\ y = Fire(x, request) /\ ~Brings(request, r)
    BY <2>2 DEF RequestOne, utils_send_request_all, Request, FsEventsOf, Brings, Carries
  <2> HIDE DEF y, request
  <2>5. x.events \in Seq(FsEventsOf(made)) /\ y.events = x.events \o <<request>>
    <3>1. Fire(x, request).events = x.events \o <<request>>
      BY <2>1, <2>4, Fired
    <3>2. QED
      BY <2>1, <2>4, <3>1 DEF Sofias
  <2>6. Closed(y.events, r)
    BY <2>1, <2>4, <2>5, ClosedAppend
  <2>7. QED
    BY <1>4, <2>1, <2>3, <2>6 DEF y
<1>6. s \in Kept[0]
  BY <1>3, <1>4
<1>7. Requesting!Loop(0, s, profiles[n]) \in Kept[size]
  BY <1>1, <1>5, <1>6, Requesting!LoopInvariant DEF size
<1>8. t \in Kept[size]
  BY <1>7, RequestingIsLoop
<1>9. QED
  BY <1>3, <1>4, <1>8

(* A row of a call that is over: wherever it is, or may come from, a       *)
(* statement that removes it comes behind.                                 *)
Fading(m, b, r) ==
  /\ Closed(sofia[m].events, r)
  /\ Closed(inbox[b], r) \/ Has(sofia[m].events, r)
  /\ Closed(sofia[b].events, r) \/ Has(inbox[b], r) \/ Has(sofia[m].events, r)
  /\ r \in sofia[b].sip_recovery =>
       Has(sofia[b].events, r) \/ Has(inbox[b], r) \/ Has(sofia[m].events, r)

(* Who has backed the group up all along still does.                       *)
Steady == \A b \in Nodes : past[b] = "backup" => vip[b].state = "BACKUP" /\ phase[b] = "running"

(* It reads no other file meanwhile.                                       *)
LEMMA SteadyKept ==
  ASSUME SoundTypes, Steady, [Next]_vars, NEW b \in Nodes, past'[b] = "backup"
  PROVE  /\ past[b] = "backup" /\ profiles'[b] = profiles[b]
         /\ vip'[b].state = "BACKUP" /\ phase'[b] = "running"
<1>1. /\ past \in [Nodes -> {"backup", "fresh", "stopped"}] /\ vip \in [Nodes -> SoundVips]
      /\ phase \in [Nodes -> {"dead", "idle", "running", "stopping", "returning"}]
      /\ DOMAIN profiles = Nodes
  BY DEF SoundTypes
<1>2. past[b] = "backup" => vip[b].state = "BACKUP" /\ phase[b] = "running"
  BY DEF Steady
<1>3. CASE UNCHANGED <<vip, phase, profiles, past>>
  BY <1>2, <1>3
<1>4. ASSUME NEW x \in Nodes, HandleEvent(x)
      PROVE  /\ past[b] = "backup" /\ profiles'[b] = profiles[b]
             /\ vip'[b].state = "BACKUP" /\ phase'[b] = "running"
  <2>1. /\ past' = [past EXCEPT ![x] = IF vip'[x].state = "IDLE" THEN "stopped"
                                       ELSE IF @ = "backup" /\ vip'[x].state # "BACKUP"
                                              THEN "fresh"
                                       ELSE @]
        /\ UNCHANGED <<phase, profiles>>
        /\ \E out : vip' = [vip EXCEPT ![x] = out]
    BY <1>4 DEF HandleEvent
  <2>2. QED
    BY <1>1, <1>2, <2>1
<1>5. ASSUME NEW x \in Nodes, LeaveGroup(x) \/ StopReturns(x)
      PROVE  /\ past[b] = "backup" /\ profiles'[b] = profiles[b]
             /\ vip'[b].state = "BACKUP" /\ phase'[b] = "running"
  <2>1. /\ UNCHANGED <<vip, profiles, past>> /\ \E p : phase' = [phase EXCEPT ![x] = p]
        /\ vip[x].state = "IDLE" \/ phase[x] = "returning"
    BY <1>5 DEF LeaveGroup, StopReturns, historyVars
  <2>2. x # b
    BY <1>2, <2>1
  <2>3. QED
    BY <1>1, <1>2, <2>1, <2>2
<1>6. ASSUME NEW x \in Nodes, Stop(x) \/ Crash(x)
      PROVE  /\ past[b] = "backup" /\ profiles'[b] = profiles[b]
             /\ vip'[b].state = "BACKUP" /\ phase'[b] = "running"
  <2>1. /\ profiles' = profiles /\ \E p : phase' = [phase EXCEPT ![x] = p]
        /\ \E v : vip' = [vip EXCEPT ![x] = v]
        /\ \E p \in {"stopped", "fresh"} : past' = [past EXCEPT ![x] = p]
    BY <1>6 DEF Stop, Crash
  <2>2. x # b
    BY <1>1, <2>1
  <2>3. QED
    BY <1>1, <1>2, <2>1, <2>2
<1>7. ASSUME NEW x \in Nodes, Start(x) \/ Load(x)
      PROVE  /\ past[b] = "backup" /\ profiles'[b] = profiles[b]
             /\ vip'[b].state = "BACKUP" /\ phase'[b] = "running"
  <2>1. /\ past' = past /\ phase' = [phase EXCEPT ![x] = "running"]
        /\ phase[x] \in {"idle", "dead"}
        /\ \E v : vip' = [vip EXCEPT ![x] = v]
        /\ profiles' = profiles \/ \E p : profiles' = [profiles EXCEPT ![x] = p]
    BY <1>7 DEF Start, Load, GoUp, historyVars
  <2>2. x # b
    BY <1>2, <2>1
  <2>3. QED
    BY <1>1, <1>2, <2>1, <2>2
<1>8. ASSUME NEW x \in Nodes, DeliverSql(x) \/ HandleFsEvent(x) \/ CallBegins(x) \/ CallEnds(x)
      PROVE  UNCHANGED <<vip, phase, profiles, past>>
  BY <1>8 DEF DeliverSql, HandleFsEvent, CallBegins, CallEnds, groupVars, historyVars
<1>9. UNCHANGED vars => UNCHANGED <<vip, phase, profiles, past>>
  BY DEF vars, groupVars, historyVars
<1>10. QED
  BY <1>3, <1>4, <1>5, <1>6, <1>7, <1>8, <1>9 DEF Next

(* An event of the group moves no statement.                               *)
LEMMA FadingByGroup ==
  ASSUME NEW m \in Nodes, ReignInv(m), GroupStep(m), NEW b \in Nodes \ {m}, Follows(b)',
         NEW r, Fading(m, b, r)
  PROVE  Fading(m, b, r)'
<1>1. SoundTypes /\ sofia[m] \in Sofias(made) /\ inbox[b] \in Seq(GroupEventsOf(made))
  BY NodeTypes DEF ReignInv
<1>2. sofia'[b] = sofia[b] /\ Hears(m, b)
  BY DEF GroupStep
<1>3. /\ Closed(sofia[m].events, r) => Closed(sofia'[m].events, r)
      /\ Has(sofia[m].events, r) => Has(sofia'[m].events, r)
  <2>1. CASE sofia'[m] = sofia[m]
    BY <2>1
  <2>2. CASE sofia'[m] = virtual_ip_send_all_sql(m, sofia[m])
    <3>1. ToSet(sofia'[m].events) = ToSet(sofia[m].events) \cup {Request(k) : k \in Names(m)}
      BY <1>1, <2>2, RequestsSent
    <3>2. Closed(sofia[m].events, r) => Closed(sofia'[m].events, r)
      BY <1>1, <2>2, RequestsClosed
    <3>3. QED
      BY <3>1, <3>2 DEF Has
  <2>3. QED
    BY <2>1, <2>2 DEF GroupStep
<1>4. Has(inbox[b], r) => Has(inbox'[b], r)
  BY <1>1, <1>2, StatementsWait DEF Has, Removes
<1>5. ASSUME Closed(inbox[b], r) PROVE Closed(inbox'[b], r)
  <2> DEFINE S == GroupEventsOf(made)
  <2>1. PICK box : /\ \/ box = inbox[b]
                      \/ inbox[b] # <<>> /\ ~Carries(Head(inbox[b])) /\ box = Tail(inbox[b])
                   /\ \/ inbox'[b] = box
                      \/ \E new \in S : Harmless(m, new) /\ inbox'[b] = box \o <<new>>
    BY <1>2 DEF Hears
  <2>2. box \in Seq(S) /\ Closed(box, r)
    <3>1. CASE box = inbox[b]
      BY <1>1, <1>5, <3>1
    <3>2. CASE inbox[b] # <<>> /\ box = Tail(inbox[b])
      BY <1>1, <1>5, <3>2, ToSetHeadTail, ClosedTail
    <3>3. QED
      BY <2>1, <3>1, <3>2
  <2>3. ASSUME NEW new \in S, Harmless(m, new), inbox'[b] = box \o <<new>>
        PROVE  Closed(inbox'[b], r)
    <3>1. ~Brings(new, r)
      BY <2>3 DEF Harmless, Brings
    <3>2. QED
      BY <2>2, <2>3, <3>1, ClosedAppend
  <2>4. QED
    BY <2>1, <2>2, <2>3
<1>6. QED
  BY <1>2, <1>3, <1>4, <1>5 DEF Fading

(* A statement that removes r is of the profile of its call.               *)
LEMMA RemovalsNamed ==
  ASSUME NEW m, NEW e, Mine(m, e), NEW r, Removes(e, r)
  PROVE  e.profile = ProfileOf[r.uuid]
BY DEF Mine, Removes

(* A statement delivered to b, or to another.                              *)
LEMMA FadingByDelivery ==
  ASSUME NEW m \in Nodes, ReignInv(m), NEW x \in Nodes, Delivers(m, x, Head(inbox[x])),
         NEW b \in Nodes \ {m}, NEW r, ProfileOf[r.uuid] \in Names(b), Fading(m, b, r)
  PROVE  Fading(m, b, r)'
<1> DEFINE h == Head(inbox[x])
<1>1. /\ \A n \in Nodes : /\ inbox[n] \in Seq(GroupEventsOf(made))
                          /\ sofia[n].events \in Seq(FsEventsOf(made))
  BY NodeTypes DEF ReignInv
<1>2. /\ inbox[x] # <<>> /\ h.type = "sql" /\ inbox'[x] = Tail(inbox[x])
      /\ \A n \in Nodes \ {x} : inbox'[n] = inbox[n] /\ sofia'[n] = sofia[n]
      /\ \/ sofia'[x] = sofia[x] /\ (x = m \/ h.profile \notin Names(x))
         \/ /\ x # m /\ sofia'[x].sip_recovery = sofia[x].sip_recovery
            /\ RecvOf(h) \in FsEventsOf(made)
            /\ sofia'[x].events = sofia[x].events \o <<RecvOf(h)>>
  BY DEF Delivers
<1>3. h \in ToSet(inbox[x])
  BY <1>1, <1>2, ToSetHeadTail
<1>4. Removes(h, r) => h.profile = ProfileOf[r.uuid]
  BY <1>3, RemovalsNamed DEF ReignInv, Holdings
<1>5. /\ Brings(RecvOf(h), r) <=> Brings(h, r)
      /\ Removes(RecvOf(h), r) <=> Removes(h, r)
  BY <1>2 DEF Brings, Removes, Carries, RecvOf
<1>6. /\ Closed(inbox[x], r) => Closed(inbox'[x], r)
      /\ Closed(inbox[x], r) /\ Brings(h, r) => Has(inbox'[x], r)
      /\ Has(inbox[x], r) => Removes(h, r) \/ Has(inbox'[x], r)
  BY <1>1, <1>2, ClosedTail
<1> HIDE DEF h
<1>7. CASE x # b
  <2>1. inbox'[b] = inbox[b] /\ sofia'[b] = sofia[b] /\ sofia'[m].events = sofia[m].events
    BY <1>2, <1>7
  <2>2. QED
    BY <2>1 DEF Fading
<1>8. CASE x = b
  <2>1. sofia'[m] = sofia[m] /\ sofia'[b].sip_recovery = sofia[b].sip_recovery
    BY <1>2, <1>8
  <2>2. CASE sofia'[b] = sofia[b] /\ h.profile \notin Names(b)
    <3>1. ~Removes(h, r)
      BY <1>4, <2>2
    <3>2. QED
      BY <1>6, <1>8, <2>1, <2>2, <3>1 DEF Fading
  <2>3. CASE RecvOf(h) \in FsEventsOf(made) /\ sofia'[b].events = sofia[b].events \o <<RecvOf(h)>>
    <3>1. /\ Has(sofia'[b].events, r) <=> Has(sofia[b].events, r) \/ Removes(h, r)
          /\ Removes(h, r) => Closed(sofia'[b].events, r)
          /\ Closed(sofia[b].events, r) /\ ~Brings(h, r) => Closed(sofia'[b].events, r)
      <4> PICK new : new = RecvOf(h)
        OBVIOUS
      <4>1. new \in FsEventsOf(made) /\ sofia[b].events \in Seq(FsEventsOf(made))
        BY <1>1, <2>3
      <4>2. /\ Has(sofia[b].events \o <<new>>, r) <=> Has(sofia[b].events, r) \/ Removes(new, r)
            /\ Removes(new, r) => Closed(sofia[b].events \o <<new>>, r)
            /\ Closed(sofia[b].events, r) /\ ~Brings(new, r)
                 => Closed(sofia[b].events \o <<new>>, r)
        BY <4>1, ClosedAppend
      <4>3. QED
        BY <1>5, <2>3, <4>2
    <3>2. QED
      BY <1>6, <1>8, <2>1, <3>1 DEF Fading
  <2>4. QED
    BY <1>2, <1>8, <2>2, <2>3
<1>9. QED
  BY <1>7, <1>8

(* A statement applied by b, or by another.                                *)
LEMMA FadingByApplication ==
  ASSUME NEW m \in Nodes, ReignInv(m), NEW x \in Nodes \ {m},
         Applies(x, Head(sofia[x].events)),
         NEW b \in Nodes \ {m}, NEW r, Fading(m, b, r)
  PROVE  Fading(m, b, r)'
<1> DEFINE h == Head(sofia[x].events)
<1>1. /\ inbox' = inbox /\ \A n \in Nodes \ {x} : sofia'[n] = sofia[n]
      /\ sofia[x].events # <<>> /\ sofia'[x].events = Tail(sofia[x].events)
      /\ sofia'[x].sip_recovery = Execute(sofia[x].sip_recovery, h.sql)
      /\ h.type = "recovery_recv" /\ sofia[x].events \in Seq(FsEventsOf(made))
  BY NodeTypes DEF ReignInv, Applies
<1>2. CASE x # b
  BY <1>1, <1>2 DEF Fading
<1>3. CASE x = b
  <2>1. /\ Closed(sofia[b].events, r) => Closed(sofia'[b].events, r)
        /\ Closed(sofia[b].events, r) /\ Brings(h, r) => Has(sofia'[b].events, r)
        /\ Has(sofia[b].events, r) => Removes(h, r) \/ Has(sofia'[b].events, r)
    BY <1>1, <1>3, ClosedTail
  <2>2. /\ r \in sofia'[b].sip_recovery => ~Removes(h, r)
        /\ r \in sofia'[b].sip_recovery => r \in sofia[b].sip_recovery \/ Brings(h, r)
    <3> DEFINE rows == sofia[b].sip_recovery
               sql == h.sql
               after == Execute(rows, sql)
    <3>1. /\ sql.op = "insert" => after = rows \cup sql.rows
          /\ sql.op = "insert_missing" =>
               after = rows \cup {q \in sql.rows : \A present \in rows : present.uuid # q.uuid}
          /\ sql.op = "delete" => after = rows \ sql.rows
      BY DEF Execute
    <3>2. sql.op \in {"insert", "insert_missing", "delete"}
      <4>1. h \in ToSet(sofia[x].events)
        BY <1>1, ToSetHeadTail
      <4>2. Mine(m, h)
        BY <4>1 DEF ReignInv, Holdings
      <4>3. QED
        BY <1>1, <4>2 DEF Mine, Carries
    <3>3. sofia'[b].sip_recovery = after
      BY <1>1, <1>3
    <3>4. Carries(h)
      BY <1>1 DEF Carries
    <3> HIDE DEF after, rows, h
    <3>5. /\ r \in after => ~(sql.op = "delete" /\ r \in sql.rows)
          /\ r \in after => r \in rows \/ (sql.op \in {"insert", "insert_missing"} /\ r \in sql.rows)
      BY <3>1, <3>2
    <3>6. QED
      BY <3>3, <3>4, <3>5 DEF Brings, Removes, rows
  <2>3. inbox'[b] = inbox[b] /\ sofia'[m].events = sofia[m].events
    BY <1>1, <1>3
  <2> HIDE DEF h
  <2>4. QED
    BY <2>1, <2>2, <2>3 DEF Fading
<1>4. QED
  BY <1>2, <1>3

(* The master sends a change, or fires its rows: those of its calls.       *)
LEMMA FadingBySending ==
  ASSUME NEW m \in Nodes, ReignInv(m), Sends(m, Head(sofia[m].events)),
         NEW b \in Joined \ {m}, NEW r, r \notin sofia[m].sip_recovery,
         ProfileOf[r.uuid] \in Names(m), Fading(m, b, r)
  PROVE  Fading(m, b, r)'
<1> DEFINE h == Head(sofia[m].events)
           rest == Tail(sofia[m].events)
           S == GroupEventsOf(made)
           F == FsEventsOf(made)
<1>1. /\ b \in Nodes /\ inbox[b] \in Seq(S) /\ sofia[m].events \in Seq(F)
      /\ sofia[m].events # <<>> /\ rest \in Seq(F)
      /\ h \in ToSet(sofia[m].events)
  BY NodeTypes, ToSetHeadTail DEF ReignInv, Sends, Joined
<1>2. /\ Closed(sofia[m].events, r) => Closed(rest, r)
      /\ Closed(sofia[m].events, r) /\ Brings(h, r) => Has(rest, r)
      /\ Has(sofia[m].events, r) => Removes(h, r) \/ Has(rest, r)
  BY <1>1, ClosedTail
<1>3. Removes(h, r) => h.profile = ProfileOf[r.uuid]
  BY <1>1, RemovalsNamed DEF ReignInv, Holdings
<1>4. sofia'[b] = sofia[b]
  BY <1>1 DEF Sends
<1> HIDE DEF rest, h
<1>5. ASSUME h.type = "recovery_send" PROVE Fading(m, b, r)'
  <2>1. sofia'[m].events = rest
    BY <1>5 DEF Sends, h, rest
  <2>2. CASE h.profile \notin Names(m)
    <3>1. ~Removes(h, r)
      BY <1>3, <2>2
    <3>2. inbox'[b] = inbox[b]
      BY <1>1, <1>5, <2>2 DEF Sends, h
    <3>3. QED
      BY <1>2, <1>4, <2>1, <3>1, <3>2 DEF Fading
  <2>3. CASE h.profile \in Names(m)
    <3> PICK msg : msg = Sql(m, h.profile, h.sql)
      OBVIOUS
    <3>1. msg \in S /\ inbox'[b] = inbox[b] \o <<msg>>
      BY <1>1, <1>5, <2>3 DEF Sends, h
    <3>2. /\ Brings(msg, r) <=> Brings(h, r)
          /\ Removes(msg, r) <=> Removes(h, r)
      BY <1>5 DEF Brings, Removes, Carries, Sql
    <3>3. /\ Has(inbox[b] \o <<msg>>, r) <=> Has(inbox[b], r) \/ Removes(msg, r)
          /\ Removes(msg, r) => Closed(inbox[b] \o <<msg>>, r)
          /\ Closed(inbox[b], r) /\ ~Brings(msg, r) => Closed(inbox[b] \o <<msg>>, r)
      BY <1>1, <3>1, ClosedAppend
    <3>4. QED
      BY <1>2, <1>4, <2>1, <3>1, <3>2, <3>3 DEF Fading
  <2>4. QED
    BY <2>2, <2>3
<1>6. ASSUME h.type = "request_all" PROVE Fading(m, b, r)'
  <2>1. inbox' = inbox /\ ~Removes(h, r)
    BY <1>6 DEF Sends, h, Removes, Carries
  <2> PICK all : all = AllRows(m, h.profile)
    OBVIOUS
  <2>2. \/ sofia'[m].events = rest
        \/ sofia'[m].events = rest \o <<all>> /\ all \in F
    BY <1>6 DEF Sends, h, rest
  <2>3. ~Removes(all, r) /\ ~Brings(all, r)
    BY DEF AllRows, InsertMissing, Removes, Brings
  <2>4. /\ Closed(rest, r) => Closed(sofia'[m].events, r)
        /\ Has(rest, r) => Has(sofia'[m].events, r)
    <3>1. CASE sofia'[m].events = rest
      BY <3>1
    <3>2. ASSUME sofia'[m].events = rest \o <<all>>, all \in F
          PROVE  /\ Closed(rest, r) => Closed(sofia'[m].events, r)
                 /\ Has(rest, r) => Has(sofia'[m].events, r)
      BY <1>1, <2>3, <3>2, ClosedAppend
    <3>3. QED
      BY <2>2, <3>1, <3>2
  <2>5. QED
    BY <1>2, <1>4, <2>1, <2>4 DEF Fading
<1>7. QED
  BY <1>5, <1>6 DEF Sends, h

(* A call that begins brings no other row, one that ends removes its own.  *)
LEMMA FadingByCall ==
  ASSUME NEW m \in Nodes, ReignInv(m), NEW d \in Calls, Begins(m, d) \/ Ends(m, d),
         NEW b \in Nodes \ {m}, NEW c \in Calls, NEW r, r = Row(c, uuid(m)),
         c \notin sofia'[m].calls, c # d => Fading(m, b, r)
  PROVE  Fading(m, b, r)'
<1> PICK begun : begun = Change(m, d, Insert({Row(d, uuid(m))}))
  OBVIOUS
<1> PICK ended : ended = Change(m, d, Delete({Row(d, uuid(m))}))
  OBVIOUS
<1> DEFINE F == FsEventsOf(made')
<1>1. inbox' = inbox /\ sofia'[b] = sofia[b]
  BY DEF Begins, Ends
<1>2. sofia[m].events \in Seq(F)
  <2>1. made \subseteq made'
    BY DEF Begins, Ends
  <2>2. FsEventsOf(made) \subseteq F
    BY <2>1 DEF FsEventsOf, StatementsOf, RowsOf
  <2>3. sofia[m].events \in Seq(FsEventsOf(made))
    BY NodeTypes DEF ReignInv
  <2>4. QED
    BY <2>2, <2>3, LargerSeq
<1>3. \/ Begins(m, d) /\ begun \in F /\ sofia'[m].events = sofia[m].events \o <<begun>>
      \/ Ends(m, d) /\ ended \in F /\ sofia'[m].events = sofia[m].events \o <<ended>>
  BY DEF Begins, Ends
<1> HIDE DEF F
<1>4. ASSUME c # d PROVE Fading(m, b, r)'
  <2>1. r \notin {Row(d, uuid(m))}
    BY <1>4 DEF Row
  <2>2. ~Brings(begun, r) /\ ~Brings(ended, r)
    BY <2>1 DEF Brings, Change, Insert, Delete
  <2>3. ASSUME NEW new \in F, ~Brings(new, r), sofia'[m].events = sofia[m].events \o <<new>>
        PROVE  /\ Closed(sofia[m].events, r) => Closed(sofia'[m].events, r)
               /\ Has(sofia[m].events, r) => Has(sofia'[m].events, r)
    BY <1>2, <2>3, ClosedAppend
  <2>4. /\ Closed(sofia[m].events, r) => Closed(sofia'[m].events, r)
        /\ Has(sofia[m].events, r) => Has(sofia'[m].events, r)
    BY <1>3, <2>2, <2>3
  <2>5. QED
    BY <1>1, <1>4, <2>4 DEF Fading
<1>5. ASSUME c = d PROVE Fading(m, b, r)'
  <2>1. ended \in F /\ sofia'[m].events = sofia[m].events \o <<ended>>
    BY <1>3, <1>5 DEF Begins
  <2>2. Removes(ended, r)
    BY <1>5 DEF Removes, Change, Delete, Carries
  <2>3. Closed(sofia'[m].events, r) /\ Has(sofia'[m].events, r)
    BY <1>2, <2>1, <2>2, ClosedAppend
  <2>4. QED
    BY <2>3 DEF Fading
<1>6. QED
  BY <1>4, <1>5

AllFading(m) ==
  \A b \in Nodes \ {m} : past[b] = "backup" =>
    /\ profiles[b] = profiles[m]
    /\ \A c \in made : c \notin sofia[m].calls /\ ProfileOf[c] \in Names(m) =>
                         Fading(m, b, Row(c, uuid(m)))

(* The rows of the calls that are over stay on their way out.              *)
LEMMA FadingKept ==
  ASSUME NEW m \in Nodes, ReignInv(m), Steady, AllFading(m), (m \in Serving)', [Next]_vars
  PROVE  AllFading(m)'
<1> SUFFICES ASSUME NEW b \in Nodes \ {m}, past'[b] = "backup"
             PROVE  /\ profiles'[b] = profiles'[m]
                    /\ \A c \in made' :
                         c \notin sofia'[m].calls /\ ProfileOf[c] \in Names(m)' =>
                           Fading(m, b, Row(c, uuid(m)))'
  BY DEF AllFading
<1>1. SoundTypes /\ CallsInv
  BY DEF ReignInv, ViewInv, CallsInv, TypeInv
<1>2. /\ past[b] = "backup" /\ profiles'[b] = profiles[b]
      /\ vip'[b].state = "BACKUP" /\ vip[b].state = "BACKUP"
  BY <1>1, SteadyKept DEF Steady
<1>3. Follows(b) /\ Follows(b)' /\ b \in Joined
  <2>1. Follows(b) /\ Follows(b)'
    BY <1>2 DEF Follows
  <2>2. QED
    BY <1>1, <2>1, FollowersJoined
<1>4. profiles'[m] = profiles[m] /\ launch'[m] = launch[m]
  BY ReignSteps DEF GroupStep, Delivers, Applies, Sends, Begins, Ends, GroupRests
<1>5. /\ profiles[b] = profiles[m] /\ Names(b) = Names(m) /\ Names(m)' = Names(m)
      /\ uuid(m)' = uuid(m)
  BY <1>2, <1>4 DEF AllFading, Names, uuid
<1>6. profiles'[b] = profiles'[m]
  BY <1>2, <1>4, <1>5
<1>7. ASSUME NEW c \in made', c \notin sofia'[m].calls, ProfileOf[c] \in Names(m)
      PROVE  Fading(m, b, Row(c, uuid(m)))'
  <2> PICK r : r = Row(c, uuid(m))
    OBVIOUS
  <2>1. r.uuid = c
    BY DEF Row
  <2>2. ASSUME made' = made, sofia'[m].calls = sofia[m].calls
        PROVE  Fading(m, b, r) /\ r \notin sofia[m].sip_recovery
    <3>1. c \in made /\ c \notin sofia[m].calls
      BY <1>7, <2>2
    <3>2. Fading(m, b, r)
      BY <1>2, <1>7, <3>1 DEF AllFading
    <3>3. r \notin sofia[m].sip_recovery
      BY <2>1, <3>1 DEF ReignInv, Holdings, Row
    <3>4. QED
      BY <3>2, <3>3
  <2>3. ASSUME GroupStep(m) PROVE Fading(m, b, r)'
    <3>1. sofia'[m].calls = sofia[m].calls /\ made' = made
      <4>1. sofia[m] \in Sofias(made)
        BY NodeTypes DEF ReignInv
      <4>2. QED
        BY <1>1, <2>3, <4>1, RequestsSent DEF GroupStep
    <3>2. QED
      BY <1>3, <2>2, <2>3, <3>1, FadingByGroup
  <2>4. ASSUME NEW x \in Nodes, Delivers(m, x, Head(inbox[x])) PROVE Fading(m, b, r)'
    <3>1. sofia'[m].calls = sofia[m].calls /\ made' = made
      BY <2>4 DEF Delivers
    <3>2. Fading(m, b, r) /\ ProfileOf[r.uuid] \in Names(b)
      BY <1>5, <1>7, <2>1, <2>2, <3>1
    <3>3. QED
      BY <2>4, <3>2, FadingByDelivery
  <2>5. ASSUME NEW x \in Nodes \ {m}, Applies(x, Head(sofia[x].events)) PROVE Fading(m, b, r)'
    <3>1. sofia'[m].calls = sofia[m].calls /\ made' = made
      BY <2>5 DEF Applies
    <3>2. QED
      BY <2>2, <2>5, <3>1, FadingByApplication
  <2>6. ASSUME Sends(m, Head(sofia[m].events)) PROVE Fading(m, b, r)'
    <3>1. sofia'[m].calls = sofia[m].calls /\ made' = made
      BY <2>6 DEF Sends
    <3>2. Fading(m, b, r) /\ r \notin sofia[m].sip_recovery /\ ProfileOf[r.uuid] \in Names(m)
      BY <1>7, <2>1, <2>2, <3>1
    <3>3. QED
      BY <1>3, <2>6, <3>2, FadingBySending
  <2>7. ASSUME NEW d \in Calls, Begins(m, d) \/ Ends(m, d) PROVE Fading(m, b, r)'
    <3>1. c \in Calls
      BY <1>1, <1>7, <2>7 DEF SoundTypes, Begins, Ends
    <3>2. c # d => c \in made /\ c \notin sofia[m].calls
      BY <1>7, <2>7 DEF Begins, Ends
    <3>3. c # d => Fading(m, b, r)
      BY <1>2, <1>7, <3>2 DEF AllFading
    <3>4. QED
      BY <1>7, <2>7, <3>1, <3>3, FadingByCall
  <2>8. Fading(m, b, r)'
    BY <2>3, <2>4, <2>5, <2>6, <2>7, ReignSteps
  <2>9. QED
    BY <1>5, <2>8
<1>8. QED
  BY <1>5, <1>6, <1>7

(* What holds throughout a reign of the first master m.                    *)
Clean(m) == ReignInv(m) /\ Steady /\ AllFading(m)

(* While the first master serves, a node that has backed it up all along   *)
(* holds at rest no row of a call that is over: each statement that brings *)
(* a row to a backup, sent or asked for, is followed on the same way by    *)
(* the one that removes it.                                                *)
THEOREM BackupsForget ==
  ASSUME NEW m \in Nodes
  PROVE  Spec /\ [](m \in Serving) => []SteadyBackupsHoldNoGhosts
<1>1. Init /\ ViewInv /\ m \in Serving => Clean(m)
  <2> SUFFICES ASSUME Init, ViewInv, m \in Serving PROVE Clean(m)
    OBVIOUS
  <2>1. ReignInv(m)
    BY ReignBegins
  <2>2. PICK scenario \in Scenarios :
          /\ vip = [n \in Nodes |-> IF n \in scenario.members
                                      THEN Settled(n, scenario.members) ELSE IdleVip]
          /\ phase = [n \in Nodes |-> IF n \in scenario.members THEN "running" ELSE "dead"]
          /\ past = [n \in Nodes |-> IF n \in scenario.members \ {First(scenario.members)}
                                       THEN "backup" ELSE "fresh"]
          /\ profiles = [n \in Nodes |-> do_config(scenario.file)]
    BY DEF Init
  <2>3. Steady
    BY <2>2 DEF Steady, Settled
  <2>4. ASSUME NEW n \in Nodes, NEW r
        PROVE  /\ Closed(inbox[n], r) /\ Closed(sofia[n].events, r)
               /\ r \notin sofia[n].sip_recovery
    <3>1. inbox[n] = <<>> /\ sofia[n].events = <<>> /\ sofia[n].sip_recovery = {}
      BY DEF Init
    <3>2. 1..Len(<<>>) = {}
      OBVIOUS
    <3>3. QED
      BY <3>1, <3>2 DEF Closed
  <2>5. AllFading(m)
    BY <2>2, <2>4 DEF AllFading, Fading
  <2>6. QED
    BY <2>1, <2>3, <2>5 DEF Clean
<1>2. Clean(m) /\ (m \in Serving)' /\ ViewInv' /\ [Next]_vars => Clean(m)'
  <2> SUFFICES ASSUME Clean(m), (m \in Serving)', ViewInv', [Next]_vars PROVE Clean(m)'
    OBVIOUS
  <2>1. SoundTypes
    BY DEF Clean, ReignInv, ViewInv, CallsInv, TypeInv
  <2>2. Steady'
    BY <2>1, SteadyKept DEF Clean, Steady
  <2>3. QED
    BY <2>2, ReignKept, FadingKept DEF Clean
<1>3. Clean(m) => SteadyBackupsHoldNoGhosts
  <2> SUFFICES ASSUME Clean(m), AtRest, NEW b \in Nodes, past[b] = "backup",
                      NEW r \in sofia[b].sip_recovery, ProfileOf[r.uuid] \in Names(b)
               PROVE  \E k \in Serving : r.uuid \in sofia[k].calls
    BY DEF SteadyBackupsHoldNoGhosts
  <2>1. m \in Serving /\ ReignInv(m)
    BY DEF Clean, ReignInv
  <2>2. b # m
    BY <2>1 DEF Clean, Steady, Serving, Active
  <2>3. r = Row(r.uuid, uuid(m)) /\ r.uuid \in made
    <3>1. r.runtime_uuid = uuid(m)
      BY <2>1, <2>2 DEF ReignInv, Holdings
    <3>2. r \in RowsOf(made)
      BY <2>1, NodeTypes DEF ReignInv, Sofias
    <3>3. QED
      BY <3>1, <3>2 DEF RowsOf, Row
  <2>4. \A n \in Nodes : ToSet(inbox[n]) = {} /\ ToSet(sofia[n].events) = {}
    BY DEF AtRest, ToSet
  <2>5. ~Fading(m, b, r)
    BY <2>4 DEF Fading, Has
  <2>6. Names(b) = Names(m)
    BY <2>2 DEF Clean, AllFading, Names
  <2>7. r.uuid \in sofia[m].calls
    BY <2>2, <2>3, <2>5, <2>6 DEF Clean, AllFading
  <2>8. QED
    BY <2>1, <2>7
<1>4. QED
  BY <1>1, <1>2, <1>3, ViewInvariant, PTL DEF Spec

=============================================================================
