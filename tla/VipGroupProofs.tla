--------------------------- MODULE VipGroupProofs ---------------------------
(***************************************************************************)
(* What holds of VipGroup for every set of nodes, every configuration and  *)
(* any number of environment events: the types, the soundness of every     *)
(* priority list, the agreement of device and state, that a pending        *)
(* rollback waits for the head of the list, and what the nodes of a group  *)
(* know of one another and of the one that is to serve next.               *)
(*                                                                         *)
(* Of two nodes, the installation mod_cpg was written for, that are never  *)
(* cut off from each other: that they never serve the address both,        *)
(* whatever stops, starts, unloads and crashes in whatever order, that     *)
(* they implement FloatingIp, and that two of one priority do not stay. Of *)
(* three nodes the first is false (the run two_masters), and of two that   *)
(* are cut off, where each takes the other for dead. The last needs that a *)
(* start finds nothing of the last run on its list (the run                *)
(* stale_duplicate).                                                       *)
(***************************************************************************)
EXTENDS VipGroup, VirtualIpProofs

-----------------------------------------------------------------------------
(* Type correctness, with sound lists: node_add and node_remove keep a     *)
(* list sound only if it was, so the two are proved together.              *)

(* The events of this model are events that a handler takes.               *)
LEMMA EventsAreGroupEvents == \A e \in Events : IsGroupEvent(e)
BY DEF Events, IsGroupEvent

(* What a handler sends, the peers can handle.                             *)
LEMMA MessagesAreEvents == Seq(StateMessages) \subseteq Seq(Events)
<1>1. StateMessages \subseteq Events
  BY DEF StateMessages, Events
<1>2. QED
  BY <1>1

SoundTypes == TypeOK /\ vip \in [Nodes -> SoundVips]

(* The events put in the inboxes are events.                               *)
LEMMA MulticastType ==
  ASSUME NEW box \in [Nodes -> Seq(Events)], NEW to, NEW events \in Seq(Events)
  PROVE  Multicast(box, to, events) \in [Nodes -> Seq(Events)]
<1>1. \A m \in Nodes : box[m] \o events \in Seq(Events)
  BY ConcatProperties
<1>2. QED
  BY <1>1 DEF Multicast

(* The peers are nodes.                                                    *)
LEMMA PeersType == \A n : Peers(n) \in SUBSET Nodes
BY DEF Peers, Joined

(* A departure leaves inboxes of events.                                   *)
LEMMA DepartureType ==
  ASSUME SoundTypes, NEW n \in Nodes
  PROVE  Departure(n) \in [Nodes -> Seq(Events)]
<1>1. <<Down(n, Peers(n))>> \in Seq(Events)
  BY PeersType DEF Down, Events
<1>2. Multicast(inbox, Peers(n), <<Down(n, Peers(n))>>) \in [Nodes -> Seq(Events)]
  BY <1>1, MulticastType DEF SoundTypes, TypeOK
<1>3. <<>> \in Seq(Events)
  BY EmptySeq
<1>4. QED
  BY <1>2, <1>3 DEF Departure

(* What the steps that several actions share do to the types.              *)
LEMMA SpendType ==
  ASSUME SoundTypes, NEW kind \in Kinds, Spend(kind)
  PROVE  spent' \in [Kinds -> Nat]
BY DEF SoundTypes, TypeOK, Spend

(* So does a start ...                                                     *)
LEMMA GoUpType ==
  ASSUME SoundTypes, NEW n \in Nodes, GoUp(n)
  PROVE  /\ vip' \in [Nodes -> SoundVips]
         /\ vip_thread' \in [Nodes -> {"none", "init", "running", "leaving"}]
<1>1. go_up(vip[n]) \in SoundVips
  BY DEF go_up, SoundVips, States, SoundTypes
<1>2. QED
  BY <1>1 DEF GoUp, SoundTypes, TypeOK

(* ... a stop ...                                                          *)
LEMMA BeginStopType ==
  ASSUME SoundTypes, NEW n \in Nodes,
         NEW who \in {"api", "arbiter", "rollback", "unload"}, BeginStop(n, who)
  PROVE  /\ vip' \in [Nodes -> SoundVips]
         /\ stopper' \in [Nodes -> {"none", "api", "arbiter", "rollback", "unload"}]
BY IdleVipIsSound DEF BeginStop, go_down, SoundTypes, TypeOK

(* ... and the end of a process.                                           *)
LEMMA ProcessEndsType ==
  ASSUME SoundTypes, NEW n \in Nodes, ProcessEnds(n)
  PROVE  /\ vip' \in [Nodes -> SoundVips]
         /\ vip_thread' \in [Nodes -> {"none", "init", "running", "leaving"}]
         /\ restarting' \in [Nodes -> BOOLEAN]
         /\ alive' \in [Nodes -> BOOLEAN]
         /\ inbox' \in [Nodes -> Seq(Events)]
<1>1. inbox' \in [Nodes -> Seq(Events)]
  BY DepartureType DEF ProcessEnds
<1>2. QED
  BY <1>1, IdleVipIsSound DEF ProcessEnds, SoundTypes, TypeOK

(* A callback, whatever the event, respects the contract.                  *)
LEMMA HandleEffect ==
  ASSUME SoundTypes, NEW n \in Nodes, Handle(n)
  PROVE  \E out \in Outcomes :
           /\ Contract(vip[n], ip[n], out)
           /\ vip' = [vip EXCEPT ![n] = out.vip]
           /\ ip' = [ip EXCEPT ![n] = out.ip]
           /\ inbox' = Multicast([inbox EXCEPT ![n] = Tail(@)], Group(n), out.sent)
           /\ spent' \in [Kinds -> Nat]
<1>1. /\ vip[n] \in SoundVips /\ ip[n] \in BOOLEAN
      /\ inbox[n] \in Seq(Events) /\ inbox[n] # <<>>
  BY DEF SoundTypes, TypeOK, Handle
<1>2. IsGroupEvent(Head(inbox[n]))
  <2>1. Head(inbox[n]) \in Events
    BY <1>1, HeadTailProperties
  <2>2. QED
    BY <2>1, EventsAreGroupEvents
<1>3. PICK works \in BOOLEAN :
        LET Outcome(w) == Dispatch(n, vip[n], ip[n], Head(inbox[n]), w)
        IN  /\ IF works THEN spent' = spent ELSE Spend("ip") /\ Outcome(FALSE) # Outcome(TRUE)
            /\ \E out \in {Outcome(works)} :
                 /\ vip' = [vip EXCEPT ![n] = out.vip]
                 /\ ip' = [ip EXCEPT ![n] = out.ip]
                 /\ inbox' = Multicast([inbox EXCEPT ![n] = Tail(@)], Group(n), out.sent)
  BY DEF Handle
<1> DEFINE out == Dispatch(n, vip[n], ip[n], Head(inbox[n]), works)
<1>4. Contract(vip[n], ip[n], out)
  BY <1>1, <1>2, DispatchContract
<1>5. out \in Outcomes
  BY <1>4 DEF Contract
<1>6. spent' \in [Kinds -> Nat]
  <2>1. spent' = spent \/ Spend("ip")
    BY <1>3
  <2>2. "ip" \in Kinds
    BY DEF Kinds
  <2>3. QED
    BY <2>1, <2>2, SpendType DEF SoundTypes, TypeOK
<1>7. QED
  BY <1>3, <1>4, <1>5, <1>6

(* So does a callback ...                                                  *)
LEMMA HandleType ==
  ASSUME SoundTypes, NEW n \in Nodes, Handle(n)
  PROVE  SoundTypes'
<1>1. PICK out \in Outcomes :
        /\ vip' = [vip EXCEPT ![n] = out.vip]
        /\ ip' = [ip EXCEPT ![n] = out.ip]
        /\ inbox' = Multicast([inbox EXCEPT ![n] = Tail(@)], Group(n), out.sent)
        /\ spent' \in [Kinds -> Nat]
  BY HandleEffect
<1>2. out.vip \in SoundVips /\ out.ip \in BOOLEAN /\ out.sent \in Seq(Events)
  BY MessagesAreEvents DEF Outcomes
<1>3. Tail(inbox[n]) \in Seq(Events)
  BY HeadTailProperties DEF Handle, SoundTypes, TypeOK
<1>4. inbox' \in [Nodes -> Seq(Events)]
  <2>1. [inbox EXCEPT ![n] = Tail(@)] \in [Nodes -> Seq(Events)]
    BY <1>3 DEF SoundTypes, TypeOK
  <2>2. QED
    BY <1>1, <1>2, <2>1, MulticastType
<1>5. vip' \in [Nodes -> SoundVips] /\ ip' \in [Nodes -> BOOLEAN]
  BY <1>1, <1>2 DEF SoundTypes, TypeOK
<1>6. QED
  BY <1>1, <1>4, <1>5, SoundVipsAreVips DEF SoundTypes, TypeOK, Handle

(* The configuration changes of a cut put events in the inboxes.           *)
LEMMA CutOffType ==
  ASSUME SoundTypes, NEW n \in Nodes, CutOff(n)
  PROVE  inbox' \in [Nodes -> Seq(Events)]
<1>1. PICK order \in SetToSeqs(Peers(n)) :
        inbox' = [Multicast(inbox, Peers(n), <<Down(n, Peers(n))>>) EXCEPT
                    ![n] = @ \o [i \in DOMAIN order |-> Down(order[i], {n})]]
  BY DEF CutOff
<1> DEFINE told == Multicast(inbox, Peers(n), <<Down(n, Peers(n))>>)
           lost == [i \in DOMAIN order |-> Down(order[i], {n})]
           len  == Cardinality(Peers(n))
<1>2. len \in Nat
  <2>1. Peers(n) \subseteq Nodes /\ IsFiniteSet(Nodes)
    BY PeersType, NodesAssumption
  <2>2. IsFiniteSet(Peers(n))
    BY <2>1, FS_Subset
  <2>3. QED
    BY <2>2, FS_CardinalityType
<1>3. <<Down(n, Peers(n))>> \in Seq(Events)
  BY PeersType DEF Down, Events
<1>4. told \in [Nodes -> Seq(Events)]
  BY <1>3, MulticastType DEF SoundTypes, TypeOK
<1>5. lost \in Seq(Events)
  <2>1. order \in [1..len -> Peers(n)]
    BY DEF SetToSeqs
  <2>2. \A i \in 1..len : Down(order[i], {n}) \in Events
    BY <2>1, PeersType DEF Down, Events
  <2>3. lost \in [1..len -> Events]
    BY <2>1, <2>2
  <2>4. QED
    BY <1>2, <2>3, SeqDef
<1> HIDE DEF told, lost
<1>6. inbox' = [told EXCEPT ![n] = @ \o lost]
  BY <1>1 DEF told, lost
<1>7. told[n] \o lost \in Seq(Events)
  BY <1>4, <1>5, ConcatProperties
<1>8. QED
  BY <1>4, <1>6, <1>7

(* ... the rest of vip_thread ...                                          *)
LEMMA VipThreadType ==
  ASSUME SoundTypes, NEW n \in Nodes, VipThread(n)
  PROVE  SoundTypes'
<1>1. CASE JoinGroup(n)
  <2> DEFINE group == IF n \in cut THEN {n} ELSE (Joined \ cut) \cup {n}
  <2>1. [vip[n] EXCEPT !.node_id = n] \in SoundVips
    <3>1. vip[n] \in SoundVips
      BY DEF SoundTypes
    <3>2. QED
      BY <3>1 DEF SoundVips, Ids
  <2>2. vip' \in [Nodes -> SoundVips]
    BY <1>1, <2>1 DEF JoinGroup, SoundTypes, TypeOK
  <2>3. <<Up(group)>> \in Seq(Events)
    BY DEF Up, Events, Joined
  <2>4. inbox' \in [Nodes -> Seq(Events)]
    BY <1>1, <2>3, MulticastType DEF JoinGroup, SoundTypes, TypeOK
  <2>5. QED
    BY <1>1, <2>2, <2>4, SoundVipsAreVips DEF JoinGroup, SoundTypes, TypeOK
<1>2. CASE InitFails(n)
  <2>1. spent' \in [Kinds -> Nat]
    BY <1>2, SpendType DEF InitFails, Kinds
  <2>2. QED
    BY <1>2, <2>1 DEF InitFails, SoundTypes, TypeOK
<1>3. CASE Handle(n)
  BY <1>3, HandleType
<1>4. CASE DispatchFails(n)
  <2>1. spent' \in [Kinds -> Nat]
    BY <1>4, SpendType DEF DispatchFails, Kinds
  <2>2. QED
    BY <1>4, <2>1 DEF DispatchFails, SoundTypes, TypeOK
<1>5. CASE LeaveGroup(n)
  <2>1. inbox' \in [Nodes -> Seq(Events)]
    BY <1>5, DepartureType DEF LeaveGroup
  <2>2. QED
    BY <1>5, <2>1 DEF LeaveGroup, SoundTypes, TypeOK
<1>6. QED
  BY <1>1, <1>2, <1>3, <1>4, <1>5 DEF VipThread

(* ... the console, the arbiter and the rollback timer ...                 *)
LEMMA ControlType ==
  ASSUME SoundTypes, NEW n \in Nodes, Control(n)
  PROVE  SoundTypes'
<1>1. CASE Start(n)
  <2>1. spent' \in [Kinds -> Nat]
    BY <1>1, SpendType DEF Start, Kinds
  <2>2. GoUp(n)
    BY <1>1 DEF Start
  <2>3. QED
    BY <1>1, <2>1, <2>2, GoUpType, SoundVipsAreVips DEF Start, SoundTypes, TypeOK
<1>2. CASE Stop(n)
  <2>1. spent' \in [Kinds -> Nat]
    BY <1>2, SpendType DEF Stop, Kinds
  <2>2. BeginStop(n, "api")
    BY <1>2 DEF Stop
  <2>3. QED
    BY <1>2, <2>1, <2>2, BeginStopType, SoundVipsAreVips DEF Stop, SoundTypes, TypeOK
<1>3. CASE StopReturns(n)
  BY <1>3, IdleVipIsSound, SoundVipsAreVips DEF StopReturns, SoundTypes, TypeOK
<1>4. CASE RollbackExpires(n)
  <2>1. BeginStop(n, "rollback")
    BY <1>4 DEF RollbackExpires
  <2>2. QED
    BY <1>4, <2>1, BeginStopType, SoundVipsAreVips DEF RollbackExpires, SoundTypes, TypeOK
<1>5. CASE RollbackRestarts(n)
  <2>1. /\ vip' \in [Nodes -> SoundVips]
        /\ vip_thread' \in [Nodes -> {"none", "init", "running", "leaving"}]
    BY <1>5, GoUpType DEF RollbackRestarts, SoundTypes, TypeOK
  <2>2. QED
    BY <1>5, <2>1, SoundVipsAreVips DEF RollbackRestarts, SoundTypes, TypeOK
<1>6. CASE ArbiterFails(n)
  <2>1. /\ vip' \in [Nodes -> SoundVips]
        /\ stopper' \in [Nodes -> {"none", "api", "arbiter", "rollback", "unload"}]
    BY <1>6, BeginStopType DEF ArbiterFails, SoundTypes, TypeOK
  <2>2. QED
    BY <1>6, <2>1, SoundVipsAreVips DEF ArbiterFails, SoundTypes, TypeOK
<1>7. CASE ArbiterRecovers(n)
  <2>1. /\ vip' \in [Nodes -> SoundVips]
        /\ vip_thread' \in [Nodes -> {"none", "init", "running", "leaving"}]
    BY <1>7, GoUpType DEF ArbiterRecovers, SoundTypes, TypeOK
  <2>2. QED
    BY <1>7, <2>1, SoundVipsAreVips DEF ArbiterRecovers, SoundTypes, TypeOK
<1>8. QED
  BY <1>1, <1>2, <1>3, <1>4, <1>5, <1>6, <1>7 DEF Control

(* ... and what happens to the process and its network.                    *)
LEMMA EnvironmentType ==
  ASSUME SoundTypes, NEW n \in Nodes, Environment(n)
  PROVE  SoundTypes'
<1>1. CASE Load(n)
  <2>1. spent' \in [Kinds -> Nat]
    BY <1>1, SpendType DEF Load, Kinds
  <2>2. /\ vip' \in [Nodes -> SoundVips]
        /\ vip_thread' \in [Nodes -> {"none", "init", "running", "leaving"}]
    BY <1>1, GoUpType DEF Load, SoundTypes, TypeOK
  <2>3. QED
    BY <1>1, <2>1, <2>2, SoundVipsAreVips DEF Load, SoundTypes, TypeOK
<1>2. CASE Crash(n)
  <2>1. spent' \in [Kinds -> Nat]
    BY <1>2, SpendType DEF Crash, Kinds
  <2>2. ProcessEnds(n)
    BY <1>2 DEF Crash
  <2>3. ip' \in [Nodes -> BOOLEAN]
    BY <1>2 DEF Crash, SoundTypes, TypeOK
  <2>4. QED
    BY <1>2, <2>1, <2>2, <2>3, ProcessEndsType, SoundVipsAreVips
    DEF Crash, SoundTypes, TypeOK
<1>3. CASE Unload(n)
  <2>1. spent' \in [Kinds -> Nat]
    BY <1>3, SpendType DEF Unload, Kinds
  <2>2. CASE /\ BeginStop(n, "unload")
             /\ UNCHANGED <<vip_thread, restarting, ip, alive, is_connected, inbox, cut>>
    BY <2>1, <2>2, BeginStopType, SoundVipsAreVips DEF SoundTypes, TypeOK
  <2>3. CASE ProcessEnds(n) /\ UNCHANGED <<stopper, ip, is_connected, cut>>
    BY <2>1, <2>3, ProcessEndsType, SoundVipsAreVips DEF SoundTypes, TypeOK
  <2>4. QED
    BY <1>3, <2>2, <2>3 DEF Unload
<1>4. CASE MonitorRemovesIp(n)
  BY <1>4 DEF MonitorRemovesIp, SoundTypes, TypeOK
<1>5. CASE CutOff(n)
  <2>1. spent' \in [Kinds -> Nat]
    BY <1>5, SpendType DEF CutOff, Kinds
  <2>2. inbox' \in [Nodes -> Seq(Events)]
    BY <1>5, CutOffType
  <2>3. QED
    BY <1>5, <2>1, <2>2 DEF CutOff, SoundTypes, TypeOK
<1>6. CASE Heal(n)
  <2> DEFINE group == (Joined \ cut) \cup {n}
  <2>1. <<Up(group)>> \in Seq(Events)
    BY DEF Up, Events, Joined
  <2>2. inbox' = Multicast(inbox, group, <<Up(group)>>) \/ inbox' = inbox
    BY <1>6 DEF Heal
  <2>3. inbox' \in [Nodes -> Seq(Events)]
    <3>1. inbox \in [Nodes -> Seq(Events)]
      BY DEF SoundTypes, TypeOK
    <3>2. Multicast(inbox, group, <<Up(group)>>) \in [Nodes -> Seq(Events)]
      BY <2>1, <3>1, MulticastType
    <3>3. QED
      BY <2>2, <3>1, <3>2
  <2>4. QED
    BY <1>6, <2>3 DEF Heal, SoundTypes, TypeOK
<1>7. QED
  BY <1>1, <1>2, <1>3, <1>4, <1>5, <1>6 DEF Environment

(* Every reachable state has these types and, whatever the order of the    *)
(* messages, lists in order of priority and free of duplicates: TypeOK     *)
(* with what it needs to be inductive.                                     *)
THEOREM SoundTypesInvariant == Spec => []SoundTypes
<1>1. Init => SoundTypes
  <2> SUFFICES ASSUME Init PROVE SoundTypes
    OBVIOUS
  <2>1. vip \in [Nodes -> SoundVips]
    BY IdleVipIsSound DEF Init
  <2>2. inbox \in [Nodes -> Seq(Events)]
    BY EmptySeq DEF Init
  <2>3. QED
    BY <2>1, <2>2, SoundVipsAreVips DEF Init, SoundTypes, TypeOK
<1>2. SoundTypes /\ [Next]_vars => SoundTypes'
  <2> SUFFICES ASSUME SoundTypes, [Next]_vars PROVE SoundTypes'
    OBVIOUS
  <2>1. CASE Next
    BY <2>1, VipThreadType, ControlType, EnvironmentType DEF Next
  <2>2. CASE UNCHANGED vars
    BY <2>2 DEF vars, SoundTypes, TypeOK
  <2>3. QED
    BY <2>1, <2>2
<1>3. QED
  BY <1>1, <1>2, PTL DEF Spec

(* Every variable keeps its type.                                          *)
THEOREM TypeCorrectness == Spec => []TypeOK
<1>1. SoundTypes => TypeOK
  BY DEF SoundTypes
<1>2. QED
  BY <1>1, SoundTypesInvariant, PTL

-----------------------------------------------------------------------------
(* Device and state.  IpMatchesRole is not inductive: a stop that returns  *)
(* takes the address off, so the node must not have become active again    *)
(* meanwhile, and the death of a process must leave nothing running.       *)

StoppedIsIdle ==
  \A n \in Nodes :
    /\ stopper[n] # "none" => vip[n].state = "IDLE"
    /\ ~alive[n] => vip[n].state = "IDLE" /\ stopper[n] = "none" /\ ~restarting[n]

DeviceInv == StoppedIsIdle /\ IpMatchesRole

(* vip_thread leaves the address where the role says.                      *)
LEMMA VipThreadDevice ==
  ASSUME SoundTypes, DeviceInv, NEW n \in Nodes, VipThread(n)
  PROVE  DeviceInv'
<1>1. CASE Handle(n)
  <2>1. PICK out \in Outcomes :
          /\ Contract(vip[n], ip[n], out)
          /\ vip' = [vip EXCEPT ![n] = out.vip]
          /\ ip' = [ip EXCEPT ![n] = out.ip]
    BY <1>1, HandleEffect
  <2>2. UNCHANGED <<stopper, restarting, alive>>
    BY <1>1 DEF Handle
  <2>3. /\ vip'[n] = out.vip /\ ip'[n] = out.ip
        /\ \A m \in Nodes \ {n} : vip'[m] = vip[m] /\ ip'[m] = ip[m]
    BY <2>1 DEF SoundTypes, TypeOK
  <2>4. StoppedIsIdle'
    BY <2>1, <2>2, <2>3 DEF DeviceInv, StoppedIsIdle, Contract
  <2>5. IpMatchesRole'
    <3> SUFFICES ASSUME NEW m \in Nodes
                 PROVE  /\ vip'[m].state \in Active => ip'[m]
                        /\ ip'[m] => \/ vip'[m].state \in Active
                                     \/ stopper'[m] # "none"
                                     \/ ~alive'[m]
      BY DEF IpMatchesRole
    <3>1. CASE m = n
      <4>1. /\ vip[n].state \in Active => ip[n]
            /\ ip[n] => vip[n].state \in Active \/ stopper[n] # "none" \/ ~alive[n]
        BY DEF DeviceInv, IpMatchesRole
      <4>2. /\ (vip[n].state \in Active => ip[n]) => (out.vip.state \in Active => out.ip)
            /\ out.ip => out.vip.state \in Active \/ (ip[n] /\ vip[n].state \notin Active)
        BY <2>1 DEF Contract
      <4>3. QED
        BY <2>2, <2>3, <3>1, <4>1, <4>2
    <3>2. CASE m # n
      BY <2>2, <2>3, <3>2 DEF DeviceInv, IpMatchesRole
    <3>3. QED
      BY <3>1, <3>2
  <2>6. QED
    BY <2>4, <2>5 DEF DeviceInv
<1>2. CASE JoinGroup(n)
  <2>1. \A m \in Nodes : vip'[m].state = vip[m].state
    BY <1>2 DEF JoinGroup, SoundTypes, TypeOK, Vips
  <2>2. UNCHANGED <<stopper, restarting, ip, alive>>
    BY <1>2 DEF JoinGroup
  <2>3. QED
    BY <2>1, <2>2 DEF DeviceInv, StoppedIsIdle, IpMatchesRole
<1>3. CASE InitFails(n) \/ DispatchFails(n) \/ LeaveGroup(n)
  <2>1. UNCHANGED <<vip, stopper, restarting, ip, alive>>
    BY <1>3 DEF InitFails, DispatchFails, LeaveGroup
  <2>2. QED
    BY <2>1 DEF DeviceInv, StoppedIsIdle, IpMatchesRole
<1>4. QED
  BY <1>1, <1>2, <1>3 DEF VipThread

(* A node that goes up was idle, and no go_down of its own was waiting.    *)
LEMMA GoUpDevice ==
  ASSUME SoundTypes, DeviceInv, NEW n \in Nodes, GoUp(n),
         alive'[n], ~ip[n], stopper[n] = "none",
         UNCHANGED <<stopper, ip>>,
         \A m \in Nodes \ {n} : alive'[m] = alive[m] /\ restarting'[m] = restarting[m]
  PROVE  DeviceInv'
<1>1. /\ vip'[n].state = "START"
      /\ \A m \in Nodes \ {n} : vip'[m] = vip[m]
  BY DEF GoUp, go_up, SoundTypes, TypeOK, Vips
<1>2. QED
  BY <1>1 DEF DeviceInv, StoppedIsIdle, IpMatchesRole, Active

(* A node that may start has no address on its device.                     *)
LEMMA CanGoUpDevice ==
  ASSUME SoundTypes, DeviceInv, NEW n \in Nodes, CanGoUp(n), alive[n]
  PROVE  stopper[n] = "none" /\ ~ip[n]
<1>1. vip[n].state \in States
  BY DEF SoundTypes, TypeOK, Vips
<1>2. vip[n].state = "IDLE"
  BY <1>1 DEF CanGoUp, table, States
<1>3. QED
  BY <1>2 DEF CanGoUp, DeviceInv, IpMatchesRole, Active

(* A stop that begins makes the node idle and leaves the address for its   *)
(* end.                                                                    *)
LEMMA BeginStopDevice ==
  ASSUME SoundTypes, DeviceInv, NEW n \in Nodes,
         NEW who \in {"api", "arbiter", "rollback", "unload"}, BeginStop(n, who),
         UNCHANGED <<restarting, ip, alive>>
  PROVE  DeviceInv'
<1>1. vip[n].state # "IDLE"
  BY DEF BeginStop, table
<1>2. alive[n]
  BY <1>1 DEF DeviceInv, StoppedIsIdle
<1>3. /\ vip'[n].state = "IDLE" /\ stopper'[n] = who /\ who # "none"
      /\ \A m \in Nodes \ {n} : vip'[m] = vip[m] /\ stopper'[m] = stopper[m]
  BY DEF BeginStop, go_down, IdleVip, SoundTypes, TypeOK
<1>4. QED
  BY <1>2, <1>3 DEF DeviceInv, StoppedIsIdle, IpMatchesRole, Active

(* So do the console, the arbiter and the rollback timer ...               *)
LEMMA ControlDevice ==
  ASSUME SoundTypes, DeviceInv, NEW n \in Nodes, Control(n)
  PROVE  DeviceInv'
<1>1. CASE Start(n)
  BY <1>1, CanGoUpDevice, GoUpDevice DEF Start
<1>2. CASE Stop(n)
  BY <1>2, BeginStopDevice DEF Stop
<1>3. CASE StopReturns(n)
  <2>1. stopper[n] # "none" /\ vip[n].state = "IDLE" /\ alive[n]
    BY <1>3 DEF StopReturns, DeviceInv, StoppedIsIdle
  <2>2. /\ vip'[n].state = "IDLE" /\ ~ip'[n] /\ stopper'[n] = "none"
        /\ alive'[n] = (stopper[n] # "unload")
        /\ stopper[n] = "unload" => ~restarting'[n]
        /\ \A m \in Nodes \ {n} : /\ vip'[m] = vip[m]
                                  /\ ip'[m] = ip[m] /\ stopper'[m] = stopper[m]
                                  /\ alive'[m] = alive[m] /\ restarting'[m] = restarting[m]
    BY <1>3, <2>1 DEF StopReturns, IdleVip, SoundTypes, TypeOK
  <2>3. StoppedIsIdle'
    BY <2>1, <2>2 DEF DeviceInv, StoppedIsIdle
  <2>4. IpMatchesRole'
    BY <2>1, <2>2 DEF DeviceInv, IpMatchesRole, Active
  <2>5. QED
    BY <2>3, <2>4 DEF DeviceInv
<1>4. CASE RollbackExpires(n)
  BY <1>4, BeginStopDevice DEF RollbackExpires
<1>5. CASE RollbackRestarts(n)
  <2>1. /\ restarting[n] /\ alive[n]
        /\ UNCHANGED <<stopper, ip, alive>>
        /\ \A m \in Nodes \ {n} : restarting'[m] = restarting[m]
    BY <1>5 DEF RollbackRestarts, DeviceInv, StoppedIsIdle, SoundTypes, TypeOK
  <2>2. CASE CanGoUp(n) /\ GoUp(n)
    BY <2>1, <2>2, CanGoUpDevice, GoUpDevice
  <2>3. CASE UNCHANGED <<vip, vip_thread>>
    BY <2>1, <2>3 DEF DeviceInv, StoppedIsIdle, IpMatchesRole
  <2>4. QED
    BY <1>5, <2>2, <2>3 DEF RollbackRestarts
<1>6. CASE ArbiterFails(n)
  <2>1. CASE BeginStop(n, "arbiter")
    BY <1>6, <2>1, BeginStopDevice DEF ArbiterFails
  <2>2. CASE UNCHANGED <<vip, stopper>>
    BY <1>6, <2>2 DEF ArbiterFails, DeviceInv, StoppedIsIdle, IpMatchesRole
  <2>3. QED
    BY <1>6, <2>1, <2>2 DEF ArbiterFails
<1>7. CASE ArbiterRecovers(n)
  <2>1. alive[n] /\ UNCHANGED <<stopper, restarting, ip, alive>>
    BY <1>7 DEF ArbiterRecovers
  <2>2. CASE CanGoUp(n) /\ GoUp(n)
    BY <2>1, <2>2, CanGoUpDevice, GoUpDevice
  <2>3. CASE UNCHANGED <<vip, vip_thread>>
    BY <2>1, <2>3 DEF DeviceInv, StoppedIsIdle, IpMatchesRole
  <2>4. QED
    BY <1>7, <2>2, <2>3 DEF ArbiterRecovers
<1>8. QED
  BY <1>1, <1>2, <1>3, <1>4, <1>5, <1>6, <1>7 DEF Control

(* ... and what happens to the process, its monitor and its network.       *)
LEMMA EnvironmentDevice ==
  ASSUME SoundTypes, DeviceInv, NEW n \in Nodes, Environment(n)
  PROVE  DeviceInv'
<1>1. CASE Load(n)
  <2>1. /\ ~ip[n] /\ stopper[n] = "none" /\ alive'[n]
        /\ UNCHANGED <<stopper, restarting, ip>>
        /\ \A m \in Nodes \ {n} : alive'[m] = alive[m]
    BY <1>1 DEF Load, DeviceInv, StoppedIsIdle, SoundTypes, TypeOK
  <2>2. CASE GoUp(n)
    BY <2>1, <2>2, GoUpDevice
  <2>3. CASE UNCHANGED <<vip, vip_thread>>
    BY <2>1, <2>3 DEF DeviceInv, StoppedIsIdle, IpMatchesRole
  <2>4. QED
    BY <1>1, <2>2, <2>3 DEF Load
<1>2. CASE Crash(n)
  <2>1. /\ vip'[n].state = "IDLE" /\ ~alive'[n] /\ ~restarting'[n]
        /\ \A m \in Nodes \ {n} : /\ vip'[m] = vip[m] /\ alive'[m] = alive[m]
                                  /\ restarting'[m] = restarting[m]
    BY <1>2 DEF Crash, ProcessEnds, IdleVip, SoundTypes, TypeOK
  <2>2. /\ stopper'[n] = "none"
        /\ \A m \in Nodes \ {n} : stopper'[m] = stopper[m] /\ ip'[m] = ip[m]
    BY <1>2 DEF Crash, SoundTypes, TypeOK
  <2>3. QED
    BY <2>1, <2>2 DEF DeviceInv, StoppedIsIdle, IpMatchesRole, Active
<1>3. CASE Unload(n)
  <2>1. CASE BeginStop(n, "unload") /\ UNCHANGED <<restarting, ip, alive>>
    BY <2>1, BeginStopDevice
  <2>2. CASE ProcessEnds(n) /\ UNCHANGED <<stopper, ip>>
    <3>1. /\ vip'[n].state = "IDLE" /\ ~alive'[n] /\ ~restarting'[n]
          /\ \A m \in Nodes \ {n} : /\ vip'[m] = vip[m] /\ alive'[m] = alive[m]
                                    /\ restarting'[m] = restarting[m]
      BY <2>2 DEF ProcessEnds, IdleVip, SoundTypes, TypeOK
    <3>2. stopper[n] = "none"
      BY <1>3 DEF Unload
    <3>3. QED
      BY <2>2, <3>1, <3>2 DEF DeviceInv, StoppedIsIdle, IpMatchesRole, Active
  <2>3. QED
    BY <1>3, <2>1, <2>2 DEF Unload
<1>4. CASE MonitorRemovesIp(n)
  <2>1. /\ ~alive[n] /\ ~ip'[n]
        /\ UNCHANGED <<vip, stopper, restarting, alive>>
        /\ \A m \in Nodes \ {n} : ip'[m] = ip[m]
    BY <1>4 DEF MonitorRemovesIp, SoundTypes, TypeOK
  <2>2. QED
    BY <2>1 DEF DeviceInv, StoppedIsIdle, IpMatchesRole, Active
<1>5. CASE CutOff(n) \/ Heal(n)
  <2>1. UNCHANGED <<vip, stopper, restarting, ip, alive>>
    BY <1>5 DEF CutOff, Heal
  <2>2. QED
    BY <2>1 DEF DeviceInv, StoppedIsIdle, IpMatchesRole
<1>6. QED
  BY <1>1, <1>2, <1>3, <1>4, <1>5 DEF Environment

(* Device, role and stop agree in every reachable state.                   *)
LEMMA DeviceInvariant == Spec => []DeviceInv
<1>1. Init => DeviceInv
  BY DEF Init, DeviceInv, StoppedIsIdle, IpMatchesRole, IdleVip, Active
<1>2. SoundTypes /\ DeviceInv /\ [Next]_vars => DeviceInv'
  <2> SUFFICES ASSUME SoundTypes, DeviceInv, [Next]_vars PROVE DeviceInv'
    OBVIOUS
  <2>1. CASE Next
    BY <2>1, VipThreadDevice, ControlDevice, EnvironmentDevice DEF Next
  <2>2. CASE UNCHANGED vars
    BY <2>2 DEF vars, DeviceInv, StoppedIsIdle, IpMatchesRole
  <2>3. QED
    BY <2>1, <2>2
<1>3. QED
  BY <1>1, <1>2, SoundTypesInvariant, PTL DEF Spec

(* The address is on the device of every node that is MASTER or RBACK, and *)
(* stays on another only until its stop returns or, after a crash, until   *)
(* fs_monitor comes round: act, react, go_down, crashes and reloads agree. *)
THEOREM DeviceMatchesRole == Spec => []IpMatchesRole
<1>1. DeviceInv => IpMatchesRole
  BY DEF DeviceInv
<1>2. QED
  BY <1>1, DeviceInvariant, PTL

-----------------------------------------------------------------------------
(* The pending rollback *)

(* Only a node that some other outranks is ever asked to roll back.        *)
MayRollBack(n) == n \in AutoRollback /\ \E m \in Nodes : Priority[m] > Priority[n]

PendingRollback(n, v) ==
  v.state = "RBACK" =>
    /\ MayRollBack(n)
    /\ v.rollback_node_id # NoNode =>
         /\ v.rollback_node_id = node_first(v.node_list)
         /\ Priority[v.rollback_node_id] > Priority[n]

RollbackInv == \A n \in Nodes : PendingRollback(n, vip[n])

(* The state machine keeps a rollback sound, provided it learns of every   *)
(* change of the head by a rollback request.                               *)
LEMMA TransactionRollback ==
  ASSUME NEW n \in Nodes, NEW v \in SoundVips, NEW onDevice \in BOOLEAN,
         NEW event \in EventNames, NEW works \in BOOLEAN,
         v.state = "MASTER" /\ event = "RBACK_REQ" =>
           MayRollBack(n) /\ Priority[node_first(v.node_list)] > Priority[n],
         v.state = "RBACK" =>
           /\ MayRollBack(n)
           /\ v.rollback_node_id # NoNode => Priority[v.rollback_node_id] > Priority[n],
         (/\ v.state = "RBACK" /\ v.rollback_node_id # NoNode
          /\ v.rollback_node_id # node_first(v.node_list)) => event = "RBACK_REQ"
  PROVE  PendingRollback(n, fsm_do_transaction(n, v, onDevice, event, works).vip)
<1> DEFINE action == table[event][v.state]
           out == fsm_do_transaction(n, v, onDevice, event, works)
<1> SUFFICES PendingRollback(n, out.vip)
  OBVIOUS
<1>1. v.state \in States
  BY DEF SoundVips
<1>2. /\ action \in ActionNames
      /\ action = "react" => v.state = "BACKUP"
      /\ action = "rback_stop" => v.state = "RBACK"
      /\ action = "rollback" => event = "RBACK_REQ" /\ v.state = "MASTER"
      /\ event = "RBACK_REQ" /\ v.state = "RBACK" => action = "rback_stop"
  BY <1>1, TableActions
<1> HIDE DEF action
<1>3. out = CASE action = "act"                    -> act(n, v, works)
              [] action = "react"                  -> react(n, v, onDevice, works)
              [] action \in {"nodeup", "backupup"} -> virtual_ip_send_state(n, v, onDevice)
              [] action = "observe"                -> Quiet(observe(v), onDevice)
              [] action = "rollback"               -> Quiet(rollback(v), onDevice)
              [] action = "rback_stop"             -> Quiet(rback_stop(v), onDevice)
              [] action = "go_down"                -> Quiet(go_down(v), FALSE)
              [] OTHER                             -> Quiet(v, onDevice)
  BY DEF fsm_do_transaction, action
<1> HIDE DEF out
<1>4. CASE action = "act"
  <2>1. out = act(n, v, works)
    BY <1>3, <1>4
  <2>2. QED
    BY <2>1, TakeOverContract, GoDownType DEF act, PendingRollback
<1>5. CASE action = "react"
  <2>1. out = react(n, v, onDevice, works)
    BY <1>3, <1>5
  <2>2. QED
    BY <1>2, <1>5, <2>1, TakeOverContract, QuietType DEF react, PendingRollback
<1>6. CASE action = "observe"
  <2>1. out.vip = observe(v)
    BY <1>3, <1>6 DEF Quiet
  <2>2. observe(v).state = "BACKUP"
    BY DEF observe, SoundVips
  <2>3. QED
    BY <2>1, <2>2 DEF PendingRollback
<1>7. CASE action = "rollback"
  <2>1. out.vip = rollback(v)
    BY <1>3, <1>7 DEF Quiet
  <2>2. v.state = "MASTER" /\ MayRollBack(n)
        /\ Priority[node_first(v.node_list)] > Priority[n]
    BY <1>2, <1>7
  <2>3. \/ rollback(v).state = "MASTER"
        \/ /\ rollback(v).rollback_node_id = node_first(v.node_list)
           /\ rollback(v).node_list = v.node_list
    BY <2>2 DEF rollback, SoundVips
  <2>4. QED
    BY <2>1, <2>2, <2>3 DEF PendingRollback
<1>8. CASE action = "rback_stop"
  <2>1. out.vip = rback_stop(v)
    BY <1>3, <1>8 DEF Quiet
  <2>2. \/ rback_stop(v).state = "MASTER"
        \/ /\ rback_stop(v) = v
           /\ v.rollback_node_id = node_first(v.node_list)
    BY DEF rback_stop, SoundVips
  <2>3. QED
    BY <1>2, <1>8, <2>1, <2>2 DEF PendingRollback
<1>9. CASE action = "go_down"
  <2>1. out = Quiet(go_down(v), FALSE)
    BY <1>3, <1>9
  <2>2. QED
    BY <2>1, GoDownType DEF PendingRollback
<1>10. CASE action \in {"go_up", "error", "dup_warn", "noop", "nodeup", "backupup"}
  <2>1. out = Quiet(v, onDevice) \/ out = virtual_ip_send_state(n, v, onDevice)
    BY <1>3, <1>10
  <2>2. out.vip = v
    BY <2>1, QuietType, SendStateType
  <2>3. v.state = "RBACK" => event # "RBACK_REQ"
    BY <1>2, <1>10
  <2>4. QED
    BY <2>2, <2>3 DEF PendingRollback
<1>11. QED
  BY <1>2, <1>4, <1>5, <1>6, <1>7, <1>8, <1>9, <1>10 DEF ActionNames

(* The fall of the target cancels the rollback, of another node does not   *)
(* change the head.                                                        *)
LEMMA NodeDownRollback ==
  ASSUME NEW n \in Nodes, NEW v \in SoundVips, NEW onDevice \in BOOLEAN,
         NEW nodeid \in Nodes, NEW works \in BOOLEAN, PendingRollback(n, v)
  PROVE  PendingRollback(n, fsm_input_node_down(n, v, onDevice, nodeid, works).vip)
<1> DEFINE event == IF v.master_id = nodeid THEN "MASTER_DOWN" ELSE "BACKUP_DOWN"
           left  == [v EXCEPT !.node_list = node_remove(@, nodeid),
                              !.rollback_node_id = IF @ = nodeid THEN NoNode ELSE @]
           out   == fsm_do_transaction(n, left, onDevice, event, works)
<1>1. event \in EventNames /\ event # "RBACK_REQ"
  BY DEF EventNames
<1>2. v.node_list \in NodeLists /\ node_remove(v.node_list, nodeid) \in NodeLists
  BY NodeRemoveKeepsNodeList DEF SoundVips
<1>3. /\ left \in SoundVips /\ left.state = v.state
      /\ left.node_list = node_remove(v.node_list, nodeid)
      /\ left.rollback_node_id # NoNode =>
           left.rollback_node_id = v.rollback_node_id /\ v.rollback_node_id # nodeid
  BY <1>2 DEF SoundVips, Ids
<1> HIDE DEF event, left
<1>4. left.state = "RBACK" =>
        /\ MayRollBack(n)
        /\ left.rollback_node_id # NoNode =>
             /\ Priority[left.rollback_node_id] > Priority[n]
             /\ left.rollback_node_id = node_first(left.node_list)
  BY <1>2, <1>3, NodeRemoveFirst DEF PendingRollback
<1>5. PendingRollback(n, out.vip)
  BY <1>1, <1>3, <1>4, TransactionRollback
<1>6. QED
  BY <1>5 DEF fsm_input_node_down, event, left

(* A message that puts its sender before the target is a new request.      *)
LEMMA NewStateMessageRollback ==
  ASSUME NEW n \in Nodes, NEW v \in SoundVips, NEW onDevice \in BOOLEAN,
         NEW msg, msg.nodeid \in Nodes, NEW works \in BOOLEAN, PendingRollback(n, v)
  PROVE  PendingRollback(n, fsm_input_new_state_message(n, v, onDevice, msg, works).vip)
<1> DEFINE heard == Recorded(v, msg)
           event == MessageEvent(n, heard, msg)
           out   == fsm_do_transaction(n, heard, onDevice, event, works)
<1>1. /\ v.node_list \in NodeLists
      /\ node_add(v.node_list, msg.nodeid) \in NodeLists
      /\ ToSet(node_add(v.node_list, msg.nodeid)) = ToSet(v.node_list) \cup {msg.nodeid}
  BY NodeAddKeepsNodeList DEF SoundVips
<1>2. /\ heard \in SoundVips /\ heard.state = v.state
      /\ heard.rollback_node_id = v.rollback_node_id
      /\ heard.node_list = node_add(v.node_list, msg.nodeid)
  BY <1>1 DEF Recorded, SoundVips, Ids
<1> HIDE DEF heard
<1>3. Priority[n] \in Int /\ Priority[msg.nodeid] \in Int
      /\ \A m \in Nodes : Priority[m] \in Int
  BY PriorityAssumption
<1>4. node_first(heard.node_list) \in Nodes
      /\ Priority[node_first(heard.node_list)] >= Priority[msg.nodeid]
  <2>1. heard.node_list \in Seq(Nodes) /\ heard.node_list # <<>>
    <3>1. heard.node_list \in Seq(Nodes)
      BY <1>1, <1>2 DEF NodeLists
    <3>2. msg.nodeid \in ToSet(heard.node_list)
      BY <1>1, <1>2
    <3>3. ToSet(<<>>) = {}
      BY DEF ToSet
    <3>4. QED
      BY <3>1, <3>2, <3>3
  <2>2. node_first(heard.node_list) \in ToSet(heard.node_list)
    BY <2>1, NodeFirstIsListed
  <2>3. ToSet(heard.node_list) \subseteq Nodes
    BY <2>1, LenProperties, ElementOfSeq DEF ToSet
  <2>4. QED
    BY <1>1, <1>2, <2>2, <2>3, NodeFirstIsHighest
<1>5. heard.state = "MASTER" /\ event = "RBACK_REQ" =>
        MayRollBack(n) /\ Priority[node_first(heard.node_list)] > Priority[n]
  <2>1. event = "RBACK_REQ" => MayRollBack(n) /\ Priority[msg.nodeid] > Priority[n]
    BY DEF MessageEvent, MayRollBack
  <2>2. QED
    BY <1>3, <1>4, <2>1
<1>6. heard.state = "RBACK" =>
        /\ MayRollBack(n)
        /\ heard.rollback_node_id # NoNode => Priority[heard.rollback_node_id] > Priority[n]
  BY <1>2 DEF PendingRollback
<1>7. (/\ heard.state = "RBACK" /\ heard.rollback_node_id # NoNode
       /\ heard.rollback_node_id # node_first(heard.node_list)) => event = "RBACK_REQ"
  <2> SUFFICES ASSUME heard.state = "RBACK", heard.rollback_node_id # NoNode,
                      heard.rollback_node_id # node_first(heard.node_list)
               PROVE  event = "RBACK_REQ"
    OBVIOUS
  <2>1. /\ v.rollback_node_id = node_first(v.node_list)
        /\ v.rollback_node_id # NoNode
        /\ Priority[v.rollback_node_id] > Priority[n]
        /\ MayRollBack(n)
    BY <1>2 DEF PendingRollback
  <2>2. v.node_list # <<>> /\ v.node_list \in Seq(Nodes)
    BY <1>1, <2>1 DEF node_first, NodeLists
  <2>3. node_first(heard.node_list) = msg.nodeid
    BY <1>1, <1>2, <2>1, <2>2, NodeAddFirst
  <2>4. v.rollback_node_id \in ToSet(heard.node_list) /\ v.rollback_node_id \in Nodes
    BY <1>1, <1>2, <2>1, <2>2, NodeFirstIsListed
  <2>5. Priority[msg.nodeid] >= Priority[v.rollback_node_id]
    BY <1>1, <1>2, <2>3, <2>4, NodeFirstIsHighest
  <2>6. Priority[msg.nodeid] > Priority[n]
    BY <1>3, <2>1, <2>4, <2>5
  <2>7. QED
    BY <1>3, <2>1, <2>6 DEF MessageEvent, IsDuplicate, Active, MayRollBack
<1>8. event \in EventNames \cup {"none"}
  BY DEF MessageEvent, EventNames
<1> HIDE DEF event
<1>9. CASE event = "none"
  <2>1. PendingRollback(n, heard)
    BY <1>6, <1>7, <1>9 DEF PendingRollback
  <2>2. Quiet(heard, onDevice).vip = heard
    BY <1>2, QuietType
  <2>3. QED
    BY <1>9, <2>1, <2>2 DEF fsm_input_new_state_message, heard, event
<1>10. CASE event \in EventNames
  <2>1. PendingRollback(n, out.vip)
    BY <1>2, <1>5, <1>6, <1>7, <1>10, TransactionRollback
  <2>2. event # "none"
    BY <1>10 DEF EventNames
  <2>3. QED
    BY <2>1, <2>2 DEF fsm_input_new_state_message, heard, event
<1>11. QED
  BY <1>8, <1>9, <1>10

(* Every callback keeps a pending rollback sound.                          *)
LEMMA DispatchRollback ==
  ASSUME NEW n \in Nodes, NEW v \in SoundVips, NEW onDevice \in BOOLEAN,
         NEW e \in Events, NEW works \in BOOLEAN, PendingRollback(n, v)
  PROVE  PendingRollback(n, Dispatch(n, v, onDevice, e, works).vip)
<1>1. CASE e \in [type : {"down"}, nodeid : Nodes, member_list : SUBSET Nodes]
  <2> DEFINE informed == [v EXCEPT !.member_list = e.member_list]
  <2>1. e.type = "down" /\ e.nodeid \in Nodes /\ e.member_list \in SUBSET Nodes
    BY <1>1
  <2>2. informed \in SoundVips /\ PendingRollback(n, informed)
    BY <2>1 DEF SoundVips, PendingRollback
  <2> HIDE DEF informed
  <2>3. PendingRollback(n, fsm_input_node_down(n, informed, onDevice, e.nodeid, works).vip)
    BY <2>1, <2>2, NodeDownRollback
  <2>4. Dispatch(n, v, onDevice, e, works)
          = fsm_input_node_down(n, informed, onDevice, e.nodeid, works)
    BY <2>1 DEF Dispatch, informed
  <2>5. QED
    BY <2>3, <2>4
<1>2. CASE e \in [type : {"up"}, member_list : SUBSET Nodes]
  <2> DEFINE informed == [v EXCEPT !.member_list = e.member_list]
  <2>1. e.type = "up" /\ e.member_list \in SUBSET Nodes
    BY <1>2
  <2>2. informed \in SoundVips /\ PendingRollback(n, informed)
    BY <2>1 DEF SoundVips, PendingRollback
  <2>3. "BACKUP_UP" \in EventNames /\ "BACKUP_UP" # "RBACK_REQ"
    BY DEF EventNames
  <2> HIDE DEF informed
  <2>4. PendingRollback(n, fsm_do_transaction(n, informed, onDevice, "BACKUP_UP", works).vip)
    BY <2>2, <2>3, TransactionRollback DEF PendingRollback
  <2>5. Dispatch(n, v, onDevice, e, works)
          = fsm_do_transaction(n, informed, onDevice, "BACKUP_UP", works)
    BY <2>1 DEF Dispatch, fsm_input_node_up, informed
  <2>6. QED
    BY <2>4, <2>5
<1>3. CASE e \in [type : {"state"}, nodeid : Nodes, state : States]
  <2>1. e.type = "state" /\ e.nodeid \in Nodes
    BY <1>3
  <2>2. Dispatch(n, v, onDevice, e, works)
          = fsm_input_new_state_message(n, v, onDevice, e, works)
    BY <2>1 DEF Dispatch
  <2>3. QED
    BY <2>1, <2>2, NewStateMessageRollback
<1>4. QED
  BY <1>1, <1>2, <1>3 DEF Events

(* What a step other than a callback does to the virtual_ip_t of its node. *)
LEMMA VipStep ==
  ASSUME SoundTypes, NEW n \in Nodes, VipThread(n) \/ Control(n) \/ Environment(n), ~Handle(n)
  PROVE  \/ UNCHANGED vip
         \/ vip' = [vip EXCEPT ![n].node_id = n]
         \/ vip' = [vip EXCEPT ![n] = go_up(@)]
         \/ vip' = [vip EXCEPT ![n] = IdleVip]
<1>1. CASE VipThread(n)
  BY <1>1 DEF VipThread, JoinGroup, InitFails, DispatchFails, LeaveGroup
<1>2. CASE Control(n)
  <2>1. CASE StopReturns(n)
    <3>1. vip' = [vip EXCEPT ![n] = IdleVip] \/ vip' = [vip EXCEPT ![n] = @]
      BY <2>1 DEF StopReturns
    <3>2. QED
      BY <3>1 DEF SoundTypes
  <2>2. CASE ~StopReturns(n)
    BY <1>2, <2>2 DEF Control, Start, Stop, RollbackExpires, RollbackRestarts,
                      ArbiterFails, ArbiterRecovers, GoUp, BeginStop, go_down
  <2>3. QED
    BY <2>1, <2>2
<1>3. CASE Environment(n)
  BY <1>3 DEF Environment, Load, Crash, Unload, MonitorRemovesIp, CutOff, Heal,
              GoUp, BeginStop, ProcessEnds, go_down
<1>4. QED
  BY <1>1, <1>2, <1>3

(* Every step leaves each node's virtual_ip_t alone as far as a rollback   *)
(* goes, takes it out of RBACK, or is a callback.                          *)
LEMMA RollbackStep ==
  ASSUME SoundTypes, RollbackInv, NEW n \in Nodes,
         VipThread(n) \/ Control(n) \/ Environment(n)
  PROVE  RollbackInv'
<1>1. CASE Handle(n)
  <2>1. /\ vip[n] \in SoundVips /\ ip[n] \in BOOLEAN
        /\ inbox[n] \in Seq(Events) /\ inbox[n] # <<>>
    BY <1>1 DEF SoundTypes, TypeOK, Handle
  <2>2. Head(inbox[n]) \in Events
    BY <2>1, HeadTailProperties
  <2>3. PICK works \in BOOLEAN :
          vip' = [vip EXCEPT ![n] = Dispatch(n, vip[n], ip[n], Head(inbox[n]), works).vip]
    BY <1>1 DEF Handle
  <2>4. PendingRollback(n, vip[n])
    BY DEF RollbackInv
  <2>5. PendingRollback(n, Dispatch(n, vip[n], ip[n], Head(inbox[n]), works).vip)
    BY <2>1, <2>2, <2>4, DispatchRollback
  <2>6. /\ vip'[n] = Dispatch(n, vip[n], ip[n], Head(inbox[n]), works).vip
        /\ \A m \in Nodes \ {n} : vip'[m] = vip[m]
    BY <2>3 DEF SoundTypes
  <2>7. QED
    <3> SUFFICES ASSUME NEW m \in Nodes PROVE PendingRollback(m, vip'[m])
      BY DEF RollbackInv
    <3>1. CASE m = n
      BY <2>5, <2>6, <3>1
    <3>2. CASE m # n
      BY <2>6, <3>2 DEF RollbackInv
    <3>3. QED
      BY <3>1, <3>2
<1>2. CASE ~Handle(n)
  <2>1. \/ UNCHANGED vip
        \/ vip' = [vip EXCEPT ![n].node_id = n]
        \/ vip' = [vip EXCEPT ![n] = go_up(@)]
        \/ vip' = [vip EXCEPT ![n] = IdleVip]
    BY <1>2, VipStep
  <2>2. PendingRollback(n, vip'[n])
    <3>1. PendingRollback(n, vip[n]) /\ vip[n] \in SoundVips
      BY DEF RollbackInv, SoundTypes
    <3>2. CASE UNCHANGED vip
      BY <3>1, <3>2
    <3>3. CASE vip' = [vip EXCEPT ![n].node_id = n]
      <4>1. vip'[n] = [vip[n] EXCEPT !.node_id = n]
        BY <3>3 DEF SoundTypes
      <4>2. QED
        BY <3>1, <4>1 DEF PendingRollback, SoundVips
    <3>4. CASE vip' = [vip EXCEPT ![n] = go_up(@)]
      <4>1. vip'[n].state = "START"
        BY <3>1, <3>4 DEF SoundTypes, SoundVips, go_up
      <4>2. QED
        BY <4>1 DEF PendingRollback
    <3>5. CASE vip' = [vip EXCEPT ![n] = IdleVip]
      <4>1. vip'[n].state = "IDLE"
        BY <3>5 DEF SoundTypes, IdleVip
      <4>2. QED
        BY <4>1 DEF PendingRollback
    <3>6. QED
      BY <2>1, <3>2, <3>3, <3>4, <3>5
  <2>3. \A m \in Nodes \ {n} : vip'[m] = vip[m]
    BY <2>1 DEF SoundTypes
  <2>4. QED
    BY <2>2, <2>3 DEF RollbackInv
<1>3. QED
  BY <1>1, <1>2

(* A pending rollback is sound in every reachable state.                   *)
LEMMA RollbackInvariant == Spec => []RollbackInv
<1>1. Init => RollbackInv
  BY DEF Init, RollbackInv, PendingRollback, IdleVip
<1>2. SoundTypes /\ RollbackInv /\ [Next]_vars => RollbackInv'
  <2> SUFFICES ASSUME SoundTypes, RollbackInv, [Next]_vars PROVE RollbackInv'
    OBVIOUS
  <2>1. CASE Next
    BY <2>1, RollbackStep DEF Next
  <2>2. CASE UNCHANGED vars
    BY <2>2 DEF vars, RollbackInv
  <2>3. QED
    BY <2>1, <2>2
<1>3. QED
  BY <1>1, <1>2, SoundTypesInvariant, PTL DEF Spec

(* With any number of nodes joining, leaving, crashing and cut off, a node *)
(* in RBACK waits for the node at the head of its list, which has a higher *)
(* priority than its own, or for none: rollback and rback_stop see to it.  *)
THEOREM RollbackWaitsForFirst == Spec => []RollbackTargetIsFirst
<1>1. RollbackInv => RollbackTargetIsFirst
  BY DEF RollbackInv, PendingRollback, RollbackTargetIsFirst
<1>2. QED
  BY <1>1, RollbackInvariant, PTL

-----------------------------------------------------------------------------
(* What a node v knows, and what its inbox is about to tell it.  Position  *)
(* 0 stands for what it has dispatched, position i for the i-th event of   *)
(* the inbox.                                                              *)

(* The positions at which v learns the members of its group ...            *)
ConfigAt(box, j) == j = 0 \/ box[j].type # "state"

(* ... and the members it learns there.                                    *)
MembersAt(v, box, j) == IF j = 0 THEN v.member_list ELSE box[j].member_list

(* m is listed, or about to be by its message at position i.               *)
NamedAt(v, box, i, m) ==
  IF i = 0 THEN m \in ToSet(v.node_list)
           ELSE box[i].type = "state" /\ box[i].nodeid = m

LostAt(box, p, m) == box[p].type = "down" /\ box[p].nodeid = m

OnlyOf(type, box, i, j) == \A q \in i..j : box[q].type = type

(* The last members v learns are those of the group.                       *)
EndsWithGroup(v, box, group) ==
  \A j \in 0..Len(box) :
    ConfigAt(box, j) /\ OnlyOf("state", box, j + 1, Len(box)) => MembersAt(v, box, j) = group

(* When a message is dispatched, its sender is a member.                   *)
SendersAreMembers(v, box) ==
  \A i \in 1..Len(box) : \A j \in 0..(i - 1) :
    box[i].type = "state" /\ ConfigAt(box, j) /\ OnlyOf("state", box, j + 1, i - 1) =>
      box[i].nodeid \in MembersAt(v, box, j)

(* A node once named is a member ever after, or its departure has come by  *)
(* then, or comes before any other event than departures.                  *)
NamedAreMembers(v, box) ==
  \A i \in 0..Len(box) : \A j \in i..Len(box) : \A m \in Nodes :
    NamedAt(v, box, i, m) /\ ConfigAt(box, j) =>
      \/ m \in MembersAt(v, box, j)
      \/ \E p \in (i + 1)..Len(box) :
           LostAt(box, p, m) /\ (p <= j \/ OnlyOf("down", box, j + 1, p))

(* A node named and never lost is in the group.                            *)
NamedStay(v, box, group) ==
  \A i \in 0..Len(box) : \A m \in Nodes :
    NamedAt(v, box, i, m) => m \in group \/ \E p \in (i + 1)..Len(box) : LostAt(box, p, m)

View(v, box, group) ==
  /\ EndsWithGroup(v, box, group)
  /\ SendersAreMembers(v, box)
  /\ NamedAreMembers(v, box)
  /\ NamedStay(v, box, group)

(* The positions of a longer inbox.                                        *)
LEMMA LongerInbox ==
  ASSUME NEW box \in Seq(Events), NEW more \in Seq(Events)
  PROVE  /\ box \o more \in Seq(Events)
         /\ Len(box) \in Nat /\ Len(more) \in Nat
         /\ Len(box \o more) = Len(box) + Len(more)
         /\ \A i \in 1..Len(box) : (box \o more)[i] = box[i]
         /\ \A i \in 1..Len(more) : (box \o more)[Len(box) + i] = more[i]
BY ConcatProperties, LenProperties

(* A message from a member of the group.                                   *)
LEMMA ViewOfMessage ==
  ASSUME NEW v, NEW box \in Seq(Events), NEW group, View(v, box, group),
         NEW e \in Events, e.type = "state", e.nodeid \in group
  PROVE  View(v, box \o <<e>>, group)
<1> DEFINE longer == box \o <<e>>
<1>1. /\ Len(box) \in Nat /\ Len(longer) = Len(box) + 1
      /\ \A i \in 1..Len(box) : longer[i] = box[i]
      /\ longer[Len(box) + 1] = e
  BY LongerInbox
<1> HIDE DEF longer
<1>2. EndsWithGroup(v, longer, group)
  BY <1>1 DEF View, EndsWithGroup, ConfigAt, OnlyOf, MembersAt
<1>3. SendersAreMembers(v, longer)
  <2> SUFFICES ASSUME NEW i \in 1..Len(longer), NEW j \in 0..(i - 1), longer[i].type = "state",
                      ConfigAt(longer, j), OnlyOf("state", longer, j + 1, i - 1)
               PROVE  longer[i].nodeid \in MembersAt(v, longer, j)
    BY DEF SendersAreMembers
  <2>1. /\ j \in 0..Len(box) /\ ConfigAt(box, j) /\ MembersAt(v, longer, j) = MembersAt(v, box, j)
        /\ OnlyOf("state", box, j + 1, i - 1)
    BY <1>1 DEF ConfigAt, MembersAt, OnlyOf
  <2>2. CASE i = Len(box) + 1
    BY <1>1, <2>1, <2>2 DEF View, EndsWithGroup
  <2>3. CASE i \in 1..Len(box)
    BY <1>1, <2>1, <2>3 DEF View, SendersAreMembers
  <2>4. QED
    BY <1>1, <2>2, <2>3
<1>4. NamedAreMembers(v, longer)
  BY <1>1 DEF View, NamedAreMembers, ConfigAt, OnlyOf, MembersAt, NamedAt, LostAt
<1>5. NamedStay(v, longer, group)
  BY <1>1 DEF View, NamedStay, NamedAt, LostAt
<1>6. QED
  BY <1>2, <1>3, <1>4, <1>5 DEF View, longer

(* The configuration in which nodes have joined, or the group has merged.  *)
LEMMA ViewOfUp ==
  ASSUME NEW v, NEW box \in Seq(Events), NEW group, View(v, box, group),
         NEW larger \in SUBSET Nodes, group \subseteq larger
  PROVE  View(v, box \o <<Up(larger)>>, larger)
<1> DEFINE longer == box \o <<Up(larger)>>
<1>1. /\ Len(box) \in Nat /\ Len(longer) = Len(box) + 1
      /\ \A i \in 1..Len(box) : longer[i] = box[i]
      /\ longer[Len(box) + 1].type = "up"
      /\ longer[Len(box) + 1].member_list = larger
  BY LongerInbox DEF Up, Events
<1> HIDE DEF longer
<1>2. EndsWithGroup(v, longer, larger)
  BY <1>1 DEF EndsWithGroup, ConfigAt, OnlyOf, MembersAt
<1>3. SendersAreMembers(v, longer)
  BY <1>1 DEF View, SendersAreMembers, ConfigAt, OnlyOf, MembersAt
<1>4. NamedStay(v, longer, larger)
  BY <1>1 DEF View, NamedStay, NamedAt, LostAt
<1>5. NamedAreMembers(v, longer)
  <2> SUFFICES ASSUME NEW i \in 0..Len(longer), NEW j \in i..Len(longer), NEW m \in Nodes,
                      NamedAt(v, longer, i, m), ConfigAt(longer, j)
               PROVE  \/ m \in MembersAt(v, longer, j)
                      \/ \E p \in (i + 1)..Len(longer) :
                           LostAt(longer, p, m) /\ (p <= j \/ OnlyOf("down", longer, j + 1, p))
    BY DEF NamedAreMembers
  <2>1. CASE j \in 0..Len(box)
    BY <1>1, <2>1 DEF View, NamedAreMembers, ConfigAt, OnlyOf, MembersAt, NamedAt, LostAt
  <2>2. CASE j = Len(longer)
    <3>1. MembersAt(v, longer, j) = larger
      BY <1>1, <2>2 DEF MembersAt
    <3>2. \A p \in (i + 1)..Len(longer) : p <= j
      BY <1>1, <2>2
    <3>3. QED
      BY <1>4, <3>1, <3>2 DEF NamedStay
  <2>3. QED
    BY <1>1, <2>1, <2>2
<1>6. QED
  BY <1>2, <1>3, <1>4, <1>5 DEF View, longer

(* One configuration after the other in which a node has left: all show    *)
(* the members that are left in the end.                                   *)
LEMMA ViewOfDowns ==
  ASSUME NEW v, NEW box \in Seq(Events), NEW group, View(v, box, group),
         NEW left, NEW downs \in Seq(Events),
         \A q \in 1..Len(downs) : downs[q].type = "down" /\ downs[q].member_list = left,
         \A m \in group : m \in left \/ \E q \in 1..Len(downs) : downs[q].nodeid = m,
         downs = <<>> => left = group
  PROVE  View(v, box \o downs, left)
<1> DEFINE longer == box \o downs
<1>1. /\ Len(box) \in Nat /\ Len(downs) \in Nat /\ Len(longer) = Len(box) + Len(downs)
      /\ \A i \in 1..Len(box) : longer[i] = box[i]
      /\ \A q \in 1..Len(downs) : longer[Len(box) + q] = downs[q]
  BY LongerInbox
<1>2. \A i \in (Len(box) + 1)..Len(longer) : longer[i].type = "down" /\ longer[i].member_list = left
  <2> SUFFICES ASSUME NEW i \in (Len(box) + 1)..Len(longer)
               PROVE  longer[i].type = "down" /\ longer[i].member_list = left
    OBVIOUS
  <2>1. i - Len(box) \in 1..Len(downs) /\ Len(box) + (i - Len(box)) = i
    BY <1>1
  <2>2. QED
    BY <1>1, <2>1
<1>3. \A m \in group :
        m \in left \/ \E p \in (Len(box) + 1)..Len(longer) : LostAt(longer, p, m)
  <2> SUFFICES ASSUME NEW m \in group, m \notin left
               PROVE  \E p \in (Len(box) + 1)..Len(longer) : LostAt(longer, p, m)
    OBVIOUS
  <2>1. PICK q \in 1..Len(downs) : downs[q].nodeid = m
    OBVIOUS
  <2>2. Len(box) + q \in (Len(box) + 1)..Len(longer) /\ longer[Len(box) + q] = downs[q]
    BY <1>1
  <2>3. QED
    BY <2>1, <2>2 DEF LostAt
<1>4. Len(downs) = 0 => left = group
  BY EmptySeq
<1> HIDE DEF longer
<1>5. EndsWithGroup(v, longer, left)
  <2> SUFFICES ASSUME NEW j \in 0..Len(longer), ConfigAt(longer, j),
                      OnlyOf("state", longer, j + 1, Len(longer))
               PROVE  MembersAt(v, longer, j) = left
    BY DEF EndsWithGroup
  <2>1. CASE Len(downs) = 0
    BY <1>1, <1>4, <2>1 DEF View, EndsWithGroup, ConfigAt, OnlyOf, MembersAt
  <2>2. CASE Len(downs) > 0
    <3>1. Len(longer) \in (Len(box) + 1)..Len(longer)
      BY <1>1, <2>2
    <3>2. j = Len(longer)
      <4>1. longer[Len(longer)].type # "state"
        BY <1>2, <3>1
      <4>2. Len(longer) \notin (j + 1)..Len(longer)
        BY <4>1 DEF OnlyOf
      <4>3. QED
        BY <1>1, <4>2
    <3>3. QED
      BY <1>1, <1>2, <3>1, <3>2 DEF MembersAt
  <2>3. QED
    BY <1>1, <2>1, <2>2
<1>6. SendersAreMembers(v, longer)
  <2> SUFFICES ASSUME NEW i \in 1..Len(longer), NEW j \in 0..(i - 1),
                      longer[i].type = "state", ConfigAt(longer, j),
                      OnlyOf("state", longer, j + 1, i - 1)
               PROVE  longer[i].nodeid \in MembersAt(v, longer, j)
    BY DEF SendersAreMembers
  <2>1. i \in 1..Len(box)
    BY <1>1, <1>2
  <2>2. \A q \in 1..i : longer[q] = box[q]
    BY <1>1, <2>1
  <2>3. ConfigAt(box, j) /\ OnlyOf("state", box, j + 1, i - 1)
    BY <2>1, <2>2 DEF ConfigAt, OnlyOf
  <2>4. box[i].nodeid \in MembersAt(v, box, j)
    BY <2>1, <2>2, <2>3 DEF View, SendersAreMembers
  <2>5. QED
    BY <2>1, <2>2, <2>4 DEF MembersAt
<1>7. ASSUME NEW i \in 0..Len(longer), NEW m \in Nodes, NamedAt(v, longer, i, m)
      PROVE  /\ i \in 0..Len(box) /\ NamedAt(v, box, i, m)
             /\ m \in group \/ \E p \in (i + 1)..Len(box) : LostAt(box, p, m)
  <2>1. i \in 0..Len(box)
    BY <1>1, <1>2, <1>7 DEF NamedAt
  <2>2. NamedAt(v, box, i, m)
    BY <1>1, <1>7, <2>1 DEF NamedAt
  <2>3. QED
    BY <2>1, <2>2 DEF View, NamedStay
<1>8. NamedStay(v, longer, left)
  BY <1>1, <1>3, <1>7 DEF NamedStay, LostAt
<1>9. NamedAreMembers(v, longer)
  <2> SUFFICES ASSUME NEW i \in 0..Len(longer), NEW j \in i..Len(longer), NEW m \in Nodes,
                      NamedAt(v, longer, i, m), ConfigAt(longer, j)
               PROVE  \/ m \in MembersAt(v, longer, j)
                      \/ \E p \in (i + 1)..Len(longer) :
                           LostAt(longer, p, m) /\ (p <= j \/ OnlyOf("down", longer, j + 1, p))
    BY DEF NamedAreMembers
  <2>1. i \in 0..Len(box) /\ NamedAt(v, box, i, m)
    BY <1>7
  <2>2. CASE j \in 0..Len(box)
    <3>1. \/ m \in MembersAt(v, box, j)
          \/ \E p \in (i + 1)..Len(box) :
               LostAt(box, p, m) /\ (p <= j \/ OnlyOf("down", box, j + 1, p))
      BY <1>1, <2>1, <2>2 DEF View, NamedAreMembers, ConfigAt
    <3>2. CASE m \in MembersAt(v, box, j)
      BY <1>1, <2>2, <3>2 DEF MembersAt
    <3>3. CASE m \notin MembersAt(v, box, j)
      <4>1. PICK p \in (i + 1)..Len(box) :
              LostAt(box, p, m) /\ (p <= j \/ OnlyOf("down", box, j + 1, p))
        BY <3>1, <3>3
      <4>2. p \in (i + 1)..Len(longer) /\ LostAt(longer, p, m)
        BY <1>1, <2>1, <4>1 DEF LostAt
      <4>3. OnlyOf("down", box, j + 1, p) => OnlyOf("down", longer, j + 1, p)
        <5>1. \A q \in (j + 1)..p : q \in 1..Len(box) /\ longer[q] = box[q]
          BY <1>1, <2>1, <2>2, <4>1
        <5>2. QED
          BY <5>1 DEF OnlyOf
      <4>4. QED
        BY <4>1, <4>2, <4>3
    <3>4. QED
      BY <3>2, <3>3
  <2>3. CASE j \in (Len(box) + 1)..Len(longer)
    <3>1. MembersAt(v, longer, j) = left
      BY <1>1, <1>2, <2>3 DEF MembersAt
    <3>2. CASE m \in left
      BY <3>1, <3>2
    <3>3. CASE m \in group /\ m \notin left
      <4>1. PICK p \in (Len(box) + 1)..Len(longer) : LostAt(longer, p, m)
        BY <1>3, <3>3
      <4>2. OnlyOf("down", longer, j + 1, p)
        BY <1>1, <1>2, <2>3 DEF OnlyOf
      <4>3. QED
        BY <1>1, <2>1, <4>1, <4>2
    <3>4. CASE m \notin group
      <4>1. PICK p \in (i + 1)..Len(box) : LostAt(box, p, m)
        BY <1>7, <3>4
      <4>2. QED
        BY <1>1, <2>1, <2>3, <4>1 DEF LostAt
    <3>5. QED
      BY <3>2, <3>3, <3>4
  <2>4. QED
    BY <1>1, <2>2, <2>3
<1>10. QED
  BY <1>5, <1>6, <1>8, <1>9 DEF View, longer

(* A node that has just joined, with an empty list.                        *)
LEMMA ViewOfNewcomer ==
  ASSUME NEW v, v.node_list = <<>>, NEW group \in SUBSET Nodes
  PROVE  View(v, <<Up(group)>>, group)
<1> DEFINE box == <<Up(group)>>
<1>1. Len(box) = 1 /\ box[1].type = "up" /\ box[1].member_list = group
  BY DEF Up
<1>2. ToSet(v.node_list) = {}
  BY DEF ToSet
<1> HIDE DEF box
<1>3. EndsWithGroup(v, box, group)
  BY <1>1 DEF EndsWithGroup, ConfigAt, OnlyOf, MembersAt
<1>4. SendersAreMembers(v, box)
  BY <1>1 DEF SendersAreMembers
<1>5. NamedAreMembers(v, box)
  BY <1>1, <1>2 DEF NamedAreMembers, NamedAt
<1>6. NamedStay(v, box, group)
  BY <1>1, <1>2 DEF NamedStay, NamedAt
<1>7. QED
  BY <1>3, <1>4, <1>5, <1>6 DEF View, box

(* A node that dispatches the head of its inbox: what it knows and what it *)
(* is about to hear still fit.                                             *)
LEMMA ViewOfDispatch ==
  ASSUME NEW v, NEW w, NEW box \in Seq(Events), box # <<>>, NEW group, View(v, box, group),
         Tracks(v, Head(box), w)
  PROVE  View(w, Tail(box), group)
<1> DEFINE rest == Tail(box)
<1>1. /\ Len(box) \in Nat /\ Len(box) > 0 /\ Len(rest) = Len(box) - 1
      /\ \A i \in 1..Len(rest) : rest[i] = box[i + 1]
      /\ Head(box) = box[1]
  BY HeadTailProperties, EmptySeq, LenProperties
<1>2. box[1] \in Events /\ \A i \in 1..Len(box) : box[i].type \in {"down", "up", "state"}
  BY <1>1, ElementOfSeq DEF Events
<1> HIDE DEF rest
<1>3. \A j \in 0..Len(rest) : ConfigAt(rest, j) /\ (j > 0 \/ box[1].type # "state") =>
        ConfigAt(box, j + 1) /\ MembersAt(w, rest, j) = MembersAt(v, box, j + 1)
  BY <1>1 DEF ConfigAt, MembersAt, Tracks
<1>4. box[1].type = "state" => MembersAt(w, rest, 0) = MembersAt(v, box, 0)
  BY <1>1 DEF MembersAt, Tracks
<1>5. ASSUME NEW type, NEW j \in 0..Len(rest), NEW k \in 0..Len(rest)
      PROVE  /\ OnlyOf(type, rest, j + 1, k) <=> OnlyOf(type, box, j + 2, k + 1)
             /\ box[1].type = type /\ OnlyOf(type, rest, 1, k) => OnlyOf(type, box, 1, k + 1)
  <2>1. \A q \in 2..(k + 1) : q - 1 \in 1..Len(rest) /\ rest[q - 1] = box[q]
    BY <1>1
  <2>2. OnlyOf(type, rest, j + 1, k) => OnlyOf(type, box, j + 2, k + 1)
    BY <2>1 DEF OnlyOf
  <2>3. OnlyOf(type, box, j + 2, k + 1) => OnlyOf(type, rest, j + 1, k)
    BY <1>1 DEF OnlyOf
  <2>4. box[1].type = type /\ OnlyOf(type, rest, 1, k) => OnlyOf(type, box, 1, k + 1)
    BY <2>1 DEF OnlyOf
  <2>5. QED
    BY <2>2, <2>3, <2>4
<1>6. \A i \in 0..Len(rest), m \in Nodes :
        NamedAt(w, rest, i, m) =>
          \/ NamedAt(v, box, i + 1, m)
          \/ i = 0 /\ NamedAt(v, box, 0, m) /\ ~LostAt(box, 1, m)
  BY <1>1, <1>2 DEF NamedAt, Tracks, LostAt
<1>8. EndsWithGroup(w, rest, group)
  <2> SUFFICES ASSUME NEW j \in 0..Len(rest), ConfigAt(rest, j),
                      OnlyOf("state", rest, j + 1, Len(rest))
               PROVE  MembersAt(w, rest, j) = group
    BY DEF EndsWithGroup
  <2>1. CASE j > 0 \/ box[1].type # "state"
    BY <1>1, <1>3, <1>5, <2>1 DEF View, EndsWithGroup
  <2>2. CASE j = 0 /\ box[1].type = "state"
    BY <1>1, <1>4, <1>5, <2>2 DEF View, EndsWithGroup, ConfigAt
  <2>3. QED
    BY <2>1, <2>2
<1>9. SendersAreMembers(w, rest)
  <2> SUFFICES ASSUME NEW i \in 1..Len(rest), NEW j \in 0..(i - 1), rest[i].type = "state",
                      ConfigAt(rest, j), OnlyOf("state", rest, j + 1, i - 1)
               PROVE  rest[i].nodeid \in MembersAt(w, rest, j)
    BY DEF SendersAreMembers
  <2>1. rest[i] = box[i + 1] /\ i + 1 \in 1..Len(box)
    BY <1>1
  <2>2. CASE j > 0 \/ box[1].type # "state"
    BY <1>1, <1>3, <1>5, <2>1, <2>2 DEF View, SendersAreMembers
  <2>3. CASE j = 0 /\ box[1].type = "state"
    <3>1. OnlyOf("state", box, 1, i)
      <4>1. \A q \in 2..i : rest[q - 1] = box[q] /\ q - 1 \in 1..(i - 1)
        BY <1>1
      <4>2. \A q \in 2..i : box[q].type = "state"
        BY <2>3, <4>1 DEF OnlyOf
      <4>3. QED
        BY <2>3, <4>2 DEF OnlyOf
    <3>2. QED
      BY <1>1, <1>4, <2>1, <2>3, <3>1 DEF View, SendersAreMembers, ConfigAt
  <2>4. QED
    BY <2>2, <2>3
<1>10. NamedStay(w, rest, group)
  <2> SUFFICES ASSUME NEW i \in 0..Len(rest), NEW m \in Nodes, NamedAt(w, rest, i, m),
                      m \notin group
               PROVE  \E p \in (i + 1)..Len(rest) : LostAt(rest, p, m)
    BY DEF NamedStay
  <2>1. \E p \in (i + 2)..Len(box) : LostAt(box, p, m)
    <3>1. CASE NamedAt(v, box, i + 1, m)
      BY <1>1, <3>1 DEF View, NamedStay
    <3>2. CASE i = 0 /\ NamedAt(v, box, 0, m) /\ ~LostAt(box, 1, m)
      <4>1. PICK p \in 1..Len(box) : LostAt(box, p, m)
        BY <1>1, <3>2 DEF View, NamedStay
      <4>2. p # 1
        BY <3>2, <4>1
      <4>3. QED
        BY <1>1, <3>2, <4>1, <4>2
    <3>3. QED
      BY <1>6, <3>1, <3>2
  <2>2. PICK p \in (i + 2)..Len(box) : LostAt(box, p, m)
    BY <2>1
  <2>3. p - 1 \in (i + 1)..Len(rest) /\ rest[p - 1] = box[p]
    BY <1>1, <2>2
  <2>4. QED
    BY <2>2, <2>3 DEF LostAt
<1>11. NamedAreMembers(w, rest)
  <2> SUFFICES ASSUME NEW i \in 0..Len(rest), NEW j \in i..Len(rest), NEW m \in Nodes,
                      NamedAt(w, rest, i, m), ConfigAt(rest, j), m \notin MembersAt(w, rest, j)
               PROVE  \E p \in (i + 1)..Len(rest) :
                        LostAt(rest, p, m) /\ (p <= j \/ OnlyOf("down", rest, j + 1, p))
    BY DEF NamedAreMembers
  <2>1. \E p \in (i + 2)..Len(box) :
          LostAt(box, p, m) /\ (p <= j + 1 \/ OnlyOf("down", box, j + 2, p))
    <3>1. CASE j > 0 \/ box[1].type # "state"
      <4>1. ConfigAt(box, j + 1) /\ m \notin MembersAt(v, box, j + 1)
        BY <1>3, <3>1
      <4>2. CASE NamedAt(v, box, i + 1, m)
        BY <1>1, <4>1, <4>2 DEF View, NamedAreMembers
      <4>3. CASE i = 0 /\ NamedAt(v, box, 0, m) /\ ~LostAt(box, 1, m)
        <5>1. PICK p \in 1..Len(box) :
                LostAt(box, p, m) /\ (p <= j + 1 \/ OnlyOf("down", box, j + 2, p))
          BY <1>1, <4>1, <4>3 DEF View, NamedAreMembers
        <5>2. p # 1
          BY <4>3, <5>1
        <5>3. QED
          BY <1>1, <4>3, <5>1, <5>2
      <4>4. QED
        BY <1>6, <4>2, <4>3
    <3>2. CASE j = 0 /\ box[1].type = "state"
      <4>1. i = 0 /\ m \notin MembersAt(v, box, 0)
        BY <1>4, <3>2
      <4>2. ~NamedAt(v, box, 1, m)
        BY <1>1, <3>2, <4>1 DEF View, SendersAreMembers, NamedAt, ConfigAt, OnlyOf
      <4>3. NamedAt(v, box, 0, m)
        BY <1>6, <4>1, <4>2
      <4>4. PICK p \in 1..Len(box) : LostAt(box, p, m) /\ (p <= 0 \/ OnlyOf("down", box, 1, p))
        BY <1>1, <4>1, <4>3 DEF View, NamedAreMembers, ConfigAt
      <4>5. QED
        BY <3>2, <4>4 DEF OnlyOf
    <3>3. QED
      BY <3>1, <3>2
  <2>2. PICK p \in (i + 2)..Len(box) :
          LostAt(box, p, m) /\ (p <= j + 1 \/ OnlyOf("down", box, j + 2, p))
    BY <2>1
  <2>3. /\ p - 1 \in (i + 1)..Len(rest) /\ rest[p - 1] = box[p]
        /\ (p - 1) + 1 = p
        /\ p <= j + 1 => p - 1 <= j
    BY <1>1, <2>2
  <2>4. OnlyOf("down", box, j + 2, p) => OnlyOf("down", rest, j + 1, p - 1)
    <3>1. p - 1 \in 0..Len(rest)
      BY <1>1, <2>3
    <3>2. QED
      BY <1>5, <2>3, <3>1
  <2>5. LostAt(rest, p - 1, m)
    BY <2>2, <2>3 DEF LostAt
  <2>6. QED
    BY <2>2, <2>3, <2>4, <2>5
<1>12. QED
  BY <1>8, <1>9, <1>10, <1>11 DEF View, rest

(* m is listed, or will be, and its departure is not on its way.           *)
HeardOf(v, box, m) ==
  \E i \in 0..Len(box) :
    NamedAt(v, box, i, m) /\ \A p \in (i + 1)..Len(box) : ~LostAt(box, p, m)

UpPending(box) == \E i \in 1..Len(box) : box[i].type = "up"

(* Nothing but the departure of a node makes another forget it ...         *)
LEMMA HeardAndMore ==
  ASSUME NEW v, NEW box \in Seq(Events), NEW more \in Seq(Events), NEW m, HeardOf(v, box, m),
         \A q \in 1..Len(more) : ~LostAt(more, q, m)
  PROVE  HeardOf(v, box \o more, m)
<1> DEFINE longer == box \o more
<1>1. /\ Len(box) \in Nat /\ Len(more) \in Nat /\ Len(longer) = Len(box) + Len(more)
      /\ \A i \in 1..Len(box) : longer[i] = box[i]
      /\ \A i \in 1..Len(more) : longer[Len(box) + i] = more[i]
  BY LongerInbox
<1> HIDE DEF longer
<1>2. PICK i \in 0..Len(box) :
        NamedAt(v, box, i, m) /\ \A p \in (i + 1)..Len(box) : ~LostAt(box, p, m)
  BY DEF HeardOf
<1>3. i \in 0..Len(longer) /\ NamedAt(v, longer, i, m)
  BY <1>1, <1>2 DEF NamedAt
<1>4. ASSUME NEW p \in (i + 1)..Len(longer)
      PROVE  ~LostAt(longer, p, m)
  <2>1. CASE p \in 1..Len(box)
    BY <1>1, <1>2, <2>1 DEF LostAt
  <2>2. CASE p \notin 1..Len(box)
    <3>1. p - Len(box) \in 1..Len(more) /\ Len(box) + (p - Len(box)) = p
      BY <1>1, <1>2, <2>2
    <3>2. longer[p] = more[p - Len(box)]
      BY <1>1, <3>1
    <3>3. QED
      BY <3>1, <3>2 DEF LostAt
  <2>3. QED
    BY <2>1, <2>2
<1>5. QED
  BY <1>3, <1>4 DEF HeardOf, longer

(* ... and its message makes it known.                                     *)
LEMMA HeardByMessage ==
  ASSUME NEW v, NEW box \in Seq(Events), NEW e \in Events, e.type = "state"
  PROVE  HeardOf(v, box \o <<e>>, e.nodeid)
<1> DEFINE longer == box \o <<e>>
<1>1. Len(box) \in Nat /\ Len(longer) = Len(box) + 1 /\ longer[Len(box) + 1] = e
  BY LongerInbox
<1> HIDE DEF longer
<1>2. NamedAt(v, longer, Len(longer), e.nodeid)
  BY <1>1 DEF NamedAt
<1>3. QED
  BY <1>1, <1>2 DEF HeardOf, longer

(* A node once heard of stays so as its message is dispatched.             *)
LEMMA HeardAndDispatched ==
  ASSUME NEW v, NEW w, NEW box \in Seq(Events), box # <<>>, NEW m, HeardOf(v, box, m),
         Tracks(v, Head(box), w)
  PROVE  HeardOf(w, Tail(box), m)
<1> DEFINE rest == Tail(box)
<1>1. /\ Len(box) \in Nat /\ Len(box) > 0 /\ Len(rest) = Len(box) - 1
      /\ \A i \in 1..Len(rest) : rest[i] = box[i + 1]
      /\ Head(box) = box[1]
  BY HeadTailProperties, EmptySeq, LenProperties
<1>2. box[1] \in Events /\ box[1].type \in {"down", "up", "state"}
  BY <1>1, ElementOfSeq DEF Events
<1> HIDE DEF rest
<1>3. PICK i \in 0..Len(box) :
        NamedAt(v, box, i, m) /\ \A p \in (i + 1)..Len(box) : ~LostAt(box, p, m)
  BY DEF HeardOf
<1>4. CASE i \in {0, 1}
  <2>1. NamedAt(w, rest, 0, m)
    BY <1>1, <1>2, <1>3, <1>4 DEF NamedAt, LostAt, Tracks
  <2>2. \A p \in 1..Len(rest) : ~LostAt(rest, p, m)
    BY <1>1, <1>3, <1>4 DEF LostAt
  <2>3. QED
    BY <1>1, <2>1, <2>2 DEF HeardOf, rest
<1>5. CASE i > 1
  <2>1. i - 1 \in 0..Len(rest) /\ NamedAt(w, rest, i - 1, m)
    BY <1>1, <1>3, <1>5 DEF NamedAt
  <2>2. \A p \in ((i - 1) + 1)..Len(rest) : ~LostAt(rest, p, m)
    BY <1>1, <1>3, <1>5 DEF LostAt
  <2>3. QED
    BY <2>1, <2>2 DEF HeardOf, rest
<1>6. QED
  BY <1>3, <1>4, <1>5

-----------------------------------------------------------------------------
(* The group *)

(* A node whose vip_thread dispatches and whose virtual IP is not stopped. *)
Follows(n) == vip_thread[n] = "running" /\ vip[n].state # "IDLE"

(* A node whose process is dead runs no thread, and a vip_thread joins as  *)
(* go_up left the state, unless the virtual IP was stopped meanwhile.      *)
ThreadsFit ==
  \A n \in Nodes : /\ ~alive[n] => vip_thread[n] = "none"
                   /\ vip_thread[n] = "init" => vip[n].state \in {"IDLE", "START"}

(* go_up finds the list of the virtual_ip_t empty.                         *)
StartsAfresh == \A n \in Nodes : vip_thread[n] = "init" => vip[n].node_list = <<>>

(* Nothing is delivered to a node outside the group.                       *)
OutsidersHearNothing == \A n \in Nodes : n \notin Joined => inbox[n] = <<>>

(* What a node knows fits what it is about to hear ...                     *)
ViewsFit == \A n \in Nodes : Follows(n) => View(vip[n], inbox[n], Group(n))

(* ... and it knows every other, or has it still to answer an "up".        *)
AllAreHeard ==
  \A n, m \in Nodes :
    Follows(n) /\ Follows(m) /\ m \in Group(n) =>
      HeardOf(vip[n], inbox[n], m) \/ UpPending(inbox[m])

MembershipInv == OutsidersHearNothing /\ ViewsFit /\ AllAreHeard

(* A node that dispatches is in the group.                                 *)
LEMMA FollowersJoined == \A n \in Nodes : Follows(n) => n \in Joined
BY DEF Follows, Joined

(* An "up" stays pending as the inbox grows.                               *)
LEMMA UpPendingMore ==
  ASSUME NEW box \in Seq(Events), NEW more \in Seq(Events), UpPending(box) \/ UpPending(more)
  PROVE  UpPending(box \o more)
<1>1. /\ Len(box) \in Nat /\ Len(more) \in Nat /\ Len(box \o more) = Len(box) + Len(more)
      /\ \A i \in 1..Len(box) : (box \o more)[i] = box[i]
      /\ \A i \in 1..Len(more) : (box \o more)[Len(box) + i] = more[i]
  BY LongerInbox
<1>2. CASE UpPending(box)
  BY <1>1, <1>2 DEF UpPending
<1>3. CASE UpPending(more)
  <2>1. PICK i \in 1..Len(more) : more[i].type = "up"
    BY <1>3 DEF UpPending
  <2>2. Len(box) + i \in 1..Len(box \o more) /\ (box \o more)[Len(box) + i] = more[i]
    BY <1>1
  <2>3. QED
    BY <2>1, <2>2 DEF UpPending
<1>4. QED
  BY <1>2, <1>3

(* An "up" just sent is pending.                                           *)
LEMMA UpPendingNow ==
  ASSUME NEW box \in Seq(Events), NEW group \in SUBSET Nodes
  PROVE  UpPending(box \o <<Up(group)>>)
<1>1. <<Up(group)>> \in Seq(Events) /\ UpPending(<<Up(group)>>)
  BY DEF Up, Events, UpPending
<1>2. QED
  BY <1>1, UpPendingMore

(* What a step can be to the group: nothing at all, at most a stop ...     *)
QuietStep ==
  /\ UNCHANGED <<inbox, cut>>
  /\ Joined' = Joined
  /\ \A n \in Nodes : Follows(n)' => Follows(n) /\ vip'[n] = vip[n]

(* ... or x leaves it, or its process ends ...                             *)
DepartureStep(x) ==
  /\ inbox' = Departure(x)
  /\ cut' = cut
  /\ vip_thread' = [vip_thread EXCEPT ![x] = "none"]
  /\ \A n \in Nodes \ {x} : vip'[n] = vip[n]

(* ... or it is one of the four actions that are about the group.          *)
LEMMA StepShapes ==
  ASSUME SoundTypes, DeviceInv, ThreadsFit,
         NEW x \in Nodes, VipThread(x) \/ Control(x) \/ Environment(x)
  PROVE  /\ ThreadsFit'
         /\ \/ QuietStep \/ DepartureStep(x)
            \/ JoinGroup(x) \/ Handle(x) \/ CutOff(x) \/ Heal(x)
<1> USE DEF SoundTypes, TypeOK, ThreadsFit
<1>1. CASE JoinGroup(x)
  BY <1>1 DEF JoinGroup
<1>2. CASE InitFails(x) \/ DispatchFails(x)
  <2>1. ThreadsFit'
    BY <1>2 DEF InitFails, DispatchFails
  <2>2. QuietStep
    BY <1>2 DEF InitFails, DispatchFails, QuietStep, Joined, Follows
  <2>3. QED
    BY <2>1, <2>2
<1>3. CASE Handle(x)
  <2>1. /\ vip_thread[x] = "running" /\ UNCHANGED <<vip_thread, alive>>
        /\ \E out : vip' = [vip EXCEPT ![x] = out]
    BY <1>3 DEF Handle
  <2>2. QED
    BY <1>3, <2>1
<1>4. CASE LeaveGroup(x)
  <2>1. ThreadsFit'
    BY <1>4 DEF LeaveGroup
  <2>2. DepartureStep(x)
    BY <1>4 DEF LeaveGroup, DepartureStep
  <2>3. QED
    BY <2>1, <2>2
<1>5. ASSUME UNCHANGED <<inbox, cut, vip, vip_thread>>,
             \A n \in Nodes : alive[n] /\ ~alive'[n] => vip_thread[n] = "none"
      PROVE  ThreadsFit' /\ QuietStep
  BY <1>5 DEF QuietStep, Joined, Follows
<1>6. ASSUME UNCHANGED <<inbox, cut, vip_thread>>, vip' = [vip EXCEPT ![x] = IdleVip],
             \A n \in Nodes : alive[n] /\ ~alive'[n] => vip_thread[n] = "none"
      PROVE  ThreadsFit' /\ QuietStep
  BY <1>6 DEF QuietStep, Joined, Follows, IdleVip
<1>7. ASSUME UNCHANGED <<inbox, cut>>, vip_thread[x] = "none", GoUp(x), alive'[x],
             \A n \in Nodes \ {x} : alive'[n] = alive[n]
      PROVE  ThreadsFit' /\ QuietStep
  BY <1>7 DEF QuietStep, Joined, Follows, GoUp, go_up, Vips
<1>8. CASE Control(x)
  <2>1. UNCHANGED <<inbox, cut>>
    BY <1>8 DEF Control, Start, Stop, StopReturns, RollbackExpires, RollbackRestarts,
                ArbiterFails, ArbiterRecovers
  <2>2. CASE StopReturns(x)
    <3>1. /\ vip_thread[x] = "none" /\ vip_thread' = vip_thread
          /\ \A n \in Nodes \ {x} : alive'[n] = alive[n]
      BY <2>2 DEF StopReturns
    <3>2. vip' = vip \/ vip' = [vip EXCEPT ![x] = IdleVip]
      <4>1. vip' = [vip EXCEPT ![x] = IdleVip] \/ vip' = [vip EXCEPT ![x] = @]
        BY <2>2 DEF StopReturns
      <4>2. QED
        BY <4>1
    <3>3. \A n \in Nodes : alive[n] /\ ~alive'[n] => vip_thread[n] = "none"
      BY <3>1
    <3>4. QED
      BY <1>5, <1>6, <2>1, <3>1, <3>2, <3>3
  <2>3. CASE ~StopReturns(x)
    <3>1. \/ UNCHANGED <<vip, vip_thread>>
          \/ vip' = [vip EXCEPT ![x] = IdleVip] /\ vip_thread' = vip_thread
          \/ vip_thread[x] = "none" /\ GoUp(x)
      BY <1>8, <2>3 DEF Control, Start, Stop, RollbackExpires, RollbackRestarts,
         ArbiterFails, ArbiterRecovers, BeginStop, CanGoUp, go_down
    <3>2. alive' = alive
      BY <1>8, <2>3 DEF Control, Start, Stop, RollbackExpires, RollbackRestarts,
         ArbiterFails, ArbiterRecovers
    <3>3. GoUp(x) /\ vip_thread[x] = "none" => alive[x]
      BY <1>8, <2>3 DEF Control, Start, Stop, RollbackExpires, RollbackRestarts,
         ArbiterFails, ArbiterRecovers, BeginStop, GoUp, DeviceInv, StoppedIsIdle
    <3>4. QED
      BY <1>5, <1>6, <1>7, <2>1, <3>1, <3>2, <3>3
  <2>4. QED
    BY <2>2, <2>3
<1>9. CASE Load(x)
  <2>1. /\ vip_thread[x] = "none" /\ alive'[x]
        /\ \A n \in Nodes \ {x} : alive'[n] = alive[n]
        /\ GoUp(x) \/ UNCHANGED <<vip, vip_thread>>
        /\ UNCHANGED <<inbox, cut>>
    BY <1>9 DEF Load
  <2>2. QED
    BY <1>5, <1>7, <2>1
<1>10. CASE Crash(x) \/ (Unload(x) /\ ProcessEnds(x))
  <2>1. ProcessEnds(x) /\ cut' = cut
    BY <1>10 DEF Crash, Unload
  <2>2. ThreadsFit' /\ DepartureStep(x)
    BY <2>1 DEF ProcessEnds, DepartureStep
  <2>3. QED
    BY <2>2
<1>11. CASE Unload(x) /\ ~ProcessEnds(x)
  <2>1. BeginStop(x, "unload") /\ UNCHANGED <<vip_thread, alive, inbox, cut>>
    BY <1>11 DEF Unload
  <2>2. QED
    BY <1>6, <2>1 DEF BeginStop, go_down
<1>12. CASE MonitorRemovesIp(x)
  BY <1>5, <1>12 DEF MonitorRemovesIp
<1>13. CASE CutOff(x) \/ Heal(x)
  <2>1. UNCHANGED <<vip, vip_thread, alive>>
    BY <1>13 DEF CutOff, Heal
  <2>2. QED
    BY <1>13, <2>1
<1>14. QED
  BY <1>1, <1>2, <1>3, <1>4, <1>8, <1>9, <1>10, <1>11, <1>12, <1>13
  DEF VipThread, Environment

(* Threads, processes and states fit in every reachable state.             *)
LEMMA ThreadsFitInvariant == Spec => []ThreadsFit
<1>1. Init => ThreadsFit
  BY DEF Init, ThreadsFit
<1>2. SoundTypes /\ DeviceInv /\ ThreadsFit /\ [Next]_vars => ThreadsFit'
  BY StepShapes DEF Next, vars, ThreadsFit
<1>3. QED
  BY <1>1, <1>2, SoundTypesInvariant, DeviceInvariant, PTL DEF Spec

(* Such steps leave what is known and pending alone.                       *)
LEMMA QuietMembership ==
  ASSUME SoundTypes, MembershipInv, QuietStep
  PROVE  MembershipInv'
<1> USE DEF QuietStep
<1>1. OutsidersHearNothing'
  BY DEF MembershipInv, OutsidersHearNothing
<1>2. \A n \in Nodes : Group(n)' = Group(n)
  BY DEF Group, Peers
<1>3. ViewsFit'
  BY <1>2 DEF MembershipInv, ViewsFit
<1>4. AllAreHeard'
  BY <1>2 DEF MembershipInv, AllAreHeard
<1>5. QED
  BY <1>1, <1>3, <1>4 DEF MembershipInv

(* x leaves the group, or its process ends.                                *)
LEMMA DepartureMembership ==
  ASSUME SoundTypes, MembershipInv, NEW x \in Nodes,
         DepartureStep(x)
  PROVE  MembershipInv'
<1> USE DEF DepartureStep
<1>1. Joined' = Joined \ {x} /\ ~Follows(x)'
  BY DEF Joined, Follows, SoundTypes, TypeOK
<1>2. \A n \in Nodes \ {x} : Follows(n)' <=> Follows(n)
  BY DEF Follows, SoundTypes, TypeOK
<1>3. inbox'[x] = <<>>
      /\ \A n \in Nodes \ {x} :
           inbox'[n] = IF n \in Peers(x) THEN inbox[n] \o <<Down(x, Peers(x))>> ELSE inbox[n]
  <2> DEFINE told == Multicast(inbox, Peers(x), <<Down(x, Peers(x))>>)
  <2>1. <<Down(x, Peers(x))>> \in Seq(Events)
    BY PeersType DEF Down, Events
  <2>2. told \in [Nodes -> Seq(Events)]
    BY <2>1, MulticastType DEF SoundTypes, TypeOK
  <2>3. \A n \in Nodes :
          told[n] = IF n \in Peers(x) THEN inbox[n] \o <<Down(x, Peers(x))>> ELSE inbox[n]
    BY DEF Multicast
  <2>4. inbox' = [told EXCEPT ![x] = <<>>]
    BY DEF Departure
  <2> HIDE DEF told
  <2>5. QED
    BY <2>2, <2>3, <2>4
<1>4. OutsidersHearNothing'
  BY <1>1, <1>3 DEF MembershipInv, OutsidersHearNothing, Peers
<1>6. ASSUME NEW n \in Nodes, Follows(n)'
      PROVE  /\ n # x /\ Follows(n) /\ n \in Joined
             /\ Group(n)' = Group(n) \ {x}
             /\ n \in Peers(x) => Group(n)' = Peers(x)
             /\ n \notin Peers(x) => Group(n)' = Group(n)
  <2>1. n # x /\ Follows(n) /\ n \in Joined
    BY <1>1, <1>2, <1>6, FollowersJoined
  <2>2. QED
    BY <1>1, <2>1 DEF Group, Peers
<1>7. ViewsFit'
  <2> SUFFICES ASSUME NEW n \in Nodes, Follows(n)'
               PROVE  View(vip'[n], inbox'[n], Group(n)')
    BY DEF ViewsFit
  <2>1. /\ n # x /\ vip'[n] = vip[n] /\ inbox[n] \in Seq(Events)
        /\ View(vip[n], inbox[n], Group(n))
    BY <1>6 DEF MembershipInv, ViewsFit, SoundTypes, TypeOK
  <2>2. CASE n \in Peers(x)
    <3> DEFINE downs == <<Down(x, Peers(x))>>
    <3>1. downs \in Seq(Events) /\ Len(downs) = 1 /\ downs # <<>>
          /\ downs[1].type = "down" /\ downs[1].nodeid = x /\ downs[1].member_list = Peers(x)
      BY PeersType DEF Down, Events
    <3> HIDE DEF downs
    <3>2. View(vip[n], inbox[n] \o downs, Peers(x))
      <4>1. \A m \in Group(n) : m \in Peers(x) \/ m = x
        BY <1>6, <2>2
      <4>2. QED
        BY <2>1, <3>1, <4>1, ViewOfDowns
    <3>3. QED
      BY <1>3, <1>6, <2>1, <2>2, <3>2 DEF downs
  <2>3. CASE n \notin Peers(x)
    BY <1>3, <1>6, <2>1, <2>3
  <2>4. QED
    BY <2>2, <2>3
<1>8. AllAreHeard'
  <2> SUFFICES ASSUME NEW n \in Nodes, NEW m \in Nodes, Follows(n)', Follows(m)', m \in Group(n)'
               PROVE  HeardOf(vip'[n], inbox'[n], m) \/ UpPending(inbox'[m])
    BY DEF AllAreHeard
  <2>1. /\ n # x /\ m # x /\ vip'[n] = vip[n]
        /\ inbox[n] \in Seq(Events) /\ inbox[m] \in Seq(Events)
        /\ HeardOf(vip[n], inbox[n], m) \/ UpPending(inbox[m])
    BY <1>6 DEF MembershipInv, AllAreHeard, SoundTypes, TypeOK
  <2> DEFINE downs == <<Down(x, Peers(x))>>
  <2>2. downs \in Seq(Events) /\ \A q \in 1..Len(downs) : ~LostAt(downs, q, m)
    BY <2>1, PeersType DEF Down, Events, LostAt
  <2> HIDE DEF downs
  <2>3. inbox'[n] \in {inbox[n], inbox[n] \o downs} /\ inbox'[m] \in {inbox[m], inbox[m] \o downs}
    BY <1>3, <2>1 DEF downs
  <2>4. QED
    BY <2>1, <2>2, <2>3, HeardAndMore, UpPendingMore
<1>9. QED
  BY <1>4, <1>7, <1>8 DEF MembershipInv

(* x joins: the group, x included, sees the new configuration.             *)
LEMMA JoinMembership ==
  ASSUME SoundTypes, MembershipInv, StartsAfresh, DeviceInv, NEW x \in Nodes, JoinGroup(x)
  PROVE  MembershipInv'
<1> DEFINE group == IF x \in cut THEN {x} ELSE (Joined \ cut) \cup {x}
<1>1. /\ inbox' = Multicast(inbox, group, <<Up(group)>>)
      /\ cut' = cut /\ alive' = alive /\ vip_thread[x] = "init"
      /\ vip_thread' = [vip_thread EXCEPT ![x] = IF vip[x].state = "IDLE" THEN "leaving"
                                                                     ELSE "running"]
      /\ vip' = [vip EXCEPT ![x].node_id = x]
  BY DEF JoinGroup
<1>2. group \in SUBSET Nodes /\ x \in group
  BY DEF Joined
<1>3. /\ x \notin Joined /\ Joined' = Joined \cup {x}
      /\ Follows(x)' => vip'[x].node_list = <<>>
      /\ \A n \in Nodes \ {x} : (Follows(n)' <=> Follows(n)) /\ vip'[n] = vip[n]
  BY <1>1 DEF Joined, Follows, StartsAfresh, SoundTypes, TypeOK, Vips
<1>4. \A n \in Nodes :
        inbox'[n] = IF n \in group THEN inbox[n] \o <<Up(group)>> ELSE inbox[n]
  BY <1>1 DEF Multicast
<1>5. OutsidersHearNothing'
  BY <1>1, <1>3, <1>4 DEF MembershipInv, OutsidersHearNothing
<1>7. ASSUME NEW n \in Nodes, n \in Joined'
      PROVE  /\ n \in group => Group(n)' = group
             /\ n \notin group => Group(n)' = Group(n) /\ n # x
             /\ n \in Joined /\ n \in group => Group(n) \subseteq group
  BY <1>1, <1>3, <1>7 DEF Group, Peers
<1>8. ASSUME NEW n \in Nodes, NEW m \in Nodes, n \in Joined', m \in Joined', m \in Group(n)',
             m \notin group
      PROVE  n \notin group
  BY <1>7, <1>8
<1> HIDE DEF group
<1>9. ViewsFit'
  <2> SUFFICES ASSUME NEW n \in Nodes, Follows(n)'
               PROVE  View(vip'[n], inbox'[n], Group(n)')
    BY DEF ViewsFit
  <2>1. n \in Joined'
    BY DEF Follows, Joined
  <2>2. CASE n = x
    <3>1. inbox[x] = <<>>
      BY <1>3 DEF MembershipInv, OutsidersHearNothing
    <3>2. <<Up(group)>> \in Seq(Events)
      BY <1>2 DEF Up, Events
    <3>3. inbox'[x] = <<Up(group)>>
      BY <1>2, <1>4, <3>1, <3>2, ConcatEmptySeq
    <3>4. View(vip'[x], <<Up(group)>>, group)
      BY <1>2, <1>3, <2>2, ViewOfNewcomer
    <3>5. QED
      BY <1>2, <1>7, <2>1, <2>2, <3>3, <3>4
  <2>3. CASE n # x
    <3>1. /\ vip'[n] = vip[n] /\ inbox[n] \in Seq(Events) /\ n \in Joined
          /\ View(vip[n], inbox[n], Group(n))
      BY <1>3, <2>3, FollowersJoined DEF MembershipInv, ViewsFit, SoundTypes, TypeOK
    <3>2. CASE n \in group
      <4>1. View(vip[n], inbox[n] \o <<Up(group)>>, group)
        BY <1>2, <1>7, <2>1, <3>1, <3>2, ViewOfUp
      <4>2. QED
        BY <1>4, <1>7, <2>1, <3>1, <3>2, <4>1
    <3>3. CASE n \notin group
      BY <1>4, <1>7, <2>1, <3>1, <3>3
    <3>4. QED
      BY <3>2, <3>3
  <2>4. QED
    BY <2>2, <2>3
<1>10. AllAreHeard'
  <2> SUFFICES ASSUME NEW n \in Nodes, NEW m \in Nodes, Follows(n)', Follows(m)', m \in Group(n)'
               PROVE  HeardOf(vip'[n], inbox'[n], m) \/ UpPending(inbox'[m])
    BY DEF AllAreHeard
  <2>1. n \in Joined' /\ m \in Joined' /\ inbox[m] \in Seq(Events)
    BY DEF Follows, Joined, SoundTypes, TypeOK
  <2>2. CASE m \in group
    BY <1>2, <1>4, <2>1, <2>2, UpPendingNow
  <2>3. CASE m \notin group
    <3>1. n \notin group
      BY <1>8, <2>1, <2>3
    <3>2. n # x /\ m # x /\ m \in Group(n)
      BY <1>2, <1>7, <2>1, <2>3, <3>1
    <3>3. HeardOf(vip[n], inbox[n], m) \/ UpPending(inbox[m])
      BY <1>3, <3>2 DEF MembershipInv, AllAreHeard
    <3>4. QED
      BY <1>3, <1>4, <2>3, <3>1, <3>2, <3>3
  <2>4. QED
    BY <2>2, <2>3
<1>11. QED
  BY <1>5, <1>9, <1>10 DEF MembershipInv

(* x dispatches an event: it follows it, and tells the group its state     *)
(* when the event calls for that.                                          *)
LEMMA HandleMembership ==
  ASSUME SoundTypes, MembershipInv, NEW x \in Nodes, Handle(x)
  PROVE  MembershipInv'
<1>1. /\ vip[x] \in SoundVips /\ ip[x] \in BOOLEAN
      /\ inbox[x] \in Seq(Events) /\ inbox[x] # <<>>
      /\ vip_thread[x] = "running"
  BY DEF SoundTypes, TypeOK, Handle
<1>2. Head(inbox[x]) \in Events
  BY <1>1, HeadTailProperties
<1> DEFINE e == Head(inbox[x])
<1>3. PICK works \in BOOLEAN :
        LET out == Dispatch(x, vip[x], ip[x], e, works)
        IN  /\ vip' = [vip EXCEPT ![x] = out.vip]
            /\ inbox' = Multicast([inbox EXCEPT ![x] = Tail(@)], Group(x), out.sent)
  BY DEF Handle
<1> DEFINE out == Dispatch(x, vip[x], ip[x], e, works)
<1>4. Contract(vip[x], ip[x], out)
  BY <1>1, <1>2, DispatchContract, EventsAreGroupEvents
<1>5. /\ out.vip = IdleVip \/ Tracks(vip[x], e, out.vip)
      /\ out.sent = <<>> \/ \E s \in States : out.sent = <<StateMessage(x, s)>>
      /\ e.type = "up" /\ vip[x].state # "IDLE" =>
           \E s \in States : out.sent = <<StateMessage(x, s)>>
  BY <1>1, <1>2, DispatchTracks, EventsAreGroupEvents
<1>6. /\ vip' = [vip EXCEPT ![x] = out.vip]
      /\ inbox' = Multicast([inbox EXCEPT ![x] = Tail(@)], Group(x), out.sent)
  BY <1>3
<1> HIDE DEF out, e
<1>7. /\ Joined' = Joined /\ \A n \in Nodes : Group(n)' = Group(n)
      /\ vip_thread' = vip_thread /\ alive' = alive
  BY DEF Handle, Joined, Group, Peers
<1>8. /\ vip'[x] = out.vip
      /\ \A n \in Nodes \ {x} : vip'[n] = vip[n]
  BY <1>6 DEF SoundTypes
<1>9. /\ \A n \in Nodes : Follows(n)' => Follows(n)
      /\ Follows(x)' => Tracks(vip[x], e, out.vip)
  <2>1. Follows(x)' => Follows(x)
    BY <1>4, <1>7, <1>8 DEF Follows, Contract
  <2>2. \A n \in Nodes \ {x} : Follows(n)' => Follows(n)
    BY <1>7, <1>8 DEF Follows
  <2>3. Follows(x)' => out.vip # IdleVip
    BY <1>8 DEF Follows, IdleVip
  <2>4. QED
    BY <1>5, <2>1, <2>2, <2>3
<1>10. /\ \A s \in States : <<StateMessage(x, s)>> \in Seq(Events)
       /\ out.sent \in Seq(Events)
       /\ \A m \in Nodes : \A q \in 1..Len(out.sent) : ~LostAt(out.sent, q, m)
  <2>1. \A s \in States : /\ StateMessage(x, s) \in Events
                          /\ StateMessage(x, s).type = "state" /\ StateMessage(x, s).nodeid = x
    BY DEF StateMessage, Events
  <2>2. CASE out.sent = <<>>
    BY <2>1, <2>2, EmptySeq
  <2>3. CASE \E s \in States : out.sent = <<StateMessage(x, s)>>
    BY <2>1, <2>3 DEF LostAt
  <2>4. QED
    BY <1>5, <2>2, <2>3
<1> DEFINE box(n) == IF n = x THEN Tail(inbox[x]) ELSE inbox[n]
<1>11. \A n \in Nodes :
         /\ box(n) \in Seq(Events)
         /\ inbox'[n] = IF n \in Group(x) THEN box(n) \o out.sent ELSE box(n)
  <2>1. Tail(inbox[x]) \in Seq(Events)
    BY <1>1, HeadTailProperties
  <2>2. \A n \in Nodes : [inbox EXCEPT ![x] = Tail(@)][n] = box(n) /\ box(n) \in Seq(Events)
    BY <2>1 DEF SoundTypes, TypeOK
  <2>3. QED
    BY <1>6, <2>2 DEF Multicast
<1>12. OutsidersHearNothing'
  <2> SUFFICES ASSUME NEW n \in Nodes, n \notin Joined' PROVE inbox'[n] = <<>>
    BY DEF OutsidersHearNothing
  <2>1. n # x /\ n \notin Group(x) /\ inbox[n] = <<>>
    BY <1>1, <1>7 DEF Joined, Group, Peers, MembershipInv, OutsidersHearNothing
  <2>2. QED
    BY <1>11, <2>1
<1>14. ViewsFit'
  <2> SUFFICES ASSUME NEW n \in Nodes, Follows(n)'
               PROVE  View(vip'[n], inbox'[n], Group(n))
    BY <1>7 DEF ViewsFit
  <2>1. /\ Follows(n) /\ n \in Joined
        /\ View(vip[n], inbox[n], Group(n))
    BY <1>9, FollowersJoined DEF MembershipInv, ViewsFit
  <2>2. View(vip'[n], box(n), Group(n))
    <3>1. CASE n = x
      BY <1>1, <1>8, <1>9, <2>1, <3>1, ViewOfDispatch DEF e
    <3>2. CASE n # x
      BY <1>8, <2>1, <3>2
    <3>3. QED
      BY <3>1, <3>2
  <2>3. CASE n \in Group(x) /\ out.sent # <<>>
    <3>1. PICK s \in States : out.sent = <<StateMessage(x, s)>>
      BY <1>5, <2>3
    <3>2. x \in Group(n)
      BY <2>3 DEF Group, Peers
    <3>3. /\ StateMessage(x, s) \in Events /\ StateMessage(x, s).type = "state"
          /\ StateMessage(x, s).nodeid = x
      BY DEF StateMessage, Events
    <3>4. View(vip'[n], box(n) \o <<StateMessage(x, s)>>, Group(n))
      BY <1>11, <2>2, <3>2, <3>3, ViewOfMessage
    <3>5. QED
      BY <1>11, <2>3, <3>1, <3>4
  <2>4. CASE n \notin Group(x) \/ out.sent = <<>>
    <3>1. inbox'[n] = box(n)
      BY <1>11, <2>4, ConcatEmptySeq
    <3>2. QED
      BY <2>2, <3>1
  <2>5. QED
    BY <2>3, <2>4
<1>15. AllAreHeard'
  <2> SUFFICES ASSUME NEW n \in Nodes, NEW m \in Nodes, Follows(n)', Follows(m)', m \in Group(n)
               PROVE  HeardOf(vip'[n], inbox'[n], m) \/ UpPending(inbox'[m])
    BY <1>7 DEF AllAreHeard
  <2>1. Follows(n) /\ Follows(m) /\ (HeardOf(vip[n], inbox[n], m) \/ UpPending(inbox[m]))
    BY <1>9 DEF MembershipInv, AllAreHeard
  <2>2. CASE HeardOf(vip[n], inbox[n], m)
    <3>1. HeardOf(vip'[n], box(n), m)
      <4>1. CASE n = x
        BY <1>1, <1>8, <1>9, <2>2, <4>1, HeardAndDispatched DEF e
      <4>2. CASE n # x
        BY <1>8, <2>2, <4>2
      <4>3. QED
        BY <4>1, <4>2
    <3>2. HeardOf(vip'[n], box(n) \o out.sent, m)
      BY <1>10, <1>11, <3>1, HeardAndMore
    <3>3. QED
      BY <1>11, <3>1, <3>2
  <2>3. CASE UpPending(inbox[m]) /\ (m # x \/ e.type # "up")
    <3>1. UpPending(box(m))
      <4>1. CASE m = x
        <5>1. /\ e = inbox[x][1] /\ Len(inbox[x]) \in Nat
              /\ Len(Tail(inbox[x])) = Len(inbox[x]) - 1
              /\ \A i \in 1..Len(Tail(inbox[x])) : Tail(inbox[x])[i] = inbox[x][i + 1]
          BY <1>1, HeadTailProperties, LenProperties DEF e
        <5>2. PICK i \in 1..Len(inbox[x]) : inbox[x][i].type = "up"
          BY <2>3, <4>1 DEF UpPending
        <5>3. i - 1 \in 1..Len(Tail(inbox[x])) /\ Tail(inbox[x])[i - 1] = inbox[x][i]
          BY <2>3, <4>1, <5>1, <5>2
        <5>4. QED
          BY <4>1, <5>2, <5>3 DEF UpPending
      <4>2. CASE m # x
        BY <2>3, <4>2
      <4>3. QED
        BY <4>1, <4>2
    <3>2. UpPending(box(m) \o out.sent)
      BY <1>10, <1>11, <3>1, UpPendingMore
    <3>3. QED
      BY <1>11, <3>1, <3>2
  <2>4. CASE m = x /\ e.type = "up"
    <3>1. PICK s \in States : out.sent = <<StateMessage(x, s)>>
      BY <1>5, <2>1, <2>4 DEF Follows
    <3>2. n \in Group(x)
      BY <2>4 DEF Group, Peers
    <3>3. /\ StateMessage(x, s) \in Events /\ StateMessage(x, s).type = "state"
          /\ StateMessage(x, s).nodeid = x
      BY DEF StateMessage, Events
    <3>4. HeardOf(vip'[n], box(n) \o <<StateMessage(x, s)>>, StateMessage(x, s).nodeid)
      BY <1>11, <3>3, HeardByMessage
    <3>5. QED
      BY <1>11, <2>4, <3>1, <3>2, <3>3, <3>4
  <2>5. QED
    BY <2>1, <2>2, <2>3, <2>4
<1>16. QED
  BY <1>12, <1>14, <1>15 DEF MembershipInv

(* Two intervals from 1 with the same elements end alike.                  *)
LEMMA EqualIntervals ==
  ASSUME NEW a \in Nat, NEW b \in Nat, 1..a = 1..b
  PROVE  a = b
<1>1. Cardinality(1..a) = a
  BY FS_Interval
<1>2. Cardinality(1..b) = b
  BY FS_Interval
<1>3. QED
  BY <1>1, <1>2

(* x is cut off: the others lose it in one change, it loses them one after *)
(* the other.                                                              *)
LEMMA CutOffMembership ==
  ASSUME SoundTypes, MembershipInv, NEW x \in Nodes, CutOff(x)
  PROVE  MembershipInv'
<1>1. PICK order \in SetToSeqs(Peers(x)) :
        inbox' = [Multicast(inbox, Peers(x), <<Down(x, Peers(x))>>) EXCEPT
                    ![x] = @ \o [i \in DOMAIN order |-> Down(order[i], {x})]]
  BY DEF CutOff
<1> DEFINE told == Multicast(inbox, Peers(x), <<Down(x, Peers(x))>>)
           lost == [i \in DOMAIN order |-> Down(order[i], {x})]
           downs == <<Down(x, Peers(x))>>
           len  == Cardinality(Peers(x))
<1>2. x \notin Peers(x) /\ Peers(x) \in SUBSET Nodes
  BY PeersType DEF Peers
<1>3. len \in Nat /\ order \in [1..len -> Peers(x)]
      /\ \A m \in Peers(x) : \E i \in 1..len : order[i] = m
  <2>1. IsFiniteSet(Peers(x))
    BY <1>2, NodesAssumption, FS_Subset
  <2>2. len \in Nat
    BY <2>1, FS_CardinalityType
  <2>3. order \in Injection(1..len, Peers(x))
    BY DEF SetToSeqs, Injection, IsInjective
  <2>4. Cardinality(1..len) = len
    BY <2>2, FS_Interval
  <2>5. order \in Surjection(1..len, Peers(x))
    BY <2>1, <2>3, <2>4, FS_Injection
  <2>6. QED
    BY <2>2, <2>5 DEF Surjection
<1>4. /\ lost \in Seq(Events) /\ Len(lost) = len
      /\ \A q \in 1..Len(lost) : /\ lost[q].type = "down" /\ lost[q].member_list = {x}
                                 /\ lost[q].nodeid \in Peers(x)
      /\ \A m \in Peers(x) : \E q \in 1..Len(lost) : lost[q].nodeid = m
      /\ lost = <<>> => Peers(x) = {}
  <2>1. lost \in [1..len -> Events] /\ \A i \in 1..len : lost[i] = Down(order[i], {x})
    BY <1>2, <1>3 DEF Down, Events
  <2> HIDE DEF lost, len
  <2>2. lost \in Seq(Events) /\ Len(lost) = len
    <3>1. lost \in Seq(Events)
      BY <1>3, <2>1, SeqDef
    <3>2. DOMAIN lost = 1..Len(lost) /\ Len(lost) \in Nat
      BY <3>1, LenProperties
    <3>3. DOMAIN lost = 1..len
      BY <2>1
    <3>4. Len(lost) = len
      BY <1>3, <3>2, <3>3, EqualIntervals
    <3>5. QED
      BY <3>1, <3>4
  <2>3. QED
    BY <1>3, <2>1, <2>2, EmptySeq DEF Down
<1>5. /\ downs \in Seq(Events) /\ Len(downs) = 1 /\ downs # <<>>
      /\ downs[1].type = "down" /\ downs[1].nodeid = x /\ downs[1].member_list = Peers(x)
  BY <1>2 DEF Down, Events
<1>6. /\ inbox'[x] = inbox[x] \o lost
      /\ \A n \in Nodes \ {x} :
           inbox'[n] = IF n \in Peers(x) THEN inbox[n] \o downs ELSE inbox[n]
  <2>1. told \in [Nodes -> Seq(Events)]
    BY <1>5, MulticastType DEF SoundTypes, TypeOK
  <2>2. \A n \in Nodes :
          told[n] = IF n \in Peers(x) THEN inbox[n] \o downs ELSE inbox[n]
    BY DEF Multicast
  <2>3. inbox' = [told EXCEPT ![x] = @ \o lost]
    BY <1>1
  <2> HIDE DEF told, lost, downs
  <2>4. QED
    BY <1>2, <2>1, <2>2, <2>3
<1> HIDE DEF told, lost, downs, len
<1>7. /\ x \notin cut /\ cut' = cut \cup {x}
      /\ UNCHANGED <<vip, vip_thread, alive>> /\ Joined' = Joined
      /\ \A n \in Nodes : Follows(n)' <=> Follows(n)
  BY DEF CutOff, Joined, Follows
<1>8. OutsidersHearNothing'
  <2> SUFFICES ASSUME NEW n \in Nodes, n \notin Joined PROVE inbox'[n] = <<>>
    BY <1>7 DEF OutsidersHearNothing
  <2>1. inbox[n] = <<>> /\ n \notin Peers(x)
    BY DEF MembershipInv, OutsidersHearNothing, Peers
  <2>2. CASE n = x
    <3>1. Len(lost) = 0
      BY <1>3, <1>4, <2>2 DEF Peers, Joined
    <3>2. lost = <<>>
      BY <1>4, <3>1, EmptySeq
    <3>3. QED
      BY <1>6, <2>1, <2>2, <3>2, ConcatEmptySeq, EmptySeq
  <2>3. CASE n # x
    BY <1>6, <2>1, <2>3
  <2>4. QED
    BY <2>2, <2>3
<1>10. ASSUME NEW n \in Nodes, Follows(n)'
       PROVE  /\ Follows(n)
              /\ n = x => Group(n)' = {x} /\ Group(n) = Peers(x) \cup {x}
              /\ n # x => x \notin Group(n)' /\ Group(n)' \subseteq Group(n)
              /\ n \in Peers(x) => Group(n)' = Peers(x) /\ Group(n) \subseteq Peers(x) \cup {x}
              /\ n # x /\ n \notin Peers(x) => Group(n)' = Group(n)
  <2>1. Follows(n) /\ n \in Joined
    BY <1>7, <1>10, FollowersJoined
  <2>2. QED
    BY <1>7, <2>1 DEF Group, Peers
<1>11. ViewsFit'
  <2> SUFFICES ASSUME NEW n \in Nodes, Follows(n)'
               PROVE  View(vip'[n], inbox'[n], Group(n)')
    BY DEF ViewsFit
  <2>1. vip'[n] = vip[n] /\ inbox[n] \in Seq(Events) /\ View(vip[n], inbox[n], Group(n))
    BY <1>7, <1>10 DEF MembershipInv, ViewsFit, SoundTypes, TypeOK
  <2>2. CASE n = x
    <3>1. View(vip[n], inbox[n] \o lost, {x})
      <4>1. \A m \in Group(n) : m \in {x} \/ \E q \in 1..Len(lost) : lost[q].nodeid = m
        BY <1>4, <1>10, <2>2
      <4>2. lost = <<>> => {x} = Group(n)
        BY <1>4, <1>10, <2>2
      <4>3. \A q \in 1..Len(lost) : lost[q].type = "down" /\ lost[q].member_list = {x}
        BY <1>4
      <4>4. lost \in Seq(Events)
        BY <1>4
      <4>5. QED
        BY <2>1, <4>1, <4>2, <4>3, <4>4, ViewOfDowns
    <3>2. QED
      BY <1>6, <1>10, <2>1, <2>2, <3>1
  <2>3. CASE n \in Peers(x)
    <3>1. View(vip[n], inbox[n] \o downs, Peers(x))
      <4>1. \A m \in Group(n) : m \in Peers(x) \/ m = x
        BY <1>10, <2>3
      <4>2. QED
        BY <1>5, <2>1, <4>1, ViewOfDowns
    <3>2. QED
      BY <1>2, <1>6, <1>10, <2>1, <2>3, <3>1
  <2>4. CASE n # x /\ n \notin Peers(x)
    BY <1>6, <1>10, <2>1, <2>4
  <2>5. QED
    BY <2>2, <2>3, <2>4
<1>12. AllAreHeard'
  <2> SUFFICES ASSUME NEW n \in Nodes, NEW m \in Nodes, Follows(n)', Follows(m)', m \in Group(n)'
               PROVE  HeardOf(vip'[n], inbox'[n], m) \/ UpPending(inbox'[m])
    BY DEF AllAreHeard
  <2>1. /\ m \in Group(n)
        /\ n = x => m = x
        /\ n # x => m # x
    BY <1>10
  <2>2. /\ vip'[n] = vip[n] /\ inbox[n] \in Seq(Events) /\ inbox[m] \in Seq(Events)
        /\ HeardOf(vip[n], inbox[n], m) \/ UpPending(inbox[m])
    BY <1>7, <1>10, <2>1 DEF MembershipInv, AllAreHeard, SoundTypes, TypeOK
  <2>3. PICK more \in Seq(Events) :
          /\ inbox'[n] \in {inbox[n], inbox[n] \o more}
          /\ \A q \in 1..Len(more) : ~LostAt(more, q, m)
    <3>1. CASE n = x
      <4>1. \A q \in 1..Len(lost) : ~LostAt(lost, q, m)
        BY <1>2, <1>4, <2>1, <3>1 DEF LostAt
      <4>2. QED
        BY <1>4, <1>6, <3>1, <4>1
    <3>2. CASE n # x
      <4>1. \A q \in 1..Len(downs) : ~LostAt(downs, q, m)
        BY <1>5, <2>1, <3>2 DEF LostAt
      <4>2. QED
        BY <1>5, <1>6, <3>2, <4>1
    <3>3. QED
      BY <3>1, <3>2
  <2>4. \E tail \in Seq(Events) : inbox'[m] \in {inbox[m], inbox[m] \o tail}
    BY <1>4, <1>5, <1>6
  <2>5. QED
    BY <2>2, <2>3, <2>4, HeardAndMore, UpPendingMore
<1>13. QED
  BY <1>8, <1>11, <1>12 DEF MembershipInv

(* x is back, and merges with the others if both are there.                *)
LEMMA HealMembership ==
  ASSUME SoundTypes, MembershipInv, NEW x \in Nodes, Heal(x)
  PROVE  MembershipInv'
<1> DEFINE others == Joined \ cut
           group == others \cup {x}
           merged == x \in Joined /\ others # {}
<1>1. /\ x \in cut /\ cut' = cut \ {x}
      /\ UNCHANGED <<vip, vip_thread, alive>> /\ Joined' = Joined
      /\ \A n \in Nodes : Follows(n)' <=> Follows(n)
      /\ inbox' = IF merged THEN Multicast(inbox, group, <<Up(group)>>) ELSE inbox
  BY DEF Heal, Joined, Follows
<1>2. group \in SUBSET Nodes
  BY DEF Joined
<1>3. \A n \in Nodes :
        inbox'[n] = IF merged /\ n \in group THEN inbox[n] \o <<Up(group)>> ELSE inbox[n]
  BY <1>1 DEF Multicast
<1>4. OutsidersHearNothing'
  BY <1>1, <1>3 DEF MembershipInv, OutsidersHearNothing
<1>6. ASSUME NEW n \in Nodes, n \in Joined
      PROVE  /\ merged /\ n \in group => Group(n)' = group /\ Group(n) \subseteq group
             /\ ~(merged /\ n \in group) => Group(n)' = Group(n)
  BY <1>1, <1>6 DEF Group, Peers
<1>7. ASSUME NEW n \in Nodes, NEW m \in Nodes, n \in Joined, m \in Joined, m \in Group(n)',
             ~(merged /\ m \in group)
      PROVE  ~(merged /\ n \in group)
  BY <1>6, <1>7
<1> HIDE DEF others, group, merged
<1>8. ViewsFit'
  <2> SUFFICES ASSUME NEW n \in Nodes, Follows(n)'
               PROVE  View(vip'[n], inbox'[n], Group(n)')
    BY DEF ViewsFit
  <2>1. /\ vip'[n] = vip[n] /\ inbox[n] \in Seq(Events) /\ n \in Joined
        /\ View(vip[n], inbox[n], Group(n))
    BY <1>1, FollowersJoined DEF MembershipInv, ViewsFit, SoundTypes, TypeOK
  <2>2. CASE merged /\ n \in group
    <3>1. View(vip[n], inbox[n] \o <<Up(group)>>, group)
      BY <1>2, <1>6, <2>1, <2>2, ViewOfUp
    <3>2. QED
      BY <1>3, <1>6, <2>1, <2>2, <3>1
  <2>3. CASE ~(merged /\ n \in group)
    BY <1>3, <1>6, <2>1, <2>3
  <2>4. QED
    BY <2>2, <2>3
<1>9. AllAreHeard'
  <2> SUFFICES ASSUME NEW n \in Nodes, NEW m \in Nodes, Follows(n)', Follows(m)', m \in Group(n)'
               PROVE  HeardOf(vip'[n], inbox'[n], m) \/ UpPending(inbox'[m])
    BY DEF AllAreHeard
  <2>1. /\ Follows(n) /\ Follows(m) /\ n \in Joined /\ m \in Joined
        /\ vip'[n] = vip[n] /\ inbox[m] \in Seq(Events)
    BY <1>1, FollowersJoined DEF SoundTypes, TypeOK
  <2>2. CASE merged /\ m \in group
    BY <1>2, <1>3, <2>1, <2>2, UpPendingNow
  <2>3. CASE ~(merged /\ m \in group)
    <3>1. ~(merged /\ n \in group)
      BY <1>7, <2>1, <2>3
    <3>2. m \in Group(n)
      BY <1>6, <2>1, <3>1
    <3>3. HeardOf(vip[n], inbox[n], m) \/ UpPending(inbox[m])
      BY <2>1, <3>2 DEF MembershipInv, AllAreHeard
    <3>4. QED
      BY <1>3, <2>1, <2>3, <3>1, <3>3
  <2>4. QED
    BY <2>2, <2>3
<1>10. QED
  BY <1>4, <1>8, <1>9 DEF MembershipInv

(* Every step of a node keeps the invariant.                               *)
LEMMA MembershipStep ==
  ASSUME SoundTypes, DeviceInv, ThreadsFit, StartsAfresh, MembershipInv,
         NEW x \in Nodes, VipThread(x) \/ Control(x) \/ Environment(x)
  PROVE  MembershipInv'
BY StepShapes, QuietMembership, DepartureMembership, JoinMembership, HandleMembership,
   CutOffMembership, HealMembership

(* The invariant holds of every behaviour in which starts are fresh.       *)
LEMMA MembershipInvariant == Spec /\ []StartsAfresh => []MembershipInv
<1>1. Init => MembershipInv
  BY DEF Init, MembershipInv, OutsidersHearNothing, ViewsFit, AllAreHeard, Follows
<1>2. SoundTypes /\ DeviceInv /\ ThreadsFit /\ StartsAfresh /\ MembershipInv /\ [Next]_vars
        => MembershipInv'
  <2> SUFFICES ASSUME SoundTypes, DeviceInv, ThreadsFit, StartsAfresh, MembershipInv,
                      [Next]_vars
               PROVE  MembershipInv'
    OBVIOUS
  <2>1. CASE Next
    BY <2>1, MembershipStep DEF Next
  <2>2. CASE UNCHANGED vars
    <3>1. QuietStep
      BY <2>2 DEF vars, QuietStep, Joined, Follows
    <3>2. QED
      BY <3>1, QuietMembership
  <2>3. QED
    BY <2>1, <2>2
<1>3. QED
  BY <1>1, <1>2, SoundTypesInvariant, DeviceInvariant, ThreadsFitInvariant, PTL DEF Spec

(* With nothing left to dispatch, the running nodes list exactly those     *)
(* they can reach, however they joined, crashed, were cut off and came     *)
(* back, provided every start found the list empty.                        *)
THEOREM ListsAgree == Spec /\ []StartsAfresh => []QuiescentListsAgree
<1>1. SoundTypes /\ MembershipInv => QuiescentListsAgree
  <2> SUFFICES ASSUME SoundTypes, MembershipInv, Quiescent, NEW n \in Joined
               PROVE  vip[n].member_list = Group(n) /\ ToSet(vip[n].node_list) = Group(n)
    BY DEF QuiescentListsAgree
  <2>1. /\ n \in Nodes /\ \A m \in Joined : m \in Nodes /\ Follows(m) /\ inbox[m] = <<>>
    BY DEF Quiescent, Joined, Follows
  <2>2. View(vip[n], <<>>, Group(n)) /\ Len(<<>>) = 0
    BY <2>1 DEF MembershipInv, ViewsFit
  <2>3. vip[n].member_list = Group(n)
    BY <2>2 DEF View, EndsWithGroup, ConfigAt, OnlyOf, MembersAt
  <2>4. ToSet(vip[n].node_list) \subseteq Nodes
    <3>1. vip[n].node_list \in Seq(Nodes)
      BY <2>1 DEF SoundTypes, SoundVips, NodeLists
    <3>2. QED
      BY <3>1, LenProperties, ElementOfSeq DEF ToSet
  <2>5. ToSet(vip[n].node_list) \subseteq Group(n)
    BY <2>2, <2>4 DEF View, NamedStay, NamedAt
  <2>6. ASSUME NEW m \in Group(n)
        PROVE  m \in ToSet(vip[n].node_list)
    <3>1. m \in Joined /\ Follows(m)
      BY <2>1, <2>6 DEF Group, Peers
    <3>2. HeardOf(vip[n], <<>>, m) \/ UpPending(<<>>)
      BY <2>1, <2>6, <3>1 DEF MembershipInv, AllAreHeard
    <3>3. QED
      BY <2>2, <3>2 DEF HeardOf, UpPending, NamedAt
  <2>7. QED
    BY <2>3, <2>5, <2>6
<1>2. QED
  BY <1>1, SoundTypesInvariant, MembershipInvariant, PTL

PrioritiesDistinct == \A m, n \in Nodes : m # n => Priority[m] # Priority[n]

(* With m gone, the first of the list of a node m leaves behind is one of  *)
(* those nodes, of the highest priority among them.                        *)
LEMMA SuccessorIsHighest ==
  ASSUME SoundTypes, QuiescentListsAgree, Quiescent,
         NEW m \in Joined, NEW n \in Peers(m)
  PROVE  /\ Successor(n, m) \in Peers(m)
         /\ \A k \in Peers(m) : Priority[k] <= Priority[Successor(n, m)]
<1> DEFINE left == node_remove(vip[n].node_list, m)
<1>1. n \in Nodes /\ n \in Joined /\ Group(n) \ {m} = Peers(m)
  BY DEF Joined, Peers, Group
<1>2. vip[n].node_list \in NodeLists /\ ToSet(vip[n].node_list) = Group(n)
  BY <1>1 DEF SoundTypes, SoundVips, QuiescentListsAgree
<1>3. left \in NodeLists /\ left \in Seq(Nodes) /\ ToSet(left) = Peers(m)
  BY <1>1, <1>2, NodeRemoveKeepsNodeList DEF NodeLists
<1>4. left # <<>>
  <2>1. ToSet(<<>>) = {}
    BY EmptySeq DEF ToSet
  <2>2. QED
    BY <1>3, <2>1
<1>5. node_first(left) \in ToSet(left)
  BY <1>3, <1>4, NodeFirstIsListed
<1>6. ASSUME NEW k \in Peers(m)
      PROVE  Priority[k] <= Priority[node_first(left)]
  <2>1. k \in Nodes /\ node_first(left) \in Nodes
    BY <1>3, <1>5 DEF Joined, Peers
  <2>2. Priority[node_first(left)] >= Priority[k]
    BY <1>3, NodeFirstIsHighest
  <2>3. QED
    BY <2>1, <2>2, PriorityAssumption
<1>7. QED
  BY <1>3, <1>5, <1>6 DEF Successor

(* Where no two nodes have one priority, all that a member would leave     *)
(* behind expect the same one of them to take over, in whatever order each *)
(* has heard the others: for any number of nodes, through joins, stops,    *)
(* crashes, cuts and merges, provided every start found the list empty.    *)
(* Equals may stay in a group of three that lists them in different        *)
(* orders.                                                                 *)
THEOREM SuccessorIsAgreed ==
  ASSUME PrioritiesDistinct
  PROVE  Spec /\ []StartsAfresh => []OneSuccessor
<1>1. SoundTypes /\ QuiescentListsAgree => OneSuccessor
  <2> SUFFICES ASSUME SoundTypes, QuiescentListsAgree, Quiescent,
                      NEW m \in Joined, NEW n \in Peers(m), NEW k \in Peers(m)
               PROVE  /\ Successor(n, m) \in Peers(m)
                      /\ Priority[k] <= Priority[Successor(n, m)]
                      /\ Successor(k, m) = Successor(n, m)
    BY DEF OneSuccessor
  <2>1. /\ Successor(n, m) \in Peers(m)
        /\ \A l \in Peers(m) : Priority[l] <= Priority[Successor(n, m)]
    BY SuccessorIsHighest
  <2>2. /\ Successor(k, m) \in Peers(m)
        /\ \A l \in Peers(m) : Priority[l] <= Priority[Successor(k, m)]
    BY SuccessorIsHighest
  <2>3. Successor(n, m) \in Nodes /\ Successor(k, m) \in Nodes
    BY <2>1, <2>2 DEF Joined, Peers
  <2>4. Priority[Successor(k, m)] = Priority[Successor(n, m)]
    BY <2>1, <2>2, <2>3, PriorityAssumption
  <2>5. QED
    BY <2>1, <2>3, <2>4 DEF PrioritiesDistinct
<1>2. QED
  BY <1>1, SoundTypesInvariant, ListsAgree, PTL

(* A node becomes BACKUP only when every member of its group is in its     *)
(* list: observe compares two lengths, and the list never holds a node     *)
(* that is no member when it does.                                         *)
THEOREM BackupsKnowEveryone == Spec /\ []StartsAfresh => BackupKnowsEveryone
<1>1. ASSUME SoundTypes, MembershipInv, [Next]_vars, NEW n \in Nodes,
             vip[n].state = "START", vip'[n].state = "BACKUP"
      PROVE  vip'[n].member_list \subseteq ToSet(vip'[n].node_list)
  <2>1. Handle(n)
    <3>1. PICK x \in Nodes : VipThread(x) \/ Control(x) \/ Environment(x)
      BY <1>1 DEF Next, vars
    <3>2. CASE Handle(x)
      <4>1. \A m \in Nodes \ {x} : vip'[m] = vip[m]
        BY <1>1, <3>2, HandleEffect DEF SoundTypes
      <4>2. QED
        BY <1>1, <3>2, <4>1
    <3>3. CASE ~Handle(x)
      <4>1. \/ UNCHANGED vip
            \/ vip' = [vip EXCEPT ![x].node_id = x]
            \/ vip' = [vip EXCEPT ![x] = go_up(@)]
            \/ vip' = [vip EXCEPT ![x] = IdleVip]
        BY <1>1, <3>1, <3>3, VipStep
      <4>2. vip'[n].state \in {vip[n].state, "START", "IDLE"}
        <5>1. vip \in [Nodes -> Vips]
          BY <1>1 DEF SoundTypes, TypeOK
        <5>2. CASE vip' = [vip EXCEPT ![x].node_id = x]
          BY <5>1, <5>2 DEF Vips
        <5>3. CASE vip' = [vip EXCEPT ![x] = go_up(@)]
          BY <5>1, <5>3 DEF Vips, go_up
        <5>4. CASE vip' = [vip EXCEPT ![x] = IdleVip]
          BY <5>1, <5>4 DEF IdleVip
        <5>5. QED
          BY <4>1, <5>2, <5>3, <5>4
      <4>3. QED
        BY <1>1, <4>2
    <3>4. QED
      BY <3>2, <3>3
  <2> DEFINE e == Head(inbox[n])
  <2>2. /\ vip[n] \in SoundVips /\ ip[n] \in BOOLEAN /\ vip_thread[n] = "running"
        /\ inbox[n] \in Seq(Events) /\ inbox[n] # <<>>
    BY <1>1, <2>1 DEF SoundTypes, TypeOK, Handle
  <2>3. e \in Events /\ Len(inbox[n]) \in Nat /\ Len(inbox[n]) > 0 /\ e = inbox[n][1]
    BY <2>2, HeadTailProperties, LenProperties, EmptySeq
  <2>4. PICK works \in BOOLEAN :
          vip' = [vip EXCEPT ![n] = Dispatch(n, vip[n], ip[n], e, works).vip]
    BY <2>1 DEF Handle
  <2> DEFINE out == Dispatch(n, vip[n], ip[n], e, works)
  <2>5. vip'[n] = out.vip /\ out.vip \in SoundVips
    <3>1. Contract(vip[n], ip[n], out)
      BY <2>2, <2>3, DispatchContract, EventsAreGroupEvents
    <3>2. QED
      BY <1>1, <2>4, <3>1 DEF Contract, Outcomes, SoundTypes
  <2>6. /\ out.vip = IdleVip \/ Tracks(vip[n], e, out.vip)
        /\ vip[n].state = "START" /\ out.vip.state = "BACKUP" =>
             /\ e.type = "state"
             /\ list_entries(out.vip.node_list) = member_list_entries(out.vip)
    BY <2>2, <2>3, DispatchTracks, EventsAreGroupEvents
  <2> HIDE DEF out, e
  <2>7. /\ e.type = "state" /\ Tracks(vip[n], e, out.vip)
        /\ list_entries(out.vip.node_list) = member_list_entries(out.vip)
    BY <1>1, <2>5, <2>6 DEF IdleVip
  <2>8. View(vip[n], inbox[n], Group(n))
    BY <1>1, <2>2 DEF MembershipInv, ViewsFit, Follows
  <2>9. e.nodeid \in vip[n].member_list
    BY <2>3, <2>7, <2>8 DEF View, SendersAreMembers, ConfigAt, OnlyOf, MembersAt
  <2>10. ToSet(vip[n].node_list) \subseteq vip[n].member_list
    <3>1. ToSet(vip[n].node_list) \subseteq Nodes
      <4>1. vip[n].node_list \in Seq(Nodes)
        BY <2>2 DEF SoundVips, NodeLists
      <4>2. QED
        BY <4>1, LenProperties, ElementOfSeq DEF ToSet
    <3>2. ASSUME NEW m \in ToSet(vip[n].node_list), m \notin vip[n].member_list
          PROVE  FALSE
      <4>1. PICK p \in 1..Len(inbox[n]) :
              LostAt(inbox[n], p, m) /\ (p <= 0 \/ OnlyOf("down", inbox[n], 1, p))
        BY <2>3, <2>8, <3>1, <3>2 DEF View, NamedAreMembers, NamedAt, ConfigAt, MembersAt
      <4>2. inbox[n][1].type = "down"
        BY <4>1 DEF OnlyOf
      <4>3. QED
        BY <2>3, <2>7, <4>2
    <3>3. QED
      BY <3>2
  <2>11. ToSet(out.vip.node_list) \subseteq out.vip.member_list
    BY <2>7, <2>9, <2>10 DEF Tracks
  <2>12. /\ out.vip.member_list \in SUBSET Nodes
         /\ Cardinality(ToSet(out.vip.node_list)) = Cardinality(out.vip.member_list)
    BY <2>5, <2>7, LengthCountsElements DEF SoundVips, member_list_entries
  <2>13. IsFiniteSet(out.vip.member_list)
    BY <2>12, NodesAssumption, FS_Subset
  <2>14. ToSet(out.vip.node_list) = out.vip.member_list
    BY <2>11, <2>12, <2>13, FS_Subset
  <2>15. QED
    BY <2>5, <2>14
<1> DEFINE Step == \A n \in Nodes :
                     vip[n].state = "START" /\ vip'[n].state = "BACKUP" =>
                       vip'[n].member_list \subseteq ToSet(vip'[n].node_list)
<1>2. SoundTypes /\ MembershipInv /\ [Next]_vars => [Step]_vars
  BY <1>1
<1>3. BackupKnowsEveryone <=> [][Step]_vars
  BY DEF BackupKnowsEveryone
<1> HIDE DEF Step
<1>4. QED
  BY <1>2, <1>3, SoundTypesInvariant, MembershipInvariant, PTL DEF Spec

-----------------------------------------------------------------------------
(* A case in which every start finds the list empty: a virtual IP starts   *)
(* when its module is loaded and at no other time, so that the list of a   *)
(* stopped virtual IP is never used again.                                 *)

StartsWithItsProcess ==
  Limit["start"] = 0 /\ Limit["cut"] = 0 /\ \A n \in Nodes : ~MayRollBack(n)

FreshInv ==
  /\ cut = {}
  /\ \A n \in Nodes : /\ alive[n] => is_connected[n]
                      /\ ~alive[n] => vip[n] = IdleVip /\ vip_thread[n] = "none"
                      /\ ~restarting[n] /\ stopper[n] # "rollback"
  /\ StartsAfresh

(* Such a group stays as it started.                                       *)
LEMMA FreshStep ==
  ASSUME StartsWithItsProcess, SoundTypes, DeviceInv, RollbackInv, FreshInv,
         NEW x \in Nodes, VipThread(x) \/ Control(x) \/ Environment(x)
  PROVE  FreshInv'
<1>0. \A m \in Nodes \ {x} : Handle(x) => vip'[m] = vip[m]
  <2>1. SUFFICES ASSUME Handle(x)
                 PROVE  \A m \in Nodes \ {x} : vip'[m] = vip[m]
    OBVIOUS
  <2>2. PICK out \in Outcomes : vip' = [vip EXCEPT ![x] = out.vip]
    BY <2>1, HandleEffect
  <2>3. QED
    BY <2>2 DEF SoundTypes
<1> USE DEF SoundTypes, TypeOK, FreshInv, StartsAfresh
<1>1. ~Start(x) /\ ~CutOff(x) /\ ~Heal(x) /\ ~RollbackRestarts(x)
  BY DEF Start, CutOff, Heal, RollbackRestarts, Spend, Kinds, StartsWithItsProcess
<1>2. ~RollbackExpires(x) /\ ~ArbiterFails(x) /\ ~ArbiterRecovers(x)
  BY DEF RollbackExpires, ArbiterFails, ArbiterRecovers, RollbackInv, PendingRollback,
         StartsWithItsProcess
<1>3. CASE JoinGroup(x)
  BY <1>3 DEF JoinGroup, Vips
<1>4. CASE InitFails(x) \/ DispatchFails(x) \/ LeaveGroup(x) \/ MonitorRemovesIp(x)
  BY <1>4 DEF InitFails, DispatchFails, LeaveGroup, MonitorRemovesIp
<1>5. CASE Handle(x)
  <2>1. /\ UNCHANGED <<vip_thread, stopper, restarting, alive, is_connected, cut>>
        /\ vip_thread[x] = "running"
    BY <1>5 DEF Handle
  <2>2. \A m \in Nodes \ {x} : vip'[m] = vip[m]
    BY <1>5, <1>0
  <2>3. QED
    BY <2>1, <2>2
<1>6. CASE Stop(x)
  <2>1. vip[x].state # "IDLE"
    BY <1>6 DEF Stop, BeginStop, table
  <2>2. QED
    BY <1>6, <2>1 DEF Stop, BeginStop, go_down, IdleVip
<1>7. CASE StopReturns(x)
  <2>1. /\ vip_thread[x] = "none" /\ stopper[x] # "rollback" /\ alive[x]
        /\ UNCHANGED <<vip_thread, is_connected, cut>>
    BY <1>7 DEF StopReturns, DeviceInv, StoppedIsIdle
  <2>2. /\ stopper'[x] = "none" /\ ~restarting'[x]
        /\ alive'[x] = (stopper[x] # "unload")
        /\ stopper[x] = "unload" => vip'[x] = IdleVip
        /\ \A m \in Nodes \ {x} : /\ vip'[m] = vip[m] /\ stopper'[m] = stopper[m]
                                  /\ alive'[m] = alive[m] /\ restarting'[m] = restarting[m]
    BY <1>7, <2>1 DEF StopReturns
  <2>3. cut' = {} /\ alive[x] /\ is_connected[x]
    BY <2>1
  <2>4. \A m \in Nodes : /\ alive'[m] => is_connected'[m]
                         /\ ~restarting'[m] /\ stopper'[m] # "rollback"
    BY <2>1, <2>2, <2>3
  <2>5. \A m \in Nodes : ~alive'[m] => vip'[m] = IdleVip /\ vip_thread'[m] = "none"
    BY <2>1, <2>2, <2>3
  <2>6. \A m \in Nodes : vip_thread'[m] = "init" => vip'[m].node_list = <<>>
    <3>1. TAKE m \in Nodes
    <3>2. HAVE vip_thread'[m] = "init"
    <3>3. m # x /\ vip_thread[m] = "init" /\ vip'[m] = vip[m]
      BY <2>1, <2>2, <3>2
    <3>4. QED
      BY <3>3
  <2>7. QED
    BY <2>3, <2>4, <2>5, <2>6
<1>8. CASE Load(x)
  <2>1. /\ UNCHANGED <<stopper, restarting, cut>> /\ alive'[x] /\ is_connected'[x]
        /\ vip[x].node_list = <<>>
        /\ \A m \in Nodes \ {x} : alive'[m] = alive[m] /\ is_connected'[m] = is_connected[m]
    BY <1>8 DEF Load, IdleVip
  <2>2. CASE GoUp(x)
    <3>1. vip'[x].node_list = <<>>
      BY <2>1, <2>2 DEF GoUp, go_up, Vips
    <3>2. \A m \in Nodes \ {x} : vip'[m] = vip[m] /\ vip_thread'[m] = vip_thread[m]
      BY <2>2 DEF GoUp
    <3>3. StartsAfresh'
      BY <2>1, <3>1, <3>2
    <3>4. \A m \in Nodes : ~alive'[m] => vip'[m] = IdleVip /\ vip_thread'[m] = "none"
      BY <2>1, <3>2
    <3>5. QED
      BY <2>1, <3>3, <3>4
  <2>3. CASE UNCHANGED <<vip, vip_thread>>
    BY <2>1, <2>3
  <2>4. QED
    BY <1>8, <2>2, <2>3 DEF Load
<1>9. CASE Crash(x)
  BY <1>9 DEF Crash, ProcessEnds
<1>10. CASE Unload(x)
  <2>1. CASE /\ BeginStop(x, "unload")
             /\ UNCHANGED <<vip_thread, restarting, alive, is_connected, cut>>
    BY <1>10, <2>1 DEF Unload, BeginStop, go_down, IdleVip
  <2>2. CASE ProcessEnds(x) /\ UNCHANGED <<stopper, is_connected, cut>>
    BY <2>2 DEF ProcessEnds
  <2>3. QED
    BY <1>10, <2>1, <2>2 DEF Unload
<1>11. QED
  BY <1>1, <1>2, <1>3, <1>4, <1>5, <1>6, <1>7, <1>8, <1>9, <1>10
  DEF VipThread, Control, Environment

(* No start finds a list.                                                  *)
LEMMA StartsAreFresh ==
  ASSUME StartsWithItsProcess
  PROVE  Spec => []StartsAfresh
<1>1. Init => FreshInv
  BY DEF Init, FreshInv, StartsAfresh
<1>2. SoundTypes /\ DeviceInv /\ RollbackInv /\ FreshInv /\ [Next]_vars => FreshInv'
  <2> SUFFICES ASSUME SoundTypes, DeviceInv, RollbackInv, FreshInv, [Next]_vars
               PROVE  FreshInv'
    OBVIOUS
  <2>1. CASE Next
    BY <2>1, FreshStep DEF Next
  <2>2. CASE UNCHANGED vars
    BY <2>2 DEF vars, FreshInv, StartsAfresh
  <2>3. QED
    BY <2>1, <2>2
<1>3. FreshInv => StartsAfresh
  BY DEF FreshInv
<1>4. QED
  BY <1>1, <1>2, <1>3, SoundTypesInvariant, DeviceInvariant, RollbackInvariant, PTL DEF Spec

(* The two theorems in that case, which is the one of the run "trio": any  *)
(* number of nodes that load, stop, unload and crash in any order.         *)
COROLLARY GroupsOfFreshProcesses ==
  ASSUME StartsWithItsProcess
  PROVE  Spec => []QuiescentListsAgree /\ BackupKnowsEveryone
BY StartsAreFresh, ListsAgree, BackupsKnowEveryone, PTL

(* And so does the third, where no two of them have one priority.          *)
COROLLARY FreshSuccessorIsAgreed ==
  ASSUME StartsWithItsProcess, PrioritiesDistinct
  PROVE  Spec => []OneSuccessor
BY StartsAreFresh, SuccessorIsAgreed, PTL

-----------------------------------------------------------------------------
(* Two nodes that are never cut off from each other *)

AtMostTwoNodes == \A m, n \in Nodes : m # n => Nodes = {m, n}

NeverCutOff == Limit["cut"] = 0

-----------------------------------------------------------------------------
(* n serves, or is on the way to: it is about to go on without m.          *)
Ahead(n, m) == Follows(n) /\ (vip[n].state \in Active \/ ViewLacks(vip[n], inbox[n], m))

DeparturesAreOut ==
  \A n \in Nodes : \A i \in 1..Len(inbox[n]) :
    inbox[n][i].type = "down" => inbox[n][i].nodeid \notin inbox[n][i].member_list

NobodyLacksItself == \A n \in Nodes : Follows(n) => ~ViewLacks(vip[n], inbox[n], n)

(* The one of two nodes that came later waits for the other's word.        *)
OneIsAhead == \A n, m \in Nodes : n # m => ~(Ahead(n, m) /\ Ahead(m, n))

PairInv ==
  /\ cut = {}
  /\ OutsidersHearNothing
  /\ DeparturesAreOut
  /\ NobodyLacksItself
  /\ OneIsAhead

(* A step that leaves the group alone.                                     *)
LEMMA QuietPair ==
  ASSUME PairInv, QuietStep
  PROVE  PairInv'
<1>1. cut' = {} /\ OutsidersHearNothing' /\ DeparturesAreOut'
  BY DEF PairInv, QuietStep, OutsidersHearNothing, DeparturesAreOut
<1>2. NobodyLacksItself'
  BY DEF PairInv, QuietStep, NobodyLacksItself
<1>3. \A n, m \in Nodes : Ahead(n, m)' => Ahead(n, m)
  BY DEF QuietStep, Ahead
<1>4. OneIsAhead'
  BY <1>3 DEF PairInv, OneIsAhead
<1>5. QED
  BY <1>1, <1>2, <1>4 DEF PairInv

(* x leaves: there are no two left.                                        *)
LEMMA DeparturePair ==
  ASSUME AtMostTwoNodes, SoundTypes, PairInv, NEW x \in Nodes, DepartureStep(x)
  PROVE  PairInv'
<1> DEFINE down == Down(x, Peers(x))
<1>1. down \in Events /\ down.type = "down" /\ down.nodeid = x /\ down.member_list = Peers(x)
  BY PeersType DEF Down, Events
<1>2. /\ Joined' = Joined \ {x} /\ cut' = {}
      /\ \A n \in Nodes : Follows(n)' => Follows(n) /\ n # x /\ vip'[n] = vip[n]
  BY DEF DepartureStep, Joined, Follows, SoundTypes, TypeOK, PairInv
<1>3. /\ inbox'[x] = <<>>
      /\ \A n \in Nodes \ {x} :
           inbox'[n] = IF n \in Peers(x) THEN inbox[n] \o <<down>> ELSE inbox[n]
  <2> DEFINE told == Multicast(inbox, Peers(x), <<down>>)
  <2>1. <<down>> \in Seq(Events)
    BY <1>1
  <2>2. told \in [Nodes -> Seq(Events)]
    BY <2>1, MulticastType DEF SoundTypes, TypeOK
  <2>3. \A n \in Nodes : told[n] = IF n \in Peers(x) THEN inbox[n] \o <<down>> ELSE inbox[n]
    BY DEF Multicast
  <2>4. inbox' = [told EXCEPT ![x] = <<>>]
    BY DEF DepartureStep, Departure
  <2> HIDE DEF told
  <2>5. QED
    BY <2>2, <2>3, <2>4
<1>4. x \notin Peers(x) /\ Peers(x) \subseteq Joined
  BY DEF Peers
<1> HIDE DEF down
<1>5. OutsidersHearNothing'
  BY <1>2, <1>3, <1>4 DEF PairInv, OutsidersHearNothing
<1>6. DeparturesAreOut'
  <2> SUFFICES ASSUME NEW n \in Nodes, NEW i \in 1..Len(inbox'[n]), inbox'[n][i].type = "down"
               PROVE  inbox'[n][i].nodeid \notin inbox'[n][i].member_list
    BY DEF DeparturesAreOut
  <2>1. n # x
    BY <1>3, EmptySeq
  <2>2. CASE n \in Peers(x)
    <3>1. inbox[n] \in Seq(Events) /\ inbox'[n] = inbox[n] \o <<down>>
      BY <1>3, <2>1, <2>2 DEF SoundTypes, TypeOK
    <3>2. (i \in 1..Len(inbox[n]) /\ inbox'[n][i] = inbox[n][i]) \/ inbox'[n][i] = down
      BY <1>1, <3>1, OneMoreEvent
    <3>3. QED
      BY <1>1, <1>4, <3>2 DEF PairInv, DeparturesAreOut
  <2>3. CASE n \notin Peers(x)
    BY <1>3, <2>1, <2>3 DEF PairInv, DeparturesAreOut
  <2>4. QED
    BY <2>2, <2>3
<1>7. NobodyLacksItself'
  <2> SUFFICES ASSUME NEW n \in Nodes, Follows(n)', ViewLacks(vip'[n], inbox'[n], n)
               PROVE  FALSE
    BY DEF NobodyLacksItself
  <2>1. Follows(n) /\ n # x /\ vip'[n] = vip[n] /\ inbox[n] \in Seq(Events)
    BY <1>2 DEF SoundTypes, TypeOK
  <2>2. ViewLacks(vip[n], inbox[n], n)
    BY <1>1, <1>3, <2>1, LacksMore DEF IsConfig
  <2>3. QED
    BY <2>1, <2>2 DEF PairInv, NobodyLacksItself
<1>8. OneIsAhead'
  BY <1>2 DEF OneIsAhead, Ahead, AtMostTwoNodes
<1>9. QED
  BY <1>2, <1>5, <1>6, <1>7, <1>8 DEF PairInv

(* x joins: it has the news of the other before it, and does not serve.    *)
LEMMA JoinPair ==
  ASSUME SoundTypes, ThreadsFit, PairInv, NEW x \in Nodes, JoinGroup(x)
  PROVE  PairInv' /\ \A n, m \in Nodes : Follows(m)' /\ Ahead(n, m)' => n # x /\ Ahead(n, m)
<1> DEFINE group == Joined \cup {x}
           up    == Up(group)
<1>1. /\ inbox' = Multicast(inbox, group, <<up>>) /\ cut' = {}
      /\ vip_thread[x] = "init"
      /\ vip_thread' = [vip_thread EXCEPT ![x] = IF vip[x].state = "IDLE" THEN "leaving"
                                                                     ELSE "running"]
      /\ vip' = [vip EXCEPT ![x].node_id = x]
  BY DEF JoinGroup, PairInv
<1>2. group \in SUBSET Nodes /\ up \in Events /\ up.type = "up" /\ up.member_list = group
  BY DEF Joined, Up, Events
<1>3. /\ x \notin Joined /\ Joined' = group /\ Joined \subseteq group
      /\ Follows(x)' => vip'[x].state = "START"
      /\ \A n \in Nodes \ {x} : (Follows(n)' <=> Follows(n)) /\ vip'[n] = vip[n]
  BY <1>1 DEF Joined, Follows, ThreadsFit, SoundTypes, TypeOK, Vips
<1>4. \A n \in Nodes : inbox'[n] = IF n \in group THEN inbox[n] \o <<up>> ELSE inbox[n]
  BY <1>1 DEF Multicast
<1>5. inbox'[x] = <<up>>
  <2>1. inbox[x] = <<>> /\ <<up>> \in Seq(Events)
    BY <1>2, <1>3 DEF PairInv, OutsidersHearNothing
  <2>2. QED
    BY <1>4, <2>1, ConcatEmptySeq
<1>6. \A n \in Nodes : Follows(n)' => n \in group
  BY <1>3, FollowersJoined
<1> HIDE DEF group, up
<1>7. OutsidersHearNothing'
  BY <1>3, <1>4 DEF PairInv, OutsidersHearNothing
<1>8. DeparturesAreOut'
  <2> SUFFICES ASSUME NEW n \in Nodes, NEW i \in 1..Len(inbox'[n]), inbox'[n][i].type = "down"
               PROVE  inbox'[n][i].nodeid \notin inbox'[n][i].member_list
    BY DEF DeparturesAreOut
  <2>1. i \in 1..Len(inbox[n]) /\ inbox'[n][i] = inbox[n][i]
    <3>1. inbox[n] \in Seq(Events)
      BY DEF SoundTypes, TypeOK
    <3>2. CASE n \in group
      <4>1. inbox'[n] = inbox[n] \o <<up>>
        BY <1>4, <3>2
      <4>2. /\ Len(inbox[n]) \in Nat /\ Len(inbox'[n]) = Len(inbox[n]) + 1
            /\ \A k \in 1..Len(inbox[n]) : inbox'[n][k] = inbox[n][k]
            /\ inbox'[n][Len(inbox[n]) + 1] = up
        BY <1>2, <3>1, <4>1, OneMoreEvent
      <4>3. i # Len(inbox[n]) + 1
        BY <1>2, <4>2
      <4>4. QED
        BY <4>2, <4>3
    <3>3. CASE n \notin group
      BY <1>4, <3>3
    <3>4. QED
      BY <3>2, <3>3
  <2>2. QED
    BY <2>1 DEF PairInv, DeparturesAreOut
<1>9. ASSUME NEW n \in Nodes, NEW m \in group, Follows(n)', ViewLacks(vip'[n], inbox'[n], m)
      PROVE  n # x /\ Follows(n) /\ ViewLacks(vip[n], inbox[n], m)
  <2>1. n # x
    <3>1. ~ViewLacks(vip'[x], <<up>>, m)
      BY <1>2 DEF ViewLacks, IsConfig
    <3>2. QED
      BY <1>5, <1>9, <3>1
  <2>2. Follows(n) /\ vip'[n] = vip[n] /\ inbox[n] \in Seq(Events)
    BY <1>3, <1>9, <2>1 DEF SoundTypes, TypeOK
  <2>3. QED
    BY <1>2, <1>4, <1>9, <2>1, <2>2, LacksMore DEF IsConfig
<1>10. NobodyLacksItself'
  BY <1>6, <1>9 DEF PairInv, NobodyLacksItself
<1>11. ASSUME NEW n \in Nodes, NEW m \in group, Ahead(n, m)'
       PROVE  n # x /\ Ahead(n, m)
  <2>1. CASE ViewLacks(vip'[n], inbox'[n], m)
    BY <1>9, <1>11, <2>1 DEF Ahead
  <2>2. CASE vip'[n].state \in Active
    BY <1>3, <1>11, <2>2 DEF Ahead, Active
  <2>3. QED
    BY <1>11, <2>1, <2>2 DEF Ahead
<1>12. OneIsAhead'
  <2> SUFFICES ASSUME NEW n \in Nodes, NEW m \in Nodes, n # m, Ahead(n, m)', Ahead(m, n)'
               PROVE  FALSE
    BY DEF OneIsAhead
  <2>1. n \in group /\ m \in group
    BY <1>6 DEF Ahead
  <2>2. Ahead(n, m) /\ Ahead(m, n)
    BY <1>11, <2>1
  <2>3. QED
    BY <2>2 DEF PairInv, OneIsAhead
<1>13. QED
  BY <1>1, <1>6, <1>7, <1>8, <1>10, <1>11, <1>12 DEF PairInv

(* x dispatches an event: only a node that was ahead of the other begins   *)
(* to serve.                                                               *)
LEMMA HandlePair ==
  ASSUME AtMostTwoNodes, SoundTypes, PairInv, NEW x \in Nodes, Handle(x)
  PROVE  PairInv' /\ \A n, m \in Nodes : n # m /\ Ahead(n, m)' => Ahead(n, m)
<1>1. /\ vip[x] \in SoundVips /\ ip[x] \in BOOLEAN
      /\ inbox[x] \in Seq(Events) /\ inbox[x] # <<>>
      /\ vip_thread[x] = "running"
  BY DEF SoundTypes, TypeOK, Handle
<1> DEFINE e == Head(inbox[x])
<1>2. e \in Events /\ e = inbox[x][1] /\ 1 \in 1..Len(inbox[x])
  BY <1>1, HeadTailProperties, EmptySeq
<1>3. PICK works \in BOOLEAN :
        LET out == Dispatch(x, vip[x], ip[x], e, works)
        IN  /\ vip' = [vip EXCEPT ![x] = out.vip]
            /\ inbox' = Multicast([inbox EXCEPT ![x] = Tail(@)], Group(x), out.sent)
  BY DEF Handle
<1> DEFINE out == Dispatch(x, vip[x], ip[x], e, works)
<1>4. /\ out.vip = IdleVip \/ Tracks(vip[x], e, out.vip)
      /\ out.sent = <<>> \/ \E s \in States : out.sent = <<StateMessage(x, s)>>
  BY <1>1, <1>2, DispatchTracks, EventsAreGroupEvents
<1>5. /\ Moves(vip[x], ip[x], out)
      /\ vip[x].state \notin Active /\ out.vip.state \in Active =>
           \/ e.type = "down"
           \/ e.type = "state" /\ vip[x].state = "START" /\ Cardinality(vip[x].member_list) = 1
  BY <1>1, <1>2, DispatchMoves, EventsAreGroupEvents
<1>6. /\ vip' = [vip EXCEPT ![x] = out.vip]
      /\ inbox' = Multicast([inbox EXCEPT ![x] = Tail(@)], Group(x), out.sent)
  BY <1>3
<1> HIDE DEF out
<1>7. Joined' = Joined /\ cut' = {} /\ vip_thread' = vip_thread
  BY DEF Handle, Joined, PairInv
<1>8. /\ vip'[x] = out.vip
      /\ \A n \in Nodes \ {x} : vip'[n] = vip[n]
  BY <1>6 DEF SoundTypes
<1>9. /\ \A n \in Nodes : Follows(n)' => Follows(n)
      /\ Follows(x)' => Tracks(vip[x], e, out.vip)
  <2>1. Follows(x)' => Follows(x)
    BY <1>5, <1>7, <1>8 DEF Follows, Moves, SameRole, Standby, Active
  <2>2. \A n \in Nodes \ {x} : Follows(n)' => Follows(n)
    BY <1>7, <1>8 DEF Follows
  <2>3. Follows(x)' => out.vip # IdleVip
    BY <1>8 DEF Follows, IdleVip
  <2>4. QED
    BY <1>4, <2>1, <2>2, <2>3
<1> DEFINE box(n) == IF n = x THEN Tail(inbox[x]) ELSE inbox[n]
<1>10. \A n \in Nodes :
         /\ box(n) \in Seq(Events)
         /\ \/ inbox'[n] = box(n)
            \/ /\ n \in Joined
               /\ \E msg \in Events : msg.type = "state" /\ inbox'[n] = box(n) \o <<msg>>
  <2>1. Tail(inbox[x]) \in Seq(Events)
    BY <1>1, HeadTailProperties
  <2>2. \A n \in Nodes : [inbox EXCEPT ![x] = Tail(@)][n] = box(n) /\ box(n) \in Seq(Events)
    BY <2>1 DEF SoundTypes, TypeOK
  <2>3. Group(x) \subseteq Joined
    BY <1>1 DEF Group, Peers, Joined
  <2>4. \A s \in States : StateMessage(x, s) \in Events /\ StateMessage(x, s).type = "state"
    BY DEF StateMessage, Events
  <2>5. \A n \in Nodes : inbox'[n] = IF n \in Group(x) THEN box(n) \o out.sent ELSE box(n)
    BY <1>6, <2>2 DEF Multicast
  <2> HIDE DEF box
  <2>6. ASSUME NEW n \in Nodes
        PROVE  \/ inbox'[n] = box(n)
               \/ /\ n \in Joined
                  /\ \E msg \in Events : msg.type = "state" /\ inbox'[n] = box(n) \o <<msg>>
    <3>1. CASE n \notin Group(x)
      BY <2>5, <3>1
    <3>2. CASE n \in Group(x) /\ out.sent = <<>>
      BY <2>2, <2>5, <3>2, ConcatEmptySeq
    <3>3. CASE n \in Group(x) /\ out.sent # <<>>
      <4>1. PICK s \in States : out.sent = <<StateMessage(x, s)>>
        BY <1>4, <3>3
      <4>2. QED
        BY <2>3, <2>4, <2>5, <3>3, <4>1
    <3>4. QED
      BY <3>1, <3>2, <3>3
  <2>7. QED
    BY <2>2, <2>6
<1>11. OutsidersHearNothing'
  <2> SUFFICES ASSUME NEW n \in Nodes, n \notin Joined PROVE inbox'[n] = <<>>
    BY <1>7 DEF OutsidersHearNothing
  <2>1. n # x
    BY <1>1 DEF Joined
  <2>2. QED
    BY <1>10, <2>1 DEF PairInv, OutsidersHearNothing
<1>12. DeparturesAreOut'
  <2> SUFFICES ASSUME NEW n \in Nodes, NEW i \in 1..Len(inbox'[n]), inbox'[n][i].type = "down"
               PROVE  inbox'[n][i].nodeid \notin inbox'[n][i].member_list
    BY DEF DeparturesAreOut
  <2>1. i \in 1..Len(box(n)) /\ inbox'[n][i] = box(n)[i]
    <3>1. CASE inbox'[n] = box(n)
      BY <3>1
    <3>2. CASE \E msg \in Events : msg.type = "state" /\ inbox'[n] = box(n) \o <<msg>>
      <4>1. PICK msg \in Events : msg.type = "state" /\ inbox'[n] = box(n) \o <<msg>>
        BY <3>2
      <4>2. box(n) \in Seq(Events)
        BY <1>10
      <4> HIDE DEF box
      <4>3. QED
        BY <4>1, <4>2, OneMoreEvent
    <3>3. QED
      BY <1>10, <3>1, <3>2
  <2>2. \E j \in 1..Len(inbox[n]) : box(n)[i] = inbox[n][j]
    <3>1. CASE n = x
      <4>1. /\ Len(Tail(inbox[x])) = Len(inbox[x]) - 1 /\ Len(inbox[x]) \in Nat
            /\ \A j \in 1..Len(Tail(inbox[x])) : Tail(inbox[x])[j] = inbox[x][j + 1]
        BY <1>1, HeadTailProperties, LenProperties
      <4>2. i + 1 \in 1..Len(inbox[x]) /\ box(n)[i] = inbox[x][i + 1]
        BY <2>1, <3>1, <4>1
      <4>3. QED
        BY <3>1, <4>2
    <3>2. CASE n # x
      BY <2>1, <3>2
    <3>3. QED
      BY <3>1, <3>2
  <2>3. QED
    BY <2>1, <2>2 DEF PairInv, DeparturesAreOut
<1>13. ASSUME NEW n \in Nodes, NEW m \in Nodes, Follows(n)', ViewLacks(vip'[n], inbox'[n], m)
       PROVE  Follows(n) /\ ViewLacks(vip[n], inbox[n], m)
  <2>1. ViewLacks(vip'[n], box(n), m)
    <3>1. CASE inbox'[n] = box(n)
      BY <1>13, <3>1
    <3>2. CASE \E msg \in Events : msg.type = "state" /\ inbox'[n] = box(n) \o <<msg>>
      <4>1. PICK msg \in Events : msg.type = "state" /\ inbox'[n] = box(n) \o <<msg>>
        BY <3>2
      <4>2. box(n) \in Seq(Events)
        BY <1>10
      <4> HIDE DEF box
      <4>3. QED
        BY <1>13, <4>1, <4>2, LacksMore DEF IsConfig
    <3>3. QED
      BY <1>10, <3>1, <3>2
  <2>2. CASE n = x
    BY <1>1, <1>8, <1>9, <1>13, <2>1, <2>2, LacksTail DEF Tracks, IsConfig, Events
  <2>3. CASE n # x
    BY <1>8, <1>9, <1>13, <2>1, <2>3
  <2>4. QED
    BY <2>2, <2>3
<1>14. NobodyLacksItself'
  BY <1>13 DEF PairInv, NobodyLacksItself
<1> HIDE DEF e, box
<1>15. ASSUME Follows(x), vip[x].state \notin Active, vip'[x].state \in Active,
              NEW m \in Nodes, m # x
       PROVE  ViewLacks(vip[x], inbox[x], m)
  <2>1. ~ViewLacks(vip[x], inbox[x], x)
    BY <1>15 DEF PairInv, NobodyLacksItself
  <2>2. CASE e.type = "down"
    <3>1. e.nodeid \in Nodes /\ e.nodeid \notin e.member_list
      BY <1>2, <2>2 DEF Events, PairInv, DeparturesAreOut
    <3>2. e.nodeid # x
      BY <1>2, <2>1, <2>2, <3>1 DEF ViewLacks, IsConfig
    <3>3. e.nodeid = m
      BY <1>15, <3>1, <3>2 DEF AtMostTwoNodes
    <3>4. QED
      BY <1>2, <2>2, <3>1, <3>3 DEF ViewLacks, IsConfig
  <2>3. CASE e.type = "state" /\ Cardinality(vip[x].member_list) = 1
    <3>1. x \in vip[x].member_list
      BY <1>2, <2>1, <2>3 DEF ViewLacks, IsConfig
    <3>2. vip[x].member_list \in SUBSET Nodes
      BY <1>1 DEF SoundVips
    <3>3. IsFiniteSet(vip[x].member_list)
      BY <3>2, NodesAssumption, FS_Subset
    <3>4. PICK k : vip[x].member_list = {k}
      BY <2>3, <3>3, FS_Singleton
    <3>5. m \notin vip[x].member_list
      BY <1>15, <3>1, <3>4
    <3>6. QED
      BY <1>2, <2>3, <3>5 DEF ViewLacks, IsConfig
  <2>4. QED
    BY <1>5, <1>8, <1>15, <2>2, <2>3
<1>16. ASSUME NEW n \in Nodes, NEW m \in Nodes, n # m, Ahead(n, m)'
       PROVE  Ahead(n, m)
  <2>1. Follows(n)
    BY <1>9, <1>16 DEF Ahead
  <2>2. CASE ViewLacks(vip'[n], inbox'[n], m)
    BY <1>13, <1>16, <2>2 DEF Ahead
  <2>3. CASE vip'[n].state \in Active
    BY <1>8, <1>15, <1>16, <2>1, <2>3 DEF Ahead
  <2>4. QED
    BY <1>16, <2>2, <2>3 DEF Ahead
<1>17. OneIsAhead'
  BY <1>16 DEF PairInv, OneIsAhead
<1>18. QED
  BY <1>7, <1>11, <1>12, <1>14, <1>16, <1>17 DEF PairInv

-----------------------------------------------------------------------------
(* At most one node serves *)

(* In every reachable state of two nodes at most one is ahead of the       *)
(* other.                                                                  *)
LEMMA PairInvariant ==
  ASSUME AtMostTwoNodes, NeverCutOff
  PROVE  Spec => []PairInv
<1>1. Init => PairInv
  BY DEF Init, PairInv, OutsidersHearNothing, DeparturesAreOut, NobodyLacksItself, OneIsAhead,
         Ahead, Follows
<1>2. ASSUME SoundTypes, DeviceInv, ThreadsFit, PairInv,
             NEW x \in Nodes, VipThread(x) \/ Control(x) \/ Environment(x)
      PROVE  PairInv'
  <2>1. ~CutOff(x)
    BY <1>2 DEF NeverCutOff, CutOff, Spend, SoundTypes, TypeOK, Kinds
  <2>2. ~Heal(x)
    BY <1>2 DEF Heal, PairInv
  <2>3. QED
    BY <1>2, <2>1, <2>2, StepShapes, QuietPair, DeparturePair, JoinPair, HandlePair
<1>3. SoundTypes /\ DeviceInv /\ ThreadsFit /\ PairInv /\ [Next]_vars => PairInv'
  <2> SUFFICES ASSUME SoundTypes, DeviceInv, ThreadsFit, PairInv, [Next]_vars
               PROVE  PairInv'
    OBVIOUS
  <2>1. CASE Next
    BY <1>2, <2>1 DEF Next
  <2>2. CASE UNCHANGED vars
    <3>1. QuietStep
      BY <2>2 DEF vars, QuietStep, Joined, Follows
    <3>2. QED
      BY <3>1, QuietPair
  <2>3. QED
    BY <2>1, <2>2
<1>4. QED
  BY <1>1, <1>3, SoundTypesInvariant, DeviceInvariant, ThreadsFitInvariant, PTL DEF Spec

CpgWorks == Limit["cpg"] = 0

(* A node that serves dispatches: only an error of CPG ends its thread     *)
(* without a go_down.                                                      *)
ActivesRun == \A n \in Nodes : vip[n].state \in Active => vip_thread[n] = "running"

(* No step leaves a node serving without its thread.                       *)
LEMMA ActivesRunStep ==
  ASSUME CpgWorks, SoundTypes, ActivesRun,
         NEW x \in Nodes, VipThread(x) \/ Control(x) \/ Environment(x)
  PROVE  ActivesRun'
<1>1. CASE Handle(x)
  <2>1. vip_thread[x] = "running" /\ vip_thread' = vip_thread
    BY <1>1 DEF Handle
  <2>2. PICK out \in Outcomes : vip' = [vip EXCEPT ![x] = out.vip]
    BY <1>1, HandleEffect
  <2>3. QED
    BY <2>1, <2>2 DEF ActivesRun, SoundTypes
<1>2. CASE ~Handle(x)
  <2>1. \/ UNCHANGED vip
        \/ vip' = [vip EXCEPT ![x].node_id = x]
        \/ vip' = [vip EXCEPT ![x] = go_up(@)]
        \/ vip' = [vip EXCEPT ![x] = IdleVip]
    BY <1>2, VipStep
  <2>2. /\ \A n \in Nodes \ {x} : vip'[n] = vip[n]
        /\ vip'[x].state \in {vip[x].state, "START", "IDLE"}
    BY <2>1 DEF SoundTypes, TypeOK, Vips, go_up, IdleVip
  <2>3. ~DispatchFails(x)
    BY DEF CpgWorks, DispatchFails, Spend, SoundTypes, TypeOK, Kinds
  <2>4. /\ \A n \in Nodes \ {x} : vip_thread'[n] = vip_thread[n]
        /\ vip_thread[x] = "running" =>
             \/ vip_thread'[x] = "running"
             \/ vip[x].state = "IDLE" /\ vip' = vip
             \/ vip'[x].state \in {"START", "IDLE"}
    <3>1. CASE VipThread(x)
      BY <1>2, <2>3, <3>1
      DEF VipThread, JoinGroup, InitFails, LeaveGroup, SoundTypes, TypeOK
    <3>2. CASE Control(x)
      BY <3>2 DEF Control, Start, Stop, StopReturns, RollbackExpires, RollbackRestarts,
         ArbiterFails, ArbiterRecovers, GoUp, CanGoUp, BeginStop, SoundTypes, TypeOK
    <3>3. CASE Environment(x)
      BY <3>3 DEF Environment, Load, Crash, Unload, MonitorRemovesIp, CutOff, Heal,
         GoUp, go_up, BeginStop, ProcessEnds, IdleVip, SoundTypes, TypeOK, Vips
    <3>4. QED
      BY <3>1, <3>2, <3>3
  <2>5. QED
    BY <2>2, <2>4 DEF ActivesRun, Active
<1>3. QED
  BY <1>1, <1>2

(* A node that serves dispatches.                                          *)
LEMMA ActivesRunInvariant ==
  ASSUME CpgWorks
  PROVE  Spec => []ActivesRun
<1>1. Init => ActivesRun
  BY DEF Init, ActivesRun, IdleVip, Active
<1>2. SoundTypes /\ ActivesRun /\ [Next]_vars => ActivesRun'
  BY ActivesRunStep DEF Next, vars, ActivesRun
<1>3. QED
  BY <1>1, <1>2, SoundTypesInvariant, PTL DEF Spec

(* Two nodes never serve the address at once, as long as CPG works and the *)
(* network holds: fsm_input.c lets a node take over only alone in its      *)
(* group or on the master's departure.                                     *)
THEOREM OneServesAtATime ==
  ASSUME AtMostTwoNodes, NeverCutOff, CpgWorks
  PROVE  Spec => []AtMostOneMaster
<1>1. PairInv /\ ActivesRun => AtMostOneMaster
  <2> SUFFICES ASSUME PairInv, ActivesRun, NEW m \in Nodes, NEW n \in Nodes,
                      vip[m].state \in Active, vip[n].state \in Active, m # n
               PROVE  FALSE
    BY DEF AtMostOneMaster
  <2>1. Ahead(m, n) /\ Ahead(n, m)
    BY DEF ActivesRun, Ahead, Follows, Active
  <2>2. QED
    BY <2>1 DEF PairInv, OneIsAhead
<1>2. QED
  BY <1>1, PairInvariant, ActivesRunInvariant, PTL

-----------------------------------------------------------------------------
(* The pair implements FloatingIp *)

RoleOf(state) == CASE state \in Active  -> "serving"
                   [] state \in Standby -> "standby"
                   [] OTHER             -> "off"

(* The refinement mapping reads the state only.                            *)
LEMMA RolesOfStates == \A n \in Nodes : Role(n) = RoleOf(vip[n].state)
BY DEF Role, RoleOf, Standby

(* A step of x changes the role and the device of x only, and these in one *)
(* of five ways.                                                           *)
RoleMove(x) ==
  LET s == vip[x].state
      t == vip'[x].state
  IN  \/ SameRole(s, t) /\ ip'[x] = ip[x]
      \/ s = "IDLE" /\ t = "START" /\ ~ip[x] /\ ~ip'[x]
      \/ s \in Standby /\ t \in Active /\ ip'[x]
      \/ s # "IDLE" /\ t = "IDLE" /\ ip'[x] \in {FALSE, ip[x]}
      \/ s = "IDLE" /\ t = "IDLE" /\ ~ip'[x]

(* Every step moves the role and the device in one of these ways.          *)
LEMMA StepMovesRole ==
  ASSUME SoundTypes, DeviceInv, NEW x \in Nodes, VipThread(x) \/ Control(x) \/ Environment(x)
  PROVE  /\ RoleMove(x)
         /\ \A n \in Nodes \ {x} : vip'[n].state = vip[n].state /\ ip'[n] = ip[n]
<1>1. CASE Handle(x)
  <2>1. PICK works \in BOOLEAN :
          LET out == Dispatch(x, vip[x], ip[x], Head(inbox[x]), works)
          IN  vip' = [vip EXCEPT ![x] = out.vip] /\ ip' = [ip EXCEPT ![x] = out.ip]
    BY <1>1 DEF Handle
  <2>2. vip[x] \in SoundVips /\ ip[x] \in BOOLEAN /\ Head(inbox[x]) \in Events
    BY <1>1, HeadTailProperties DEF Handle, SoundTypes, TypeOK
  <2> DEFINE out == Dispatch(x, vip[x], ip[x], Head(inbox[x]), works)
  <2>3. Moves(vip[x], ip[x], out) /\ out.ip \in BOOLEAN
    BY <2>2, DispatchMoves, DispatchContract, EventsAreGroupEvents DEF Contract, Outcomes
  <2>4. vip' = [vip EXCEPT ![x] = out.vip] /\ ip' = [ip EXCEPT ![x] = out.ip]
    BY <2>1
  <2> HIDE DEF out
  <2>5. /\ vip'[x] = out.vip /\ ip'[x] = out.ip
        /\ \A n \in Nodes \ {x} : vip'[n] = vip[n] /\ ip'[n] = ip[n]
    BY <2>4 DEF SoundTypes, TypeOK
  <2>6. CASE SameRole(vip[x].state, out.vip.state) /\ out.ip = ip[x]
    BY <2>5, <2>6 DEF RoleMove
  <2>7. CASE vip[x].state # "IDLE" /\ out.vip.state = "IDLE" /\ out.ip = FALSE
    BY <2>5, <2>7 DEF RoleMove
  <2>8. CASE vip[x].state \in Standby /\ out.vip.state \in Active /\ out.ip = TRUE
    BY <2>5, <2>8 DEF RoleMove
  <2>9. QED
    BY <2>3, <2>6, <2>7, <2>8 DEF Moves
<1>2. ASSUME ip' = ip, \A n \in Nodes : vip'[n].state = vip[n].state
      PROVE  RoleMove(x)
  BY <1>2 DEF RoleMove, SameRole
<1>3. CASE VipThread(x) /\ ~Handle(x)
  <2>1. ip' = ip /\ (vip' = vip \/ vip' = [vip EXCEPT ![x].node_id = x])
    BY <1>3 DEF VipThread, JoinGroup, InitFails, DispatchFails, LeaveGroup
  <2>2. SUFFICES ASSUME vip' = [vip EXCEPT ![x].node_id = x]
                 PROVE  \A n \in Nodes : vip'[n].state = vip[n].state
    BY <1>2, <2>1
  <2>3. vip'[x].state = vip[x].state
    BY <2>2 DEF SoundTypes, TypeOK, SoundVips
  <2>4. \A n \in Nodes \ {x} : vip'[n] = vip[n]
    BY <2>2 DEF SoundTypes, TypeOK
  <2>5. QED
    BY <2>3, <2>4
<1>4. ASSUME ip' = ip, CanGoUp(x), GoUp(x), ~ip[x]
      PROVE  /\ RoleMove(x)
             /\ \A n \in Nodes \ {x} : vip'[n].state = vip[n].state
  <2>1. vip[x].state = "IDLE"
    <3>1. vip[x].state \in States /\ table.STARTUP[vip[x].state] = "go_up"
      BY <1>4 DEF CanGoUp, SoundTypes, TypeOK, Vips
    <3>2. QED
      BY <3>1 DEF table, States
  <2>2. vip'[x].state = "START" /\ \A n \in Nodes \ {x} : vip'[n] = vip[n]
    BY <1>4 DEF GoUp, go_up, SoundTypes, TypeOK, Vips
  <2>3. QED
    BY <1>4, <2>1, <2>2 DEF RoleMove
<1>5. ASSUME ip' = ip, NEW who, BeginStop(x, who)
      PROVE  /\ RoleMove(x)
             /\ \A n \in Nodes \ {x} : vip'[n].state = vip[n].state
  <2>1. vip[x].state # "IDLE"
    BY <1>5 DEF BeginStop, table
  <2>2. vip'[x].state = "IDLE" /\ \A n \in Nodes \ {x} : vip'[n] = vip[n]
    BY <1>5 DEF BeginStop, go_down, IdleVip, SoundTypes, TypeOK
  <2>3. QED
    BY <1>5, <2>1, <2>2 DEF RoleMove
<1>6. CASE StopReturns(x)
  <2>1. vip[x].state = "IDLE"
    BY <1>6 DEF StopReturns, DeviceInv, StoppedIsIdle
  <2>2. vip' = [vip EXCEPT ![x] = IdleVip] \/ vip' = [vip EXCEPT ![x] = @]
    BY <1>6 DEF StopReturns
  <2>3. vip'[x].state = "IDLE" /\ \A n \in Nodes \ {x} : vip'[n] = vip[n]
    BY <2>1, <2>2 DEF IdleVip, SoundTypes, TypeOK
  <2>4. ip' = [ip EXCEPT ![x] = FALSE]
    BY <1>6 DEF StopReturns
  <2>5. QED
    BY <2>1, <2>3, <2>4 DEF RoleMove, SoundTypes, TypeOK
<1>7. CASE Control(x) /\ ~StopReturns(x)
  <2>1. ip' = ip
    BY <1>7 DEF Control, Start, Stop, RollbackExpires, RollbackRestarts,
                ArbiterFails, ArbiterRecovers
  <2>2. \/ vip' = vip
        \/ alive[x] /\ CanGoUp(x) /\ GoUp(x)
        \/ \E who : BeginStop(x, who)
    BY <1>7 DEF Control, Start, Stop, RollbackExpires, RollbackRestarts,
                ArbiterFails, ArbiterRecovers, DeviceInv, StoppedIsIdle
  <2>3. CanGoUp(x) /\ alive[x] => ~ip[x]
    <3>1. CanGoUp(x) => vip[x].state \notin Active /\ stopper[x] = "none"
      BY DEF CanGoUp, table, Active
    <3>2. QED
      BY <3>1 DEF DeviceInv, IpMatchesRole
  <2>4. QED
    BY <1>2, <1>4, <1>5, <2>1, <2>2, <2>3
<1>8. CASE Load(x)
  <2>1. ~alive[x] /\ ip' = ip /\ ~ip[x] /\ (GoUp(x) \/ vip' = vip)
    BY <1>8 DEF Load
  <2>2. vip[x].state = "IDLE"
    BY <2>1 DEF DeviceInv, StoppedIsIdle
  <2>3. CASE GoUp(x)
    <3>1. vip'[x].state = "START" /\ \A n \in Nodes \ {x} : vip'[n] = vip[n]
      BY <2>3 DEF GoUp, go_up, SoundTypes, TypeOK, Vips
    <3>2. QED
      BY <2>1, <2>2, <3>1 DEF RoleMove
  <2>4. CASE vip' = vip
    BY <1>2, <2>1, <2>4
  <2>5. QED
    BY <2>1, <2>3, <2>4
<1>9. CASE Crash(x)
  <2>1. vip'[x].state = "IDLE" /\ \A n \in Nodes \ {x} : vip'[n] = vip[n]
    BY <1>9 DEF Crash, ProcessEnds, IdleVip, SoundTypes, TypeOK
  <2>2. ip'[x] \in {FALSE, ip[x]} /\ \A n \in Nodes \ {x} : ip'[n] = ip[n]
    BY <1>9 DEF Crash, SoundTypes, TypeOK
  <2>3. QED
    BY <2>1, <2>2 DEF RoleMove, SameRole, SoundTypes, TypeOK
<1>10. CASE Unload(x)
  <2>1. ip' = ip
    BY <1>10 DEF Unload
  <2>2. CASE BeginStop(x, "unload")
    BY <1>5, <2>1, <2>2
  <2>3. CASE vip[x].state = "IDLE" /\ ProcessEnds(x)
    <3>1. vip'[x].state = "IDLE" /\ \A n \in Nodes \ {x} : vip'[n] = vip[n]
      BY <2>3 DEF ProcessEnds, IdleVip, SoundTypes, TypeOK
    <3>2. QED
      BY <2>1, <2>3, <3>1 DEF RoleMove, SameRole
  <2>4. QED
    BY <1>10, <2>2, <2>3 DEF Unload
<1>11. CASE MonitorRemovesIp(x)
  <2>1. /\ vip' = vip /\ vip[x].state = "IDLE"
        /\ ~ip'[x] /\ \A n \in Nodes \ {x} : ip'[n] = ip[n]
    BY <1>11 DEF MonitorRemovesIp, DeviceInv, StoppedIsIdle, SoundTypes, TypeOK
  <2>2. QED
    BY <2>1 DEF RoleMove
<1>12. CASE CutOff(x) \/ Heal(x)
  BY <1>2, <1>12 DEF CutOff, Heal
<1>13. QED
  BY <1>1, <1>3, <1>6, <1>7, <1>8, <1>9, <1>10, <1>11, <1>12 DEF Environment

(* In FloatingIp each of the five is a step or a stutter: a node takes the *)
(* address over only when nobody else serves.                              *)
LEMMA StepFloats ==
  ASSUME SoundTypes, SoundTypes', DeviceInv, AtMostOneMaster',
         NEW x \in Nodes, VipThread(x) \/ Control(x) \/ Environment(x)
  PROVE  [Floating!Next]_(Floating!vars)
<1> DEFINE role == [n \in Nodes |-> RoleOf(vip[n].state)]
<1>1. role = [n \in Nodes |-> Role(n)] /\ role' = [n \in Nodes |-> Role(n)']
  BY RolesOfStates DEF Role, RoleOf, Standby
<1>2. /\ RoleMove(x)
      /\ \A n \in Nodes \ {x} : vip'[n].state = vip[n].state /\ ip'[n] = ip[n]
  BY StepMovesRole
<1>3. /\ ip \in [Nodes -> BOOLEAN] /\ ip' \in [Nodes -> BOOLEAN]
      /\ vip[x].state \in States /\ vip'[x].state \in States
  BY DEF SoundTypes, TypeOK, Vips
<1>4. /\ role' = [role EXCEPT ![x] = RoleOf(vip'[x].state)]
      /\ ip' = [ip EXCEPT ![x] = ip'[x]]
  BY <1>2, <1>3
<1>5. /\ \A s \in Active : RoleOf(s) = "serving"
      /\ \A s \in Standby : RoleOf(s) = "standby"
      /\ RoleOf("IDLE") = "off"
  BY DEF RoleOf, Active, Standby
<1>6. \A s, t : SameRole(s, t) => RoleOf(s) = RoleOf(t)
  BY DEF SameRole, RoleOf, Active, Standby
<1>7. role[x] = RoleOf(vip[x].state)
  OBVIOUS
<1>8. CASE SameRole(vip[x].state, vip'[x].state) /\ ip'[x] = ip[x]
  <2>1. RoleOf(vip'[x].state) = role[x]
    BY <1>6, <1>7, <1>8
  <2>2. [role EXCEPT ![x] = role[x]] = role
    OBVIOUS
  <2>3. role' = role
    BY <1>4, <2>1, <2>2
  <2>4. ip' = ip
    BY <1>3, <1>4, <1>8
  <2>5. QED
    BY <1>1, <2>3, <2>4 DEF Floating!vars
<1>9. CASE vip[x].state = "IDLE" /\ vip'[x].state = "START" /\ ~ip[x] /\ ~ip'[x]
  <2>1. role[x] = "off" /\ role' = [role EXCEPT ![x] = "standby"]
    BY <1>3, <1>4, <1>5, <1>7, <1>9 DEF Standby
  <2>2. ip[x] = FALSE /\ ip'[x] = FALSE
    BY <1>3, <1>9
  <2>3. ip' = ip
    BY <1>3, <1>4, <2>2
  <2> HIDE DEF role
  <2>4. Floating!Enter(x)
    BY <1>1, <2>1, <2>2, <2>3 DEF Floating!Enter
  <2>5. QED
    BY <2>4 DEF Floating!Next
<1>10. CASE vip[x].state \in Standby /\ vip'[x].state \in Active /\ ip'[x]
  <2>1. \A m \in Nodes : role[m] # "serving"
    <3> SUFFICES ASSUME NEW m \in Nodes, role[m] = "serving"
                 PROVE  FALSE
      OBVIOUS
    <3>1. vip[m].state \in Active
      BY DEF RoleOf
    <3>2. m # x
      BY <1>10, <3>1 DEF Standby, Active
    <3>3. QED
      BY <1>2, <1>10, <3>1, <3>2 DEF AtMostOneMaster
  <2>2. /\ role[x] = "standby" /\ role' = [role EXCEPT ![x] = "serving"]
        /\ ip' = [ip EXCEPT ![x] = TRUE]
    BY <1>3, <1>4, <1>5, <1>7, <1>10
  <2> HIDE DEF role
  <2>3. Floating!Serve(x)
    BY <1>1, <2>1, <2>2 DEF Floating!Serve
  <2>4. QED
    BY <2>3 DEF Floating!Next
<1>11. CASE vip[x].state # "IDLE" /\ vip'[x].state = "IDLE" /\ ip'[x] \in {FALSE, ip[x]}
  <2>1. /\ role[x] # "off" /\ role' = [role EXCEPT ![x] = "off"]
        /\ \E left \in {FALSE, ip[x]} : ip' = [ip EXCEPT ![x] = left]
    BY <1>3, <1>4, <1>5, <1>7, <1>11 DEF States, Active, Standby
  <2> HIDE DEF role
  <2>2. Floating!Quit(x)
    BY <1>1, <2>1 DEF Floating!Quit
  <2>3. QED
    BY <2>2 DEF Floating!Next
<1>12. CASE vip[x].state = "IDLE" /\ vip'[x].state = "IDLE" /\ ~ip'[x]
  <2>1. role[x] = "off" /\ role' = role /\ ip' = [ip EXCEPT ![x] = FALSE]
    BY <1>3, <1>4, <1>5, <1>7, <1>12
  <2> HIDE DEF role
  <2>2. Floating!Release(x)
    BY <1>1, <2>1 DEF Floating!Release
  <2>3. QED
    BY <2>2 DEF Floating!Next
<1>13. QED
  BY <1>2, <1>8, <1>9, <1>10, <1>11, <1>12 DEF RoleMove

(* The pair implements the specification of a floating address.            *)
THEOREM PairFloatsTheAddress ==
  ASSUME AtMostTwoNodes, NeverCutOff, CpgWorks
  PROVE  Spec => ImplementsFloatingIp
<1>1. Init => Floating!Init
  BY DEF Init, Floating!Init, Role, IdleVip, Active
<1>2. /\ SoundTypes /\ SoundTypes' /\ DeviceInv /\ AtMostOneMaster'
      /\ [Next]_vars
      => [Floating!Next]_(Floating!vars)
  <2> SUFFICES ASSUME SoundTypes, SoundTypes', DeviceInv, AtMostOneMaster', [Next]_vars
               PROVE  [Floating!Next]_(Floating!vars)
    OBVIOUS
  <2>1. CASE Next
    BY <2>1, StepFloats DEF Next
  <2>2. CASE UNCHANGED vars
    BY <2>2 DEF vars, Floating!vars, Role
  <2>3. QED
    BY <2>1, <2>2
<1>3. QED
  BY <1>1, <1>2, SoundTypesInvariant, DeviceInvariant, OneServesAtATime, PTL
  DEF Spec, ImplementsFloatingIp, Floating!Spec

-----------------------------------------------------------------------------
(* Two nodes of one priority *)

(* CPG tells a node its own id when it joins, and go_down forgets it.      *)
KnowsItself == \A n \in Nodes : vip[n].node_id \in {n, NoNode}

(* The id a node keeps is never that of another.                           *)
LEMMA KnowsItselfStep ==
  ASSUME SoundTypes, KnowsItself,
         NEW x \in Nodes, VipThread(x) \/ Control(x) \/ Environment(x)
  PROVE  KnowsItself'
<1>1. CASE Handle(x)
  <2>1. PICK works \in BOOLEAN :
          vip' = [vip EXCEPT ![x] = Dispatch(x, vip[x], ip[x], Head(inbox[x]), works).vip]
    BY <1>1 DEF Handle
  <2>2. vip[x] \in SoundVips /\ ip[x] \in BOOLEAN /\ Head(inbox[x]) \in Events
    BY <1>1, HeadTailProperties DEF Handle, SoundTypes, TypeOK
  <2> DEFINE out == Dispatch(x, vip[x], ip[x], Head(inbox[x]), works)
  <2>3. out.vip = IdleVip \/ out.vip.node_id = vip[x].node_id
    BY <2>2, DispatchMoves, EventsAreGroupEvents
  <2>4. vip' = [vip EXCEPT ![x] = out.vip]
    BY <2>1
  <2> HIDE DEF out
  <2>5. QED
    BY <2>3, <2>4 DEF KnowsItself, SoundTypes, IdleVip
<1>2. CASE ~Handle(x)
  <2>1. \/ UNCHANGED vip
        \/ vip' = [vip EXCEPT ![x].node_id = x]
        \/ vip' = [vip EXCEPT ![x] = go_up(@)]
        \/ vip' = [vip EXCEPT ![x] = IdleVip]
    BY <1>2, VipStep
  <2>2. QED
    BY <2>1 DEF KnowsItself, SoundTypes, TypeOK, Vips, go_up, IdleVip
<1>3. QED
  BY <1>1, <1>2

(* So it is in every reachable state.                                      *)
LEMMA KnowsItselfInvariant == Spec => []KnowsItself
<1>1. Init => KnowsItself
  BY DEF Init, KnowsItself, IdleVip
<1>2. SoundTypes /\ KnowsItself /\ [Next]_vars => KnowsItself'
  BY KnowsItselfStep DEF Next, vars, KnowsItself
<1>3. QED
  BY <1>1, <1>2, SoundTypesInvariant, PTL DEF Spec

(* x has not heard of y, and stops when it does.                           *)
Newcomer(x, y) == vip[x].state = "START" /\ y \notin ToSet(vip[x].node_list)

Tied(x, y) == Follows(x) /\ Follows(y) /\ Priority[x] = Priority[y]

(* One of two nodes of one priority has yet to hear of the other, and if   *)
(* one goes on without the other it is the other that has.                 *)
OneIsNew ==
  \A x, y \in Nodes : x # y /\ Tied(x, y) =>
    /\ Newcomer(x, y) \/ Newcomer(y, x)
    /\ Ahead(x, y) => Newcomer(y, x)

(* A step that leaves the group alone.                                     *)
LEMMA QuietTied ==
  ASSUME OneIsNew, QuietStep
  PROVE  OneIsNew'
<1>1. \A x, y \in Nodes : Tied(x, y)' => Tied(x, y) /\ vip'[x] = vip[x] /\ vip'[y] = vip[y]
  BY DEF QuietStep, Tied
<1>2. \A x, y \in Nodes : Ahead(x, y)' => Ahead(x, y)
  BY DEF QuietStep, Ahead
<1>3. QED
  BY <1>1, <1>2 DEF OneIsNew, Newcomer

(* x leaves: there are no two left.                                        *)
LEMMA DepartureTied ==
  ASSUME AtMostTwoNodes, SoundTypes, NEW x \in Nodes, DepartureStep(x)
  PROVE  OneIsNew'
<1>1. ~Follows(x)'
  BY DEF DepartureStep, Follows, SoundTypes, TypeOK
<1>2. QED
  BY <1>1 DEF OneIsNew, Tied, AtMostTwoNodes

(* x joins with an empty list: it is the newcomer.                         *)
LEMMA JoinTied ==
  ASSUME AtMostTwoNodes, SoundTypes, ThreadsFit, StartsAfresh, PairInv,
         NEW x \in Nodes, JoinGroup(x)
  PROVE  OneIsNew'
<1>1. /\ vip_thread[x] = "init" /\ vip' = [vip EXCEPT ![x].node_id = x]
      /\ vip_thread' = [vip_thread EXCEPT ![x] = IF vip[x].state = "IDLE" THEN "leaving"
                                                                     ELSE "running"]
  BY DEF JoinGroup
<1>2. vip'[x].state = vip[x].state /\ vip'[x].node_list = <<>>
  BY <1>1 DEF StartsAfresh, SoundTypes, TypeOK, Vips
<1>3. Follows(x)' => vip'[x].state = "START"
  BY <1>1, <1>2 DEF ThreadsFit, Follows
<1>4. \A y \in Nodes : Follows(x)' => Newcomer(x, y)'
  <2>1. ToSet(<<>>) = {}
    BY DEF ToSet
  <2>2. QED
    BY <1>2, <1>3, <2>1 DEF Newcomer
<1>5. \A n, m \in Nodes : Follows(m)' /\ Ahead(n, m)' => n # x
  BY JoinPair
<1>6. QED
  BY <1>4, <1>5 DEF OneIsNew, Tied, AtMostTwoNodes

(* x dispatches an event: when that is word of the other, x stops, and     *)
(* when x goes on without it, x was ahead before.                          *)
LEMMA HandleTied ==
  ASSUME AtMostTwoNodes, SoundTypes, PairInv, KnowsItself, OneIsNew, NEW x \in Nodes, Handle(x)
  PROVE  OneIsNew'
<1>1. /\ vip[x] \in SoundVips /\ ip[x] \in BOOLEAN
      /\ inbox[x] \in Seq(Events) /\ inbox[x] # <<>>
      /\ vip_thread[x] = "running" /\ vip_thread' = vip_thread
  BY DEF SoundTypes, TypeOK, Handle
<1> DEFINE e == Head(inbox[x])
<1>2. e \in Events /\ e = inbox[x][1]
  BY <1>1, HeadTailProperties, EmptySeq
<1>3. PICK works \in BOOLEAN :
        vip' = [vip EXCEPT ![x] = Dispatch(x, vip[x], ip[x], e, works).vip]
  BY DEF Handle
<1> DEFINE out == Dispatch(x, vip[x], ip[x], e, works)
<1>4. /\ out.vip = IdleVip \/ Tracks(vip[x], e, out.vip)
      /\ vip[x].state = "START" /\ out.vip.state = "BACKUP" =>
           /\ e.type = "state"
           /\ list_entries(out.vip.node_list) = member_list_entries(out.vip)
  BY <1>1, <1>2, DispatchTracks, EventsAreGroupEvents
<1>5. /\ Moves(vip[x], ip[x], out)
      /\ /\ e.type = "state" /\ vip[x].state = "START"
         /\ Priority[e.nodeid] = Priority[x] /\ e.nodeid # vip[x].node_id
         => out.vip = IdleVip
  BY <1>1, <1>2, DispatchMoves, EventsAreGroupEvents
<1>6. out.vip \in SoundVips
  BY <1>1, <1>2, DispatchContract, EventsAreGroupEvents DEF Contract, Outcomes
<1>7. vip' = [vip EXCEPT ![x] = out.vip]
  BY <1>3
<1> HIDE DEF out, e
<1>8. vip'[x] = out.vip /\ \A n \in Nodes \ {x} : vip'[n] = vip[n]
  BY <1>7 DEF SoundTypes
<1>9. \A n, m \in Nodes : n # m /\ Ahead(n, m)' => Ahead(n, m)
  BY HandlePair
<1>10. ASSUME NEW y \in Nodes, y # x, Tied(x, y)', Newcomer(x, y)
       PROVE  Newcomer(x, y)' \/ Ahead(x, y)
  <2>1. Follows(x) /\ Tracks(vip[x], e, vip'[x]) /\ vip'[x].state # "IDLE"
    BY <1>1, <1>4, <1>8, <1>10 DEF Follows, Tied, Newcomer, IdleVip
  <2>2. Priority[x] = Priority[y]
    BY <1>10 DEF Tied
  <2>3. ~(e.type = "state" /\ e.nodeid = y)
    BY <1>5, <1>8, <1>10, <2>1, <2>2, NodesAssumption
    DEF KnowsItself, Newcomer, IdleVip, NoNode
  <2>4. y \notin ToSet(vip'[x].node_list)
    BY <1>2, <1>10, <2>1, <2>3 DEF Tracks, Newcomer, Events
  <2>5. CASE vip'[x].state \in Active
    BY <1>1, <1>9, <1>10, <2>1, <2>5 DEF Ahead, Tied
  <2>6. CASE vip'[x].state = "BACKUP"
    <3>1. /\ e.type = "state"
          /\ list_entries(vip'[x].node_list) = member_list_entries(vip'[x])
          /\ vip'[x].member_list = vip[x].member_list
      BY <1>4, <1>8, <1>10, <2>1, <2>6 DEF Newcomer, Tracks
    <3>2. x \in vip[x].member_list
      BY <1>1, <1>2, <2>1, <3>1 DEF PairInv, NobodyLacksItself, ViewLacks, IsConfig
    <3>3. y \notin vip[x].member_list
      <4>1. /\ vip'[x].node_list \in NodeLists /\ vip'[x].node_list \in Seq(Nodes)
            /\ vip'[x].member_list \in SUBSET Nodes /\ IsFiniteSet(vip'[x].member_list)
        BY <1>6, <1>8, NodesAssumption, FS_Subset DEF SoundVips, NodeLists
      <4>2. ToSet(vip'[x].node_list) \subseteq Nodes
        BY <4>1, LenProperties, ElementOfSeq DEF ToSet
      <4>3. ToSet(vip'[x].node_list) \subseteq vip'[x].member_list
        BY <1>10, <2>4, <3>1, <3>2, <4>2 DEF AtMostTwoNodes
      <4>4. Cardinality(ToSet(vip'[x].node_list)) = Cardinality(vip'[x].member_list)
        BY <3>1, <4>1, LengthCountsElements DEF member_list_entries
      <4>5. ToSet(vip'[x].node_list) = vip'[x].member_list
        BY <4>1, <4>3, <4>4, FS_Subset
      <4>6. QED
        BY <2>4, <3>1, <4>5
    <3>4. QED
      BY <1>2, <2>1, <3>1, <3>3 DEF Ahead, ViewLacks, IsConfig
  <2>7. CASE vip'[x].state = "START"
    BY <2>4, <2>7 DEF Newcomer
  <2>8. QED
    BY <1>6, <1>8, <2>1, <2>5, <2>6, <2>7 DEF SoundVips, States, Active
<1>11. \A y \in Nodes \ {x} :
         /\ Tied(x, y)' => Tied(x, y) /\ Tied(y, x)
         /\ Tied(y, x)' => Tied(x, y) /\ Tied(y, x) /\ Tied(x, y)'
         /\ Newcomer(y, x)' <=> Newcomer(y, x)
  <2>1. Follows(x)' => Follows(x)
    BY <1>1, <1>5, <1>8 DEF Follows, Moves, SameRole, Standby, Active
  <2>2. \A y \in Nodes \ {x} : Follows(y)' <=> Follows(y)
    BY <1>1, <1>8 DEF Follows
  <2>3. QED
    BY <1>8, <2>1, <2>2 DEF Tied, Newcomer
<1>12. ASSUME NEW y \in Nodes, y # x, Tied(x, y)'
       PROVE  /\ Newcomer(x, y)' \/ Newcomer(y, x)'
              /\ Ahead(x, y)' => Newcomer(y, x)'
              /\ Ahead(y, x)' => Newcomer(x, y)'
  <2>1. /\ Newcomer(x, y) \/ Newcomer(y, x)
        /\ Ahead(x, y) => Newcomer(y, x)
        /\ Ahead(y, x) => Newcomer(x, y)
    BY <1>11, <1>12 DEF OneIsNew
  <2>2. Newcomer(x, y) => Newcomer(x, y)' \/ Ahead(x, y)
    BY <1>10, <1>12
  <2>3. ~(Ahead(x, y) /\ Ahead(y, x))
    BY <1>12 DEF PairInv, OneIsAhead
  <2>4. (Ahead(x, y)' => Ahead(x, y)) /\ (Ahead(y, x)' => Ahead(y, x))
    BY <1>9, <1>12
  <2>5. Newcomer(y, x)' <=> Newcomer(y, x)
    BY <1>11, <1>12
  <2>6. QED
    BY <2>1, <2>2, <2>3, <2>4, <2>5
<1>13. QED
  <2> SUFFICES ASSUME NEW n \in Nodes, NEW m \in Nodes, n # m, Tied(n, m)'
               PROVE  /\ Newcomer(n, m)' \/ Newcomer(m, n)'
                      /\ Ahead(n, m)' => Newcomer(m, n)'
    BY DEF OneIsNew
  <2>1. CASE n = x
    BY <1>12, <2>1
  <2>2. CASE m = x
    BY <1>11, <1>12, <2>2
  <2>3. QED
    BY <2>1, <2>2 DEF AtMostTwoNodes

(* In every behaviour whose starts are fresh one of the two is new.        *)
LEMMA OneIsNewInvariant ==
  ASSUME AtMostTwoNodes, NeverCutOff
  PROVE  Spec /\ []StartsAfresh => []OneIsNew
<1>1. Init => OneIsNew
  BY DEF Init, OneIsNew, Tied, Follows
<1>2. ASSUME SoundTypes, DeviceInv, ThreadsFit, PairInv, KnowsItself, StartsAfresh, OneIsNew,
             NEW x \in Nodes, VipThread(x) \/ Control(x) \/ Environment(x)
      PROVE  OneIsNew'
  <2>1. ~CutOff(x) /\ ~Heal(x)
    BY <1>2 DEF NeverCutOff, CutOff, Heal, Spend, SoundTypes, TypeOK, Kinds, PairInv
  <2>2. QED
    BY <1>2, <2>1, StepShapes, QuietTied, DepartureTied, JoinTied, HandleTied
<1>3. /\ SoundTypes /\ DeviceInv /\ ThreadsFit /\ PairInv /\ KnowsItself /\ StartsAfresh
      /\ OneIsNew /\ [Next]_vars
      => OneIsNew'
  <2> SUFFICES ASSUME SoundTypes, DeviceInv, ThreadsFit, PairInv, KnowsItself, StartsAfresh,
                      OneIsNew, [Next]_vars
               PROVE  OneIsNew'
    OBVIOUS
  <2>1. CASE Next
    BY <1>2, <2>1 DEF Next
  <2>2. CASE UNCHANGED vars
    <3>1. QuietStep
      BY <2>2 DEF vars, QuietStep, Joined, Follows
    <3>2. QED
      BY <3>1, QuietTied
  <2>3. QED
    BY <2>1, <2>2
<1>4. QED
  BY <1>1, <1>3, SoundTypesInvariant, DeviceInvariant, ThreadsFitInvariant, PairInvariant,
     KnowsItselfInvariant, PTL DEF Spec

(* Two nodes of one priority never settle in one group: whichever hears of *)
(* the other in START stops, and the one that serves stays, unless a start *)
(* finds the names of the last run on its list (the run stale_duplicate).  *)
THEOREM PrioritiesDiffer ==
  ASSUME AtMostTwoNodes, NeverCutOff
  PROVE  Spec /\ []StartsAfresh => []QuiescentPrioritiesDiffer
<1>1. OneIsNew /\ QuiescentListsAgree => QuiescentPrioritiesDiffer
  <2> SUFFICES ASSUME OneIsNew, QuiescentListsAgree, Quiescent,
                      NEW n \in Joined, NEW m \in Peers(n), Priority[m] = Priority[n]
               PROVE  FALSE
    BY DEF QuiescentPrioritiesDiffer
  <2>1. n \in Nodes /\ m \in Joined /\ m \in Nodes /\ n # m /\ n \in Peers(m)
    BY DEF Peers, Joined
  <2>2. Tied(n, m)
    BY <2>1 DEF Tied, Follows, Quiescent, Joined
  <2>3. m \in ToSet(vip[n].node_list) /\ n \in ToSet(vip[m].node_list)
    BY <2>1 DEF QuiescentListsAgree, Group
  <2>4. QED
    BY <2>1, <2>2, <2>3 DEF OneIsNew, Newcomer
<1>2. QED
  BY <1>1, OneIsNewInvariant, ListsAgree, PTL

(* So it is when a virtual IP starts only when its module is loaded.       *)
COROLLARY FreshPrioritiesDiffer ==
  ASSUME AtMostTwoNodes, StartsWithItsProcess
  PROVE  Spec => []QuiescentPrioritiesDiffer
BY StartsAreFresh, PrioritiesDiffer, PTL DEF StartsWithItsProcess, NeverCutOff
=============================================================================
