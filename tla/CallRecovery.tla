---------------------------- MODULE CallRecovery ----------------------------
(***************************************************************************)
(* The calls of a virtual IP.  Sofia keeps on every node a table,          *)
(* sip_recovery, of the calls to recover; a change of the table on the     *)
(* node that serves is sent to the group and applied by the others, and a  *)
(* backup that takes the address over recovers the calls of its table.     *)
(*                                                                         *)
(* Two threads of a node meet here: vip_thread, which dispatches the group *)
(* (VirtualIp), and the thread of FreeSWITCH that handles its events one   *)
(* after the other.  The group is settled when a behaviour begins and is   *)
(* never partitioned; the timers, the arbiter and the device, which        *)
(* VipGroup has, only start and stop the virtual IP and are left out.      *)
(* What Sofia does by itself (its sessions, its table, its rows fired as   *)
(* events) is as the patches of src/patches and the code of mod_cpg need.  *)
(***************************************************************************)
EXTENDS VirtualIp, Config

CONSTANTS Calls,      \* the calls that may be made, each once
          ProfileOf,  \* the Sofia profile of a call
          Files,      \* what cpg.conf.xml may say of the profiles
          Scenarios   \* the members at first, and what may happen to them

ASSUME FilesAssumption == Files \subseteq Seq(Entries)

Kinds == {"fall", "up", "ip"}

ASSUME ScenariosAssumption ==
  /\ AutoRollback \subseteq Nodes
  /\ ProfileOf \in [Calls -> SipProfiles]
  /\ Scenarios \subseteq [members : (SUBSET Nodes) \ {{}}, file : Files, calls : SUBSET Calls,
                          limit : [Kinds -> SUBSET Nodes]]

VARIABLES
  vip,         \* virtual_ip_t, per node
  phase,       \* the process, its vip_thread and the go_down that waits for it
  inbox,       \* CPG events not yet dispatched
  profiles,    \* vip.config.profiles, as read by the running process
  launch,      \* launches of FreeSWITCH so far: each has a runtime_uuid
  master_uuid, \* vip.runtime_uuid: that of the last master heard
  sofia,       \* table, sessions and event queue of FreeSWITCH, per node
  made,        \* the calls that were ever made
  over,        \* the calls one of the parties has hung up
  owed,        \* calls of a fallen master that every backup had in its table
  past,        \* what the node has been through
  left         \* the nodes each kind of environment event may still strike

groupVars == <<vip, phase, inbox, profiles, launch, master_uuid>>
historyVars == <<made, over, owed, past>>
vars == <<groupVars, sofia, historyVars, left>>

Names(n) == {p.name : p \in ToSet(profiles[n])}

-----------------------------------------------------------------------------
(* Sofia: the table and the statements that change it *)

(* switch_core_get_uuid() of the process that runs on n.                   *)
uuid(n) == <<n, launch[n]>>

Row(c, u) == [uuid |-> c, runtime_uuid |-> u]

Insert(rows)        == [op |-> "insert", rows |-> rows]
InsertMissing(rows) == [op |-> "insert_missing", rows |-> rows]
Delete(rows)        == [op |-> "delete", rows |-> rows]
DeleteOf(u, profile) == [op |-> "delete_of", runtime_uuid |-> u, profile |-> profile]

Execute(rows, sql) ==
  CASE sql.op = "insert"         -> rows \cup sql.rows
    [] sql.op = "insert_missing" ->
         rows \cup {r \in sql.rows : \A present \in rows : present.uuid # r.uuid}
    [] sql.op = "delete"         -> rows \ sql.rows
    [] sql.op = "delete_of"      ->
         {r \in rows : r.runtime_uuid # sql.runtime_uuid \/ ProfileOf[r.uuid] # sql.profile}

Fire(s, event) == [s EXCEPT !.events = Append(@, event)]

(* Sofia begins or ends calls of one profile: its own table changes and    *)
(* the change is fired as an event for mod_cpg.                            *)
Track(s, u, calls, profile) ==
  LET rows == {Row(c, u) : c \in calls}
  IN  IF calls = {} THEN s
      ELSE Fire([s EXCEPT !.calls = @ \cup calls, !.sip_recovery = @ \cup rows],
                [type |-> "recovery_send", profile |-> profile, sql |-> Insert(rows)])

Untrack(s, u, calls, profile) ==
  LET rows == {Row(c, u) : c \in calls}
  IN  IF calls = {} THEN s
      ELSE Fire([s EXCEPT !.calls = @ \ calls, !.sip_recovery = @ \ rows],
                [type |-> "recovery_send", profile |-> profile, sql |-> Delete(rows)])

-----------------------------------------------------------------------------
(* cpg_utils.c: what mod_cpg asks of Sofia, on the record s of one node *)

utils_send_track_event(s, sql, profile) ==
  Fire(s, [type |-> "recovery_recv", profile |-> profile, sql |-> sql])

(* Mutant of utils_send_request_all: the subclass of the event is wrong.   *)
utils_send_request_all_misnamed(s, profile) == Fire(s, [type |-> "request", profile |-> profile])

utils_send_request_all(s, profile) == Fire(s, [type |-> "request_all", profile |-> profile])

utils_clean_up_table(s, u, profile) == utils_send_track_event(s, DeleteOf(u, profile), profile)

utils_hupall(s, u, profile) ==
  Untrack(s, u, {c \in s.calls : ProfileOf[c] = profile}, profile)

(* Mutant of utils_recover: the rows are deleted before they are selected. *)
utils_recover_emptied(s, u, profile) ==
  LET kept == {r \in s.sip_recovery : r.runtime_uuid = u \/ ProfileOf[r.uuid] # profile}
  IN  Track([s EXCEPT !.sip_recovery = kept], u, {r.uuid : r \in kept \ kept}, profile)

(* "sofia profile recover": the rows of other processes are taken out of   *)
(* the table and their calls set up again as calls of this one.            *)
utils_recover(s, u, profile) ==
  LET rows == {r \in s.sip_recovery : r.runtime_uuid # u /\ ProfileOf[r.uuid] = profile}
  IN  Track([s EXCEPT !.sip_recovery = @ \ rows], u, {r.uuid : r \in rows}, profile)

(* The loops of cpg_virtual_ip.c and fsm.c over the configured profiles.   *)

(* Mutant of virtual_ip_send_all_sql: the loop starts at the second.       *)
virtual_ip_send_all_sql_from_second(n, s) ==
  FoldLeft(LAMBDA t, p : utils_send_request_all(t, p.name), s, Tail(profiles[n]))

virtual_ip_send_all_sql(n, s) ==
  FoldLeft(LAMBDA t, p : utils_send_request_all(t, p.name), s, profiles[n])

RecoverCalls(n, s) ==
  FoldLeft(LAMBDA t, p : IF p.autorecover THEN utils_recover(t, uuid(n), p.name) ELSE t,
           s, profiles[n])

(* Mutant of CleanUpTables: only the profiles to recover are cleaned.      *)
CleanUpTablesToRecover(n, s) ==
  FoldLeft(LAMBDA t, p : IF p.autorecover
                           THEN utils_clean_up_table(t, master_uuid[n], p.name) ELSE t,
           s, profiles[n])

CleanUpTables(n, s) ==
  FoldLeft(LAMBDA t, p : utils_clean_up_table(t, master_uuid[n], p.name), s, profiles[n])

(* Mutant of HangUpCalls: a node that serves no more has nothing to end.   *)
HangUpCallsIfServing(n, s) ==
  IF vip[n].state \in Active
    THEN FoldLeft(LAMBDA t, p : utils_hupall(t, uuid(n), p.name), s, profiles[n])
    ELSE s

(* Mutant of HangUpCalls: only the profiles to recover are hung up.        *)
HangUpCallsToRecover(n, s) ==
  FoldLeft(LAMBDA t, p : IF p.autorecover THEN utils_hupall(t, uuid(n), p.name) ELSE t,
           s, profiles[n])

HangUpCalls(n, s) == FoldLeft(LAMBDA t, p : utils_hupall(t, uuid(n), p.name), s, profiles[n])

-----------------------------------------------------------------------------
(* The group *)

Joined == {n \in Nodes : phase[n] \in {"running", "stopping"}}

Multicast(box, to, events) ==
  [m \in Nodes |-> IF m \in to THEN box[m] \o events ELSE box[m]]

(* A node_msg_t, with the sender's runtime_uuid.                           *)
Stamped(n, messages) ==
  [i \in DOMAIN messages |->
     [type |-> "state", nodeid |-> n, state |-> messages[i].state, runtime_uuid |-> uuid(n)]]

Sql(n, profile, sql) == [type |-> "sql", nodeid |-> n, profile |-> profile, sql |-> sql]

Departure(n) ==
  LET rest == Joined \ {n}
  IN  [Multicast(inbox, rest, <<Down(n, rest)>>) EXCEPT ![n] = <<>>]

Spend(kind, n) ==
  /\ n \in left[kind]
  /\ left' = [left EXCEPT ![kind] = @ \ {n}]

-----------------------------------------------------------------------------
(* A settled group: the first member by priority serves, the others back   *)
(* it up, all have read one file and know each other.  The rest is down.   *)
Ranked(members) == CHOOSE list \in [1..Cardinality(members) -> members] : list \in NodeLists

First(members) == node_first(Ranked(members))

Settled(n, members) ==
  [state |-> IF n = First(members) THEN "MASTER" ELSE "BACKUP", node_id |-> n,
   master_id |-> First(members), rollback_node_id |-> NoNode,
   node_list |-> Ranked(members), member_list |-> members]

Init ==
  /\ \E scenario \in Scenarios :
       LET members == scenario.members
       IN  /\ vip = [n \in Nodes |-> IF n \in members THEN Settled(n, members) ELSE IdleVip]
           /\ phase = [n \in Nodes |-> IF n \in members THEN "running" ELSE "dead"]
           /\ launch = [n \in Nodes |-> IF n \in members THEN 1 ELSE 0]
           /\ master_uuid = [n \in Nodes |-> <<First(members), 1>>]
           /\ past = [n \in Nodes |-> IF n \in members \ {First(members)} THEN "backup"
                                                                        ELSE "fresh"]
           /\ made = Calls \ scenario.calls
           /\ profiles = [n \in Nodes |-> do_config(scenario.file)]
           /\ left = scenario.limit
  /\ inbox = [n \in Nodes |-> <<>>]
  /\ sofia = [n \in Nodes |-> [sip_recovery |-> {}, calls |-> {}, events |-> <<>>]]
  /\ over = {}
  /\ owed = {}

-----------------------------------------------------------------------------
(* vip_thread *)

(* The action the table gives for an event of the group.                   *)
EventOf(n, v, e) ==
  CASE e.type = "down"  -> IF v.master_id = e.nodeid THEN "MASTER_DOWN" ELSE "BACKUP_DOWN"
    [] e.type = "up"    -> "BACKUP_UP"
    [] e.type = "state" -> MessageEvent(n, Recorded(v, e), e)

Action(n, v, e) ==
  IF EventOf(n, v, e) = "none" THEN "none" ELSE table[EventOf(n, v, e)][v.state]

(* What that action does to the calls, "after" being the virtual_ip_t it   *)
(* leaves: a go_down, also one at the end of a failed react, hangs up.     *)
OnCalls(n, v, after, e, s) ==
  CASE Action(n, v, e) = "backupup"                            -> virtual_ip_send_all_sql(n, s)
    [] Action(n, v, e) = "react" /\ after.state = "MASTER"     -> RecoverCalls(n, s)
    [] Action(n, v, e) = "react" /\ after.state = "BACKUP"     -> CleanUpTables(n, s)
    [] v.state # "IDLE" /\ after.state = "IDLE"                -> HangUpCalls(n, s)
    [] OTHER                                                   -> s

(* A configuration change or a state message.                              *)
HandleEvent(n) ==
  /\ n \in Joined
  /\ inbox[n] # <<>>
  /\ Head(inbox[n]).type # "sql"
  /\ LET e == Head(inbox[n])
         Outcome(works) == Dispatch(n, vip[n], vip[n].state \in Active, e, works)
     IN  /\ \E works \in BOOLEAN :
              /\ IF works THEN left' = left
                 ELSE Spend("ip", n) /\ Outcome(FALSE) # Outcome(TRUE)
              /\ \E out \in {Outcome(works)} :
                   /\ vip' = [vip EXCEPT ![n] = out.vip]
                   /\ inbox' = Multicast([inbox EXCEPT ![n] = Tail(@)], Joined,
                                         Stamped(n, out.sent))
                   /\ sofia' = [sofia EXCEPT ![n] = OnCalls(n, vip[n], out.vip, e, @)]
         /\ master_uuid' = IF e.type = "state" /\ e.state \in Active
                             THEN [master_uuid EXCEPT ![n] = e.runtime_uuid]
                             ELSE master_uuid
  /\ past' = [past EXCEPT ![n] =
                 IF vip'[n].state = "IDLE" THEN "stopped"
                 ELSE IF @ = "backup" /\ vip'[n].state # "BACKUP" THEN "fresh"
                 ELSE @]
  /\ UNCHANGED <<phase, profiles, launch, made, over, owed>>

(* A node's own SQL is skipped, unless go_down has reset its node_id.      *)
DeliverSql(n) ==
  /\ n \in Joined
  /\ inbox[n] # <<>>
  /\ Head(inbox[n]).type = "sql"
  /\ inbox' = [inbox EXCEPT ![n] = Tail(@)]
  /\ LET e == Head(inbox[n])
     IN  sofia' = IF vip[n].node_id # e.nodeid /\ e.profile \in Names(n)
                    THEN [sofia EXCEPT ![n] = utils_send_track_event(@, e.sql, e.profile)]
                    ELSE sofia
  /\ UNCHANGED <<vip, phase, profiles, launch, master_uuid, historyVars, left>>

(* The calls of n that every other member could recover if n fell now,     *)
(* none when there is no other.                                            *)
Replicated(n) ==
  LET peers == Joined \ {n}
  IN  {c \in sofia[n].calls :
         peers # {} /\ \A m \in peers :
           /\ vip[m].state = "BACKUP"
           /\ Row(c, uuid(n)) \in sofia[m].sip_recovery
           /\ [name |-> ProfileOf[c], autorecover |-> TRUE] \in ToSet(profiles[m])}

Falls(n) ==
  /\ inbox' = Departure(n)
  /\ owed' = (owed \ sofia[n].calls) \cup Replicated(n)

LeaveGroup(n) ==
  /\ n \in Joined
  /\ vip[n].state = "IDLE"
  /\ Falls(n)
  /\ phase' = [phase EXCEPT ![n] = IF @ = "stopping" THEN "returning" ELSE "idle"]
  /\ UNCHANGED <<vip, profiles, launch, master_uuid, sofia, made, over, past, left>>

-----------------------------------------------------------------------------
(* The thread of FreeSWITCH's events *)

(* event_handler: a change of the own table goes to the group; without a   *)
(* group there is no one to send it to.                                    *)
event_handler(n, e) ==
  inbox' = IF n \in Joined /\ e.profile \in Names(n)
             THEN Multicast(inbox, Joined, <<Sql(n, e.profile, e.sql)>>)
             ELSE inbox

(* sofia_glue_track_event_handler: a statement of another node, or the     *)
(* request to fire every row.                                              *)
TrackEvent(s, e) ==
  IF e.type = "recovery_recv"
    THEN [s EXCEPT !.sip_recovery = Execute(@, e.sql)]
    ELSE IF s.sip_recovery = {} THEN s
    ELSE Fire(s, [type |-> "recovery_send", profile |-> e.profile,
                  sql |-> InsertMissing(s.sip_recovery)])

HandleFsEvent(n) ==
  /\ sofia[n].events # <<>>
  /\ LET e    == Head(sofia[n].events)
         rest == [sofia[n] EXCEPT !.events = Tail(@)]
     IN  IF e.type = "recovery_send"
           THEN event_handler(n, e) /\ sofia' = [sofia EXCEPT ![n] = rest]
           ELSE sofia' = [sofia EXCEPT ![n] = TrackEvent(rest, e)] /\ inbox' = inbox
  /\ UNCHANGED <<vip, phase, profiles, launch, master_uuid, historyVars, left>>

-----------------------------------------------------------------------------
(* Calls are made to the address and hung up by their parties.             *)
CallBegins(n) ==
  /\ phase[n] = "running"
  /\ vip[n].state \in Active
  /\ \E c \in Calls \ made :
       /\ made' = made \cup {c}
       /\ sofia' = [sofia EXCEPT ![n] = Track(@, uuid(n), {c}, ProfileOf[c])]
  /\ UNCHANGED <<groupVars, over, owed, past, left>>

CallEnds(n) ==
  /\ \E c \in sofia[n].calls :
       /\ over' = over \cup {c}
       /\ sofia' = [sofia EXCEPT ![n] = Untrack(@, uuid(n), {c}, ProfileOf[c])]
  /\ UNCHANGED <<groupVars, made, owed, past, left>>

-----------------------------------------------------------------------------
(* Stops, crashes and starts *)

(* go_down by another thread, up to its join of vip_thread ...             *)
Stop(n) ==
  /\ phase[n] = "running"
  /\ vip[n].state # "IDLE"
  /\ Spend("fall", n)
  /\ vip' = [vip EXCEPT ![n] = go_down(@)]
  /\ phase' = [phase EXCEPT ![n] = "stopping"]
  /\ past' = [past EXCEPT ![n] = "stopped"]
  /\ UNCHANGED <<inbox, profiles, launch, master_uuid, sofia, made, over, owed>>

(* ... and after it.                                                       *)
StopReturns(n) ==
  /\ phase[n] = "returning"
  /\ phase' = [phase EXCEPT ![n] = "idle"]
  /\ sofia' = [sofia EXCEPT ![n] = HangUpCalls(n, @)]
  /\ UNCHANGED <<vip, inbox, profiles, launch, master_uuid, historyVars, left>>

(* The process ends: sessions and events are gone, the table stays.        *)
Crash(n) ==
  /\ phase[n] # "dead"
  /\ Spend("fall", n)
  /\ IF n \in Joined THEN Falls(n) ELSE UNCHANGED <<inbox, owed>>
  /\ vip' = [vip EXCEPT ![n] = IdleVip]
  /\ phase' = [phase EXCEPT ![n] = "dead"]
  /\ sofia' = [sofia EXCEPT ![n].calls = {}, ![n].events = <<>>]
  /\ past' = [past EXCEPT ![n] = "fresh"]
  /\ UNCHANGED <<profiles, launch, master_uuid, made, over>>

(* go_up, and vip_thread up to cpg_join.                                   *)
GoUp(n) ==
  LET group == Joined \cup {n}
  IN  /\ vip' = [vip EXCEPT ![n] = [go_up(@) EXCEPT !.node_id = n]]
      /\ phase' = [phase EXCEPT ![n] = "running"]
      /\ inbox' = Multicast(inbox, group, <<Up(group)>>)

Start(n) ==
  /\ phase[n] = "idle"
  /\ Spend("up", n)
  /\ GoUp(n)
  /\ UNCHANGED <<profiles, launch, master_uuid, sofia, historyVars>>

(* FreeSWITCH is launched, reads the file and starts the virtual IP.       *)
Load(n) ==
  /\ phase[n] = "dead"
  /\ Spend("up", n)
  /\ GoUp(n)
  /\ launch' = [launch EXCEPT ![n] = @ + 1]
  /\ \E file \in Files : profiles' = [profiles EXCEPT ![n] = do_config(file)]
  /\ UNCHANGED <<master_uuid, sofia, historyVars>>

-----------------------------------------------------------------------------
Next ==
  \E n \in Nodes :
    \/ HandleEvent(n) \/ DeliverSql(n) \/ LeaveGroup(n)
    \/ HandleFsEvent(n) \/ CallBegins(n) \/ CallEnds(n)
    \/ Stop(n) \/ StopReturns(n) \/ Crash(n) \/ Start(n) \/ Load(n)

Spec == Init /\ [][Next]_vars

-----------------------------------------------------------------------------
(* Types *)

Uuids == Nodes \X Nat

Rows == [uuid : Calls, runtime_uuid : Uuids]

Statements == [op : {"insert", "insert_missing", "delete"}, rows : SUBSET Rows]
              \cup [op : {"delete_of"}, runtime_uuid : Uuids, profile : SipProfiles]

FsEvents == [type : {"recovery_send", "recovery_recv"}, profile : SipProfiles, sql : Statements]
            \cup [type : {"request_all"}, profile : SipProfiles]

GroupEvents == [type : {"down"}, nodeid : Nodes, member_list : SUBSET Nodes]
               \cup [type : {"up"}, member_list : SUBSET Nodes]
               \cup [type : {"state"}, nodeid : Nodes, state : States, runtime_uuid : Uuids]
               \cup [type : {"sql"}, nodeid : Nodes, profile : SipProfiles, sql : Statements]

(* The shapes of the variables.                                            *)
TypeOK ==
  /\ vip \in [Nodes -> Vips]
  /\ phase \in [Nodes -> {"dead", "idle", "running", "stopping", "returning"}]
  /\ inbox \in [Nodes -> Seq(GroupEvents)]
  /\ profiles \in [Nodes -> Seq([name : SipProfiles, autorecover : BOOLEAN])]
  /\ launch \in [Nodes -> Nat]
  /\ master_uuid \in [Nodes -> Uuids]
  /\ sofia \in [Nodes -> [sip_recovery : SUBSET Rows, calls : SUBSET Calls,
                          events : Seq(FsEvents)]]
  /\ made \subseteq Calls
  /\ over \subseteq Calls
  /\ owed \subseteq Calls
  /\ past \in [Nodes -> {"backup", "fresh", "stopped"}]
  /\ left \in [Kinds -> SUBSET Nodes]

-----------------------------------------------------------------------------
(* Safety *)

(* Nothing is under way: no event, no message, no thread about to act.     *)
AtRest ==
  \A n \in Nodes : /\ inbox[n] = <<>>
                   /\ sofia[n].events = <<>>
                   /\ phase[n] \in {"dead", "idle", "running"}
                   /\ phase[n] = "running" => vip[n].state # "IDLE"

Serving == {n \in Nodes : vip[n].state \in Active}

(* At rest every backup could recover every call in progress, of the       *)
(* profiles that both nodes have: whether it has been there all along or   *)
(* joined in the middle of the calls, when the master sends it "l'elenco   *)
(* delle chiamate presenti nel cluster" (fsm.c:136).  A node stopped and   *)
(* started again within one process is left out: its own late SQL, applied *)
(* because go_down has reset node_id, may stand in the way of the rows.    *)
BackupsCanRecover ==
  AtRest =>
    \A m \in Serving : \A b \in Nodes :
      vip[b].state = "BACKUP" /\ past[b] # "stopped" =>
        \A c \in sofia[m].calls :
          ProfileOf[c] \in Names(m) \cap Names(b) =>
            \E r \in sofia[b].sip_recovery : r.uuid = c /\ r.runtime_uuid # uuid(b)

(* At rest the table of a node that has been BACKUP all along holds no row *)
(* of a call that is over or was lost with a master, of a profile that the *)
(* node would recover: it would come back as a ghost at the next take-over.*)
(* Rows of other profiles may stay for ever: a request for the rows of one *)
(* profile sends those of all, the end of such a call is never sent.       *)
SteadyBackupsHoldNoGhosts ==
  AtRest =>
    \A b \in {n \in Nodes : past[n] = "backup"} :
      \A r \in sofia[b].sip_recovery :
        ProfileOf[r.uuid] \in Names(b) => \E m \in Serving : r.uuid \in sofia[m].calls

(* A call that every backup had in its table when its master fell is, if a *)
(* node takes over, still in progress at rest or was hung up by a party    *)
(* (fsm.c:63: "nel caso reagisco prendendomi ip e chiamate").              *)
OwedCallsSurvive ==
  AtRest /\ Serving # {} => owed \subseteq over \cup UNION {sofia[m].calls : m \in Serving}

(* Two nodes hold one call only while the go_down of one has not returned: *)
(* the new master recovers before the old one hangs up.                    *)
OneHolderPerCall ==
  \A m, n \in {k \in Nodes : phase[k] \notin {"stopping", "returning"}} :
    m # n => sofia[m].calls \cap sofia[n].calls = {}

(* A node that does not serve holds no call of its profiles, whichever way *)
(* it lost the address, once the go_down of another thread has returned    *)
(* from its join and hung up (fsm.c:283).                                  *)
OnlyServersHoldCalls ==
  \A n \in Nodes :
    \/ vip[n].state \in Active
    \/ phase[n] \in {"stopping", "returning"}
    \/ \A c \in sofia[n].calls : ProfileOf[c] \notin Names(n)

(* The profiles of a node are the first valid entries of one of the files  *)
(* it may have read, each name once, as many as the array holds: do_config *)
(* neither skips one nor lets a later entry of the same name replace it.   *)
ProfilesAreFirstValid ==
  \A n \in Nodes : \E file \in Files : IsFirstValid(profiles[n], file)

=============================================================================
