------------------------- MODULE CallRecoveryProofs -------------------------
(***************************************************************************)
(* What holds of CallRecovery for every group of nodes, every file, every  *)
(* assignment of calls to profiles and every scenario: do_config keeps the *)
(* first valid entries of the file, every table, event and message has its *)
(* type, the calls of a node end with its role, and of two nodes that name *)
(* the same profiles at most one holds a call. The loops of the code over  *)
(* the entries and the profiles are folds, and FoldProofs gives the        *)
(* induction over their turns.                                             *)
(***************************************************************************)
EXTENDS CallRecovery, VirtualIpProofs

-----------------------------------------------------------------------------
(* do_config *)

ReadEntry(context, read, entry) == ReadProfile(read, entry)

Reading == INSTANCE FoldProofs WITH Body <- ReadEntry

(* The loop of do_config is an instance of the loop of FoldProofs.         *)
LEMMA ReadingIsLoop == \A file : do_config(file) = Reading!Loop(0, <<>>, file)
BY DEF do_config, Reading!Loop, ReadEntry, FoldLeft, MapThenFoldSet, Reading!FoldLeft,
       Reading!MapThenFoldSet, Max, Reading!Max

Profiles == [name : SipProfiles, autorecover : BOOLEAN]

(* IsFirstValid for the first i entries of the file.                       *)
Picked(pick, read, file, i) ==
  /\ pick \in [DOMAIN read -> {v \in Valid(file) : v <= i}]
  /\ \A k \in DOMAIN read : read[k] = file[pick[k]]
  /\ \A k, l \in DOMAIN read : k < l => pick[k] < pick[l]
  /\ \A v \in Valid(file) : v <= i =>
       \/ \E k \in DOMAIN read : pick[k] = v
       \/ /\ Len(read) = MAX_SOFIA_PROFILES
          /\ \A k \in DOMAIN read : pick[k] < v

ReadUpTo(file, i) ==
  {read \in Seq(Profiles) : /\ Len(read) <= MAX_SOFIA_PROFILES
                            /\ \E pick : Picked(pick, read, file, i)}

(* An entry whose name is not in the array, while there is room, is valid: *)
(* had the name come before, its first entry would be in the array.        *)
LEMMA NewNameIsValid ==
  ASSUME NEW file \in Seq(Entries), NEW i \in 0..(Len(file) - 1), NEW read \in Seq(Profiles),
         NEW pick, Picked(pick, read, file, i), Len(read) < MAX_SOFIA_PROFILES,
         utils_profile_control(file[i + 1].name),
         ~profile_name_is_present(read, file[i + 1].name)
  PROVE  i + 1 \in Valid(file)
<1>1. Len(file) \in Nat /\ DOMAIN file = 1..Len(file) /\ Len(read) \in Nat
  BY LenProperties
<1> DEFINE same == {j \in 1..i : file[j].name = file[i + 1].name}
<1>2. CASE same = {}
  BY <1>1, <1>2 DEF Valid
<1>3. CASE same # {}
  <2>1. PICK least \in same : \A j \in same : least <= j
    <3>1. same \in SUBSET Nat
      OBVIOUS
    <3>2. QED
      BY <1>3, <3>1, LeastElement
  <2>2. least \in Valid(file) /\ least <= i
    BY <1>1, <2>1 DEF Valid, utils_profile_control
  <2>3. PICK k \in DOMAIN read : pick[k] = least
    BY <1>1, <2>2, ProfilesAssumption DEF Picked
  <2>4. read[k].name = file[i + 1].name
    BY <2>1, <2>3 DEF Picked
  <2>5. QED
    BY <2>3, <2>4 DEF profile_name_is_present
<1>4. QED
  BY <1>2, <1>3

(* One turn of the loop: the array is right for one entry more.            *)
LEMMA ReadProfileTurn ==
  ASSUME NEW file \in Seq(Entries), NEW i \in 0..(Len(file) - 1), NEW read \in ReadUpTo(file, i)
  PROVE  ReadProfile(read, file[i + 1]) \in ReadUpTo(file, i + 1)
<1> DEFINE entry == file[i + 1]
<1>1. /\ Len(file) \in Nat /\ DOMAIN file = 1..Len(file)
      /\ read \in Seq(Profiles) /\ Len(read) \in Nat /\ DOMAIN read = 1..Len(read)
      /\ i \in Nat /\ i + 1 \in DOMAIN file
  BY LenProperties DEF ReadUpTo
<1>2. MAX_SOFIA_PROFILES \in Nat /\ Len(read) \in Nat /\ Len(read) <= MAX_SOFIA_PROFILES
  BY <1>1, ProfilesAssumption DEF ReadUpTo
<1>3. PICK pick : Picked(pick, read, file, i)
  BY DEF ReadUpTo
<1>4. Valid(file) \in SUBSET Nat
  BY <1>1 DEF Valid
<1>5. CASE \/ Len(read) >= MAX_SOFIA_PROFILES
           \/ ~utils_profile_control(entry.name)
           \/ profile_name_is_present(read, entry.name)
  <2>1. ReadProfile(read, entry) = read
    BY <1>5 DEF ReadProfile
  <2>2. \/ i + 1 \notin Valid(file)
        \/ /\ Len(read) = MAX_SOFIA_PROFILES
           /\ \A k \in DOMAIN read : pick[k] < i + 1
    <3>1. CASE Len(read) >= MAX_SOFIA_PROFILES
      <4>1. Len(read) = MAX_SOFIA_PROFILES
        BY <1>2, <3>1
      <4>2. \A k \in DOMAIN read : pick[k] \in Nat /\ pick[k] <= i
        BY <1>3, <1>4 DEF Picked
      <4>3. \A k \in DOMAIN read : pick[k] < i + 1
        BY <1>1, <4>2
      <4>4. QED
        BY <4>1, <4>3
    <3>2. CASE ~utils_profile_control(entry.name)
      BY <3>2 DEF Valid
    <3>3. CASE profile_name_is_present(read, entry.name)
      <4>1. PICK k \in DOMAIN read : read[k].name = entry.name
        BY <3>3 DEF profile_name_is_present
      <4>2. pick[k] \in 1..i /\ file[pick[k]].name = entry.name
        BY <1>1, <1>3, <1>4, <4>1 DEF Picked, Valid
      <4>3. QED
        BY <1>1, <4>2 DEF Valid
    <3>4. QED
      BY <1>5, <3>1, <3>2, <3>3
  <2>3. Picked(pick, read, file, i + 1)
    <3>1. pick \in [DOMAIN read -> {v \in Valid(file) : v <= i + 1}]
      BY <1>1, <1>3, <1>4 DEF Picked
    <3>2. ASSUME NEW v \in Valid(file), v <= i + 1
          PROVE  \/ \E k \in DOMAIN read : pick[k] = v
                 \/ /\ Len(read) = MAX_SOFIA_PROFILES
                    /\ \A k \in DOMAIN read : pick[k] < v
      <4>1. CASE v <= i
        BY <1>3, <4>1 DEF Picked
      <4>2. CASE v = i + 1
        BY <2>2, <4>2
      <4>3. QED
        BY <1>1, <1>4, <3>2, <4>1, <4>2
    <3>3. QED
      BY <1>3, <3>1, <3>2 DEF Picked
  <2>4. QED
    BY <1>1, <1>2, <2>1, <2>3 DEF ReadUpTo
<1>6. CASE /\ Len(read) < MAX_SOFIA_PROFILES
           /\ utils_profile_control(entry.name)
           /\ ~profile_name_is_present(read, entry.name)
  <2>1. ReadProfile(read, entry) = Append(read, entry)
    BY <1>1, <1>2, <1>6 DEF ReadProfile
  <2>2. i + 1 \in Valid(file)
    BY <1>1, <1>3, <1>6, NewNameIsValid
  <2>3. entry \in Profiles
    <3>1. entry \in Entries
      BY <1>1, ElementOfSeq
    <3>2. QED
      BY <1>6, <3>1 DEF Entries, Profiles, utils_profile_control
  <2> DEFINE longer == Append(read, entry)
             picked == [k \in 1..(Len(read) + 1) |-> IF k = Len(read) + 1 THEN i + 1 ELSE pick[k]]
  <2>4. /\ longer \in Seq(Profiles)
        /\ Len(longer) = Len(read) + 1 /\ DOMAIN longer = 1..(Len(read) + 1)
        /\ longer[Len(read) + 1] = entry
        /\ \A k \in 1..Len(read) : longer[k] = read[k]
    BY <1>1, <2>3, AppendProperties
  <2> HIDE DEF longer
  <2>5. \A k \in 1..Len(read) : pick[k] \in Valid(file) /\ pick[k] <= i /\ read[k] = file[pick[k]]
    BY <1>1, <1>3 DEF Picked
  <2>6. \A k, l \in 1..Len(read) : k < l => pick[k] < pick[l]
    BY <1>1, <1>3 DEF Picked
  <2>7. Picked(picked, longer, file, i + 1)
    <3>1. picked \in [DOMAIN longer -> {v \in Valid(file) : v <= i + 1}]
      BY <1>1, <1>4, <2>2, <2>4, <2>5
    <3>2. \A k \in DOMAIN longer : longer[k] = file[picked[k]]
      BY <1>1, <2>4, <2>5
    <3>3. \A k, l \in DOMAIN longer : k < l => picked[k] < picked[l]
      BY <1>1, <1>4, <2>4, <2>5, <2>6
    <3>4. ASSUME NEW v \in Valid(file), v <= i + 1
          PROVE  \E k \in DOMAIN longer : picked[k] = v
      <4>1. CASE v <= i
        <5>1. PICK k \in 1..Len(read) : pick[k] = v
          <6>1. Len(read) # MAX_SOFIA_PROFILES
            BY <1>2, <1>6
          <6>2. \E k \in DOMAIN read : pick[k] = v
            BY <1>3, <4>1, <6>1 DEF Picked
          <6>3. QED
            BY <1>1, <6>2
        <5>2. QED
          BY <1>1, <2>4, <5>1
      <4>2. CASE v = i + 1
        BY <1>1, <2>4, <4>2
      <4>3. QED
        BY <1>1, <1>4, <3>4, <4>1, <4>2
    <3>5. QED
      BY <3>1, <3>2, <3>3, <3>4 DEF Picked
  <2>8. Len(longer) <= MAX_SOFIA_PROFILES
    BY <1>1, <1>2, <1>6, <2>4
  <2>9. longer \in ReadUpTo(file, i + 1)
    BY <2>4, <2>7, <2>8 DEF ReadUpTo
  <2>10. QED
    BY <2>1, <2>9 DEF longer
<1>7. QED
  BY <1>1, <1>2, <1>5, <1>6

(* do_config keeps the first valid entries of any file.                    *)
LEMMA DoConfigKeepsFirstValid ==
  ASSUME NEW file \in Seq(Entries)
  PROVE  do_config(file) \in Seq(Profiles) /\ IsFirstValid(do_config(file), file)
<1> DEFINE Kept == [i \in 0..Len(file) |-> ReadUpTo(file, i)]
<1>1. Len(file) \in Nat /\ DOMAIN file = 1..Len(file)
  BY LenProperties
<1>2. <<>> \in ReadUpTo(file, 0)
  <2>1. /\ <<>> \in Seq(Profiles) /\ Len(<<>>) = 0 /\ DOMAIN <<>> = {}
        /\ Len(<<>>) <= MAX_SOFIA_PROFILES
    BY EmptySeq, ProfilesAssumption
  <2>2. ~\E v \in Valid(file) : v <= 0
    BY <1>1 DEF Valid
  <2>3. Picked([k \in {} |-> 0], <<>>, file, 0)
    BY <2>1, <2>2 DEF Picked
  <2>4. QED
    BY <2>1, <2>3 DEF ReadUpTo
<1>3. \A i \in 0..(Len(file) - 1) : \A x \in Kept[i] : ReadEntry(0, x, file[i + 1]) \in Kept[i + 1]
  BY <1>1, ReadProfileTurn DEF ReadEntry
<1>4. <<>> \in Kept[0]
  BY <1>1, <1>2
<1> HIDE DEF Kept
<1>5. Reading!Loop(0, <<>>, file) \in Kept[Len(file)]
  BY <1>1, <1>3, <1>4, Reading!LoopInvariant
<1>6. do_config(file) \in ReadUpTo(file, Len(file))
  BY <1>1, <1>5, ReadingIsLoop DEF Kept
<1>7. PICK pick : Picked(pick, do_config(file), file, Len(file))
  BY <1>6 DEF ReadUpTo
<1>8. {v \in Valid(file) : v <= Len(file)} = Valid(file)
  BY <1>1 DEF Valid
<1>9. QED
  BY <1>6, <1>7, <1>8 DEF Picked, ReadUpTo, IsFirstValid

-----------------------------------------------------------------------------
(* Sofia *)

(* The types of the model, for the calls of a set: that set grows while    *)
(* calls are made, and nothing speaks of a call before it is.              *)
RowsOf(C) == [uuid : C, runtime_uuid : Uuids]

StatementsOf(C) == [op : {"insert", "insert_missing", "delete"}, rows : SUBSET RowsOf(C)]
                   \cup [op : {"delete_of"}, runtime_uuid : Uuids, profile : SipProfiles]

FsEventsOf(C) ==
  [type : {"recovery_send", "recovery_recv"}, profile : SipProfiles, sql : StatementsOf(C)]
  \cup [type : {"request_all"}, profile : SipProfiles]

GroupEventsOf(C) ==
  [type : {"down"}, nodeid : Nodes, member_list : SUBSET Nodes]
  \cup [type : {"up"}, member_list : SUBSET Nodes]
  \cup [type : {"state"}, nodeid : Nodes, state : States, runtime_uuid : Uuids]
  \cup [type : {"sql"}, nodeid : Nodes, profile : SipProfiles, sql : StatementsOf(C)]

Sofias(C) == [sip_recovery : SUBSET RowsOf(C), calls : SUBSET C, events : Seq(FsEventsOf(C))]

(* A sequence of elements of a set is one of elements of a larger set.     *)
LEMMA LargerSeq ==
  ASSUME NEW S, NEW T, S \subseteq T, NEW seq \in Seq(S)
  PROVE  seq \in Seq(T)
<1>1. Len(seq) \in Nat /\ seq = [i \in 1..Len(seq) |-> seq[i]]
  BY LenProperties
<1>2. \A i \in 1..Len(seq) : seq[i] \in T
  BY ElementOfSeq
<1>3. QED
  BY <1>1, <1>2, IsASeq

(* What is typed for some calls is typed for more.                         *)
LEMMA LargerTypes ==
  ASSUME NEW C, NEW D, C \subseteq D
  PROVE  Sofias(C) \subseteq Sofias(D) /\ Seq(GroupEventsOf(C)) \subseteq Seq(GroupEventsOf(D))
<1>1. RowsOf(C) \subseteq RowsOf(D)
  BY DEF RowsOf
<1>2. StatementsOf(C) \subseteq StatementsOf(D)
  BY <1>1 DEF StatementsOf
<1>3. FsEventsOf(C) \subseteq FsEventsOf(D) /\ GroupEventsOf(C) \subseteq GroupEventsOf(D)
  BY <1>2 DEF FsEventsOf, GroupEventsOf
<1>4. Seq(FsEventsOf(C)) \subseteq Seq(FsEventsOf(D))
  BY <1>3, LargerSeq
<1>5. Seq(GroupEventsOf(C)) \subseteq Seq(GroupEventsOf(D))
  BY <1>3, LargerSeq
<1>6. Sofias(C) \subseteq Sofias(D)
  BY <1>1, <1>4 DEF Sofias
<1>7. QED
  BY <1>5, <1>6

(* The types of the model are those for all calls.                         *)
LEMMA TypesOfAllCalls ==
  /\ Rows = RowsOf(Calls) /\ Statements = StatementsOf(Calls)
  /\ FsEvents = FsEventsOf(Calls) /\ GroupEvents = GroupEventsOf(Calls)
BY DEF Rows, RowsOf, Statements, StatementsOf, FsEvents, FsEventsOf, GroupEvents, GroupEventsOf

(* The rows of calls of one process.                                       *)
LEMMA RowsType ==
  ASSUME NEW C, NEW u \in Uuids, NEW calls \in SUBSET C
  PROVE  {Row(c, u) : c \in calls} \in SUBSET RowsOf(C)
BY DEF Row, RowsOf

(* An event queued is an event to be handled.                              *)
LEMMA FireType ==
  ASSUME NEW C, NEW s \in Sofias(C), NEW event \in FsEventsOf(C)
  PROVE  Fire(s, event) \in Sofias(C)
<1>1. Append(s.events, event) \in Seq(FsEventsOf(C))
  BY AppendProperties DEF Sofias
<1>2. QED
  BY <1>1 DEF Fire, Sofias

(* A statement of any kind can travel in both events that carry one.       *)
LEMMA StatementTypes ==
  ASSUME NEW C
  PROVE  /\ \A rows \in SUBSET RowsOf(C) : /\ Insert(rows) \in StatementsOf(C)
                                           /\ InsertMissing(rows) \in StatementsOf(C)
                                           /\ Delete(rows) \in StatementsOf(C)
         /\ \A u \in Uuids, profile \in SipProfiles : DeleteOf(u, profile) \in StatementsOf(C)
BY DEF Insert, InsertMissing, Delete, DeleteOf, StatementsOf

(* A statement applied to a table leaves a table.                          *)
LEMMA ExecuteType ==
  ASSUME NEW C, NEW rows \in SUBSET RowsOf(C), NEW sql \in StatementsOf(C)
  PROVE  Execute(rows, sql) \in SUBSET RowsOf(C)
<1>1. CASE sql \in [op : {"insert", "insert_missing", "delete"}, rows : SUBSET RowsOf(C)]
  <2>1. sql.op \in {"insert", "insert_missing", "delete"} /\ sql.rows \in SUBSET RowsOf(C)
    BY <1>1
  <2>2. CASE sql.op = "insert"
    BY <2>1, <2>2 DEF Execute
  <2>3. CASE sql.op = "insert_missing"
    BY <2>1, <2>3 DEF Execute
  <2>4. CASE sql.op = "delete"
    BY <2>1, <2>4 DEF Execute
  <2>5. QED
    BY <2>1, <2>2, <2>3, <2>4
<1>2. CASE sql \in [op : {"delete_of"}, runtime_uuid : Uuids, profile : SipProfiles]
  <2>1. sql.op = "delete_of"
    BY <1>2
  <2>2. QED
    BY <2>1 DEF Execute
<1>3. QED
  BY <1>1, <1>2 DEF StatementsOf

(* Calls begun or ended: the table and the event that reports the change.  *)
LEMMA TrackType ==
  ASSUME NEW C, NEW s \in Sofias(C), NEW u \in Uuids, NEW calls \in SUBSET C,
         NEW profile \in SipProfiles
  PROVE  Track(s, u, calls, profile) \in Sofias(C)
<1> DEFINE rows == {Row(c, u) : c \in calls}
           begun == [s EXCEPT !.calls = @ \cup calls, !.sip_recovery = @ \cup rows]
           event == [type |-> "recovery_send", profile |-> profile, sql |-> Insert(rows)]
<1>1. rows \in SUBSET RowsOf(C)
  BY RowsType
<1>2. event \in FsEventsOf(C)
  BY <1>1, StatementTypes DEF FsEventsOf
<1>3. begun \in Sofias(C)
  BY <1>1 DEF Sofias
<1>4. Track(s, u, calls, profile) = IF calls = {} THEN s ELSE Fire(begun, event)
  BY DEF Track
<1> HIDE DEF begun, event
<1>5. QED
  BY <1>2, <1>3, <1>4, FireType

(* Calls ended, likewise.                                                  *)
LEMMA UntrackType ==
  ASSUME NEW C, NEW s \in Sofias(C), NEW u \in Uuids, NEW calls \in SUBSET C,
         NEW profile \in SipProfiles
  PROVE  Untrack(s, u, calls, profile) \in Sofias(C)
<1> DEFINE rows == {Row(c, u) : c \in calls}
           ended == [s EXCEPT !.calls = @ \ calls, !.sip_recovery = @ \ rows]
           event == [type |-> "recovery_send", profile |-> profile, sql |-> Delete(rows)]
<1>1. rows \in SUBSET RowsOf(C)
  BY RowsType
<1>2. event \in FsEventsOf(C)
  BY <1>1, StatementTypes DEF FsEventsOf
<1>3. ended \in Sofias(C)
  BY DEF Sofias
<1>4. Untrack(s, u, calls, profile) = IF calls = {} THEN s ELSE Fire(ended, event)
  BY DEF Untrack
<1> HIDE DEF ended, event
<1>5. QED
  BY <1>2, <1>3, <1>4, FireType

(* What mod_cpg asks of Sofia for one profile.                             *)
LEMMA RequestType ==
  ASSUME NEW C, NEW s \in Sofias(C), NEW profile \in SipProfiles
  PROVE  utils_send_request_all(s, profile) \in Sofias(C)
<1>1. [type |-> "request_all", profile |-> profile] \in FsEventsOf(C)
  BY DEF FsEventsOf
<1>2. QED
  BY <1>1, FireType DEF utils_send_request_all

(* A statement for a table, of the own node or of another.                 *)
LEMMA TrackEventSentType ==
  ASSUME NEW C, NEW s \in Sofias(C), NEW sql \in StatementsOf(C), NEW profile \in SipProfiles
  PROVE  utils_send_track_event(s, sql, profile) \in Sofias(C)
<1>1. [type |-> "recovery_recv", profile |-> profile, sql |-> sql] \in FsEventsOf(C)
  BY DEF FsEventsOf
<1>2. QED
  BY <1>1, FireType DEF utils_send_track_event

(* The statement that deletes the rows of a fallen master.                 *)
LEMMA CleanUpType ==
  ASSUME NEW C, NEW s \in Sofias(C), NEW u \in Uuids, NEW profile \in SipProfiles
  PROVE  utils_clean_up_table(s, u, profile) \in Sofias(C)
BY StatementTypes, TrackEventSentType DEF utils_clean_up_table

(* Hanging up every call of a profile.                                     *)
LEMMA HupAllType ==
  ASSUME NEW C, NEW s \in Sofias(C), NEW u \in Uuids, NEW profile \in SipProfiles
  PROVE  utils_hupall(s, u, profile) \in Sofias(C)
<1>1. {c \in s.calls : ProfileOf[c] = profile} \in SUBSET C
  BY DEF Sofias
<1>2. QED
  BY <1>1, UntrackType DEF utils_hupall

(* Setting up again the calls of the rows of other processes.              *)
LEMMA RecoverType ==
  ASSUME NEW C, NEW s \in Sofias(C), NEW u \in Uuids, NEW profile \in SipProfiles
  PROVE  utils_recover(s, u, profile) \in Sofias(C)
<1> DEFINE rows == {r \in s.sip_recovery : r.runtime_uuid # u /\ ProfileOf[r.uuid] = profile}
           taken == [s EXCEPT !.sip_recovery = @ \ rows]
<1>1. {r.uuid : r \in rows} \in SUBSET C
  BY DEF Sofias, RowsOf
<1>2. taken \in Sofias(C)
  BY DEF Sofias
<1>3. utils_recover(s, u, profile) = Track(taken, u, {r.uuid : r \in rows}, profile)
  BY DEF utils_recover
<1> HIDE DEF rows, taken
<1>4. QED
  BY <1>1, <1>2, <1>3, TrackType

-----------------------------------------------------------------------------
(* The loops over the profiles *)

RequestOne(context, s, p) == utils_send_request_all(s, p.name)
RecoverOne(u, s, p) == IF p.autorecover THEN utils_recover(s, u, p.name) ELSE s
CleanUpOne(u, s, p) == utils_clean_up_table(s, u, p.name)
HangUpOne(u, s, p) == utils_hupall(s, u, p.name)

Requesting == INSTANCE FoldProofs WITH Body <- RequestOne
Recovering == INSTANCE FoldProofs WITH Body <- RecoverOne
CleaningUp == INSTANCE FoldProofs WITH Body <- CleanUpOne
HangingUp == INSTANCE FoldProofs WITH Body <- HangUpOne

(* The four loops are instances of the loop of FoldProofs: that of         *)
(* backupup ...                                                            *)
LEMMA RequestingIsLoop ==
  \A n, s : virtual_ip_send_all_sql(n, s) = Requesting!Loop(0, s, profiles[n])
BY DEF virtual_ip_send_all_sql, Requesting!Loop, RequestOne, FoldLeft, MapThenFoldSet,
       Requesting!FoldLeft, Requesting!MapThenFoldSet, Max, Requesting!Max

(* The loop of react over the profiles to recover ...                      *)
LEMMA RecoveringIsLoop == \A n, s : RecoverCalls(n, s) = Recovering!Loop(uuid(n), s, profiles[n])
BY DEF RecoverCalls, Recovering!Loop, RecoverOne, FoldLeft, MapThenFoldSet,
       Recovering!FoldLeft, Recovering!MapThenFoldSet, Max, Recovering!Max

(* ... the loop of react at a node that stays BACKUP ...                   *)
LEMMA CleaningUpIsLoop ==
  \A n, s : CleanUpTables(n, s) = CleaningUp!Loop(master_uuid[n], s, profiles[n])
BY DEF CleanUpTables, CleaningUp!Loop, CleanUpOne, FoldLeft, MapThenFoldSet,
       CleaningUp!FoldLeft, CleaningUp!MapThenFoldSet, Max, CleaningUp!Max

(* ... and the loop of go_down.                                            *)
LEMMA HangingUpIsLoop == \A n, s : HangUpCalls(n, s) = HangingUp!Loop(uuid(n), s, profiles[n])
BY DEF HangUpCalls, HangingUp!Loop, HangUpOne, FoldLeft, MapThenFoldSet,
       HangingUp!FoldLeft, HangingUp!MapThenFoldSet, Max, HangingUp!Max

(* Whatever the profiles, a loop leaves the record of a node.              *)
LEMMA LoopsType ==
  ASSUME NEW C, NEW n \in Nodes, NEW s \in Sofias(C), profiles[n] \in Seq(Profiles),
         uuid(n) \in Uuids, master_uuid[n] \in Uuids
  PROVE  /\ virtual_ip_send_all_sql(n, s) \in Sofias(C)
         /\ RecoverCalls(n, s) \in Sofias(C)
         /\ CleanUpTables(n, s) \in Sofias(C)
         /\ HangUpCalls(n, s) \in Sofias(C)
<1> DEFINE size == Len(profiles[n])
           Kept == [i \in 0..size |-> Sofias(C)]
<1>1. size \in Nat /\ DOMAIN profiles[n] = 1..size
  BY LenProperties
<1>2. \A i \in 0..(size - 1) : /\ profiles[n][i + 1].name \in SipProfiles
                              /\ i \in 0..size /\ i + 1 \in 0..size
  <2>1. ASSUME NEW i \in 0..(size - 1)
        PROVE  profiles[n][i + 1] \in Profiles
    <3>1. i + 1 \in 1..size
      BY <1>1
    <3>2. QED
      BY <3>1, ElementOfSeq
  <2>2. QED
    BY <1>1, <2>1 DEF Profiles
<1> HIDE DEF size
<1>3. \A i \in 0..size : Kept[i] = Sofias(C)
  OBVIOUS
<1>4. 0 \in 0..size /\ size \in 0..size
  BY <1>1
<1> HIDE DEF Kept
<1>5. virtual_ip_send_all_sql(n, s) \in Sofias(C)
  <2>1. \A i \in 0..(size - 1) : \A x \in Kept[i] :
          RequestOne(0, x, profiles[n][i + 1]) \in Kept[i + 1]
    BY <1>2, <1>3, RequestType DEF RequestOne
  <2>2. Requesting!Loop(0, s, profiles[n]) \in Kept[size]
    BY <1>1, <1>3, <1>4, <2>1, Requesting!LoopInvariant
  <2>3. QED
    BY <1>3, <1>4, <2>2, RequestingIsLoop
<1>6. RecoverCalls(n, s) \in Sofias(C)
  <2>1. \A i \in 0..(size - 1) : \A x \in Kept[i] :
          RecoverOne(uuid(n), x, profiles[n][i + 1]) \in Kept[i + 1]
    BY <1>2, <1>3, RecoverType DEF RecoverOne
  <2>2. Recovering!Loop(uuid(n), s, profiles[n]) \in Kept[size]
    BY <1>1, <1>3, <1>4, <2>1, Recovering!LoopInvariant
  <2>3. QED
    BY <1>3, <1>4, <2>2, RecoveringIsLoop
<1>7. CleanUpTables(n, s) \in Sofias(C)
  <2>1. \A i \in 0..(size - 1) : \A x \in Kept[i] :
          CleanUpOne(master_uuid[n], x, profiles[n][i + 1]) \in Kept[i + 1]
    BY <1>2, <1>3, CleanUpType DEF CleanUpOne
  <2>2. CleaningUp!Loop(master_uuid[n], s, profiles[n]) \in Kept[size]
    BY <1>1, <1>3, <1>4, <2>1, CleaningUp!LoopInvariant
  <2>3. QED
    BY <1>3, <1>4, <2>2, CleaningUpIsLoop
<1>8. HangUpCalls(n, s) \in Sofias(C)
  <2>1. \A i \in 0..(size - 1) : \A x \in Kept[i] :
          HangUpOne(uuid(n), x, profiles[n][i + 1]) \in Kept[i + 1]
    BY <1>2, <1>3, HupAllType DEF HangUpOne
  <2>2. HangingUp!Loop(uuid(n), s, profiles[n]) \in Kept[size]
    BY <1>1, <1>3, <1>4, <2>1, HangingUp!LoopInvariant
  <2>3. QED
    BY <1>3, <1>4, <2>2, HangingUpIsLoop
<1>9. QED
  BY <1>5, <1>6, <1>7, <1>8

-----------------------------------------------------------------------------
(* A settled group *)

(* Every set of nodes can be listed by priority: add them one by one.      *)
LEMMA RankingExists ==
  \A members \in SUBSET Nodes : \E list \in NodeLists : ToSet(list) = members
<1> SUFFICES ASSUME NEW members \in SUBSET Nodes,
                    ~\E list \in NodeLists : ToSet(list) = members
             PROVE  FALSE
  OBVIOUS
<1> DEFINE unlisted == {S \in SUBSET Nodes : ~\E list \in NodeLists : ToSet(list) = S}
           sizes == {Cardinality(S) : S \in unlisted}
<1>1. \A S \in SUBSET Nodes : IsFiniteSet(S) /\ Cardinality(S) \in Nat
  BY NodesAssumption, FS_Subset, FS_CardinalityType
<1>2. PICK least \in sizes : \A i \in sizes : least <= i
  <2>1. sizes \in SUBSET Nat /\ sizes # {}
    BY <1>1
  <2>2. QED
    BY <2>1, LeastElement
<1>3. PICK S \in unlisted : Cardinality(S) = least
  BY <1>2
<1>4. S # {}
  <2>1. <<>> \in NodeLists /\ ToSet(<<>>) = {}
    BY EmptySeq DEF NodeLists, ByPriority, NoDuplicates, ToSet
  <2>2. QED
    BY <2>1
<1>5. PICK x \in S : TRUE
  BY <1>4
<1>6. Cardinality(S \ {x}) = Cardinality(S) - 1
  BY <1>1, <1>5, FS_RemoveElement
<1>7. S \ {x} \notin unlisted
  <2>1. Cardinality(S) \in Nat /\ Cardinality(S \ {x}) \in Nat
    BY <1>1
  <2>2. ~(least <= Cardinality(S \ {x}))
    BY <1>3, <1>6, <2>1
  <2>3. QED
    BY <1>2, <2>2
<1>8. PICK list \in NodeLists : ToSet(list) = S \ {x}
  BY <1>7
<1>9. node_add(list, x) \in NodeLists /\ ToSet(node_add(list, x)) = S
  <2>1. x \in Nodes /\ ToSet(list) \cup {x} = S
    BY <1>5, <1>8
  <2>2. QED
    BY <2>1, NodeAddKeepsNodeList
<1>10. QED
  BY <1>9

(* Ranked lists the members, First is one of them.                         *)
LEMMA RankedType ==
  ASSUME NEW members \in SUBSET Nodes, members # {}
  PROVE  /\ Ranked(members) \in NodeLists /\ ToSet(Ranked(members)) = members
         /\ First(members) \in Nodes
<1> DEFINE size == Cardinality(members)
<1>1. PICK list \in NodeLists : ToSet(list) = members
  BY RankingExists
<1>2. size \in Nat /\ size > 0
  <2>1. IsFiniteSet(members)
    BY NodesAssumption, FS_Subset
  <2>2. size \in Nat /\ size # 0
    BY <2>1, FS_CardinalityType, FS_EmptySet
  <2>3. QED
    BY <2>2
<1>3. list \in [1..size -> members]
  <2>1. list \in Seq(Nodes) /\ Len(list) = size
    BY <1>1, LengthCountsElements DEF NodeLists, list_entries
  <2>2. DOMAIN list = 1..size /\ list = [k \in 1..size |-> list[k]]
    BY <2>1, LenProperties
  <2>3. \A k \in 1..size : list[k] \in members
    BY <1>1, <2>2 DEF ToSet
  <2>4. QED
    BY <2>2, <2>3
<1>4. Ranked(members) \in [1..size -> members] /\ Ranked(members) \in NodeLists
  BY <1>3 DEF Ranked
<1>5. Ranked(members) # <<>>
  BY <1>2, <1>4, EmptySeq
<1>6. First(members) = Ranked(members)[1]
  BY <1>5 DEF First, node_first
<1>7. First(members) \in members
  BY <1>2, <1>4, <1>6
<1>8. ToSet(Ranked(members)) = members
  <2>1. IsFiniteSet(members)
    BY NodesAssumption, FS_Subset
  <2>2. ToSet(Ranked(members)) \subseteq members
    BY <1>4 DEF ToSet
  <2>3. Len(Ranked(members)) = size
    BY <1>2, <1>4, LenProperties DEF NodeLists
  <2>4. Cardinality(ToSet(Ranked(members))) = size
    BY <1>4, <2>3, LengthCountsElements DEF list_entries
  <2>5. QED
    BY <2>1, <2>2, <2>4, FS_Subset
<1>9. QED
  BY <1>4, <1>7, <1>8

(* The virtual_ip_t of a member of a settled group is sound.               *)
LEMMA SettledType ==
  ASSUME NEW members \in SUBSET Nodes, NEW n \in members
  PROVE  Settled(n, members) \in SoundVips
<1>1. Ranked(members) \in NodeLists /\ First(members) \in Nodes
  BY RankedType
<1>2. QED
  BY <1>1 DEF Settled, SoundVips, States, Ids, NoNode

-----------------------------------------------------------------------------
(* The group *)

(* The events of this model are events that a handler takes.               *)
LEMMA EventsAreGroupEvents ==
  ASSUME NEW C, NEW e \in GroupEventsOf(C), e.type # "sql"
  PROVE  IsGroupEvent(e)
BY DEF GroupEventsOf, IsGroupEvent

(* The events put in the inboxes are events.                               *)
LEMMA MulticastType ==
  ASSUME NEW C, NEW box \in [Nodes -> Seq(GroupEventsOf(C))], NEW to,
         NEW events \in Seq(GroupEventsOf(C))
  PROVE  Multicast(box, to, events) \in [Nodes -> Seq(GroupEventsOf(C))]
<1>1. \A m \in Nodes : box[m] \o events \in Seq(GroupEventsOf(C))
  BY ConcatProperties
<1>2. QED
  BY <1>1 DEF Multicast

(* The messages of a handler, stamped by their sender.                     *)
LEMMA StampedType ==
  ASSUME NEW C, NEW n \in Nodes, NEW messages \in Seq(StateMessages), uuid(n) \in Uuids
  PROVE  Stamped(n, messages) \in Seq(GroupEventsOf(C))
<1> DEFINE stamp(i) == [type |-> "state", nodeid |-> n, state |-> messages[i].state,
                        runtime_uuid |-> uuid(n)]
<1>1. Len(messages) \in Nat /\ DOMAIN messages = 1..Len(messages)
  BY LenProperties
<1>2. \A i \in 1..Len(messages) : messages[i].state \in States
  <2>1. \A i \in 1..Len(messages) : messages[i] \in StateMessages
    BY ElementOfSeq
  <2>2. QED
    BY <2>1 DEF StateMessages
<1>3. \A i \in 1..Len(messages) : stamp(i) \in GroupEventsOf(C)
  BY <1>2 DEF GroupEventsOf
<1>4. Stamped(n, messages) = [i \in 1..Len(messages) |-> stamp(i)]
  BY <1>1 DEF Stamped
<1> HIDE DEF stamp
<1>5. [i \in 1..Len(messages) |-> stamp(i)] \in Seq(GroupEventsOf(C))
  BY <1>1, <1>3, IsASeq
<1>6. QED
  BY <1>4, <1>5

-----------------------------------------------------------------------------
(* Type correctness, with sound lists, and the profiles of the file *)

SoundTypes ==
  /\ vip \in [Nodes -> SoundVips]
  /\ phase \in [Nodes -> {"dead", "idle", "running", "stopping", "returning"}]
  /\ inbox \in [Nodes -> Seq(GroupEventsOf(made))]
  /\ profiles \in [Nodes -> Seq(Profiles)]
  /\ launch \in [Nodes -> Nat]
  /\ master_uuid \in [Nodes -> Uuids]
  /\ sofia \in [Nodes -> Sofias(made)]
  /\ made \subseteq Calls
  /\ over \subseteq Calls
  /\ owed \subseteq Calls
  /\ past \in [Nodes -> {"backup", "fresh", "stopped"}]
  /\ left \in [Kinds -> SUBSET Nodes]

(* They are types of the model.                                            *)
LEMMA SoundTypesAreTypes == SoundTypes => TypeOK
<1> SUFFICES ASSUME SoundTypes PROVE TypeOK
  OBVIOUS
<1>1. vip \in [Nodes -> Vips]
  BY SoundVipsAreVips DEF SoundTypes
<1>2. /\ Sofias(made) \subseteq Sofias(Calls)
      /\ Seq(GroupEventsOf(made)) \subseteq Seq(GroupEvents)
  <2>1. made \subseteq Calls
    BY DEF SoundTypes
  <2>2. QED
    BY <2>1, LargerTypes, TypesOfAllCalls
<1>3. inbox \in [Nodes -> Seq(GroupEvents)]
  BY <1>2 DEF SoundTypes
<1>4. sofia \in [Nodes -> Sofias(Calls)]
  BY <1>2 DEF SoundTypes
<1>5. sofia \in [Nodes -> [sip_recovery : SUBSET Rows, calls : SUBSET Calls,
                          events : Seq(FsEvents)]]
  BY <1>4, TypesOfAllCalls DEF Sofias
<1>6. profiles \in [Nodes -> Seq([name : SipProfiles, autorecover : BOOLEAN])]
  BY DEF SoundTypes, Profiles
<1>7. QED
  BY <1>1, <1>3, <1>5, <1>6 DEF SoundTypes, TypeOK

TypeInv == SoundTypes /\ ProfilesAreFirstValid

(* The uuid of a process.                                                  *)
LEMMA UuidType ==
  ASSUME SoundTypes, NEW n \in Nodes
  PROVE  uuid(n) \in Uuids
BY DEF uuid, Uuids, SoundTypes

(* A departure leaves inboxes of events.                                   *)
LEMMA DepartureType ==
  ASSUME SoundTypes, NEW n \in Nodes
  PROVE  Departure(n) \in [Nodes -> Seq(GroupEventsOf(made))]
<1> DEFINE rest == Joined \ {n}
<1>1. rest \in SUBSET Nodes
  BY DEF Joined
<1>2. Down(n, rest) \in GroupEventsOf(made)
  BY <1>1 DEF Down, GroupEventsOf
<1>3. <<Down(n, rest)>> \in Seq(GroupEventsOf(made))
  BY <1>2
<1>4. Multicast(inbox, rest, <<Down(n, rest)>>) \in [Nodes -> Seq(GroupEventsOf(made))]
  BY <1>3, MulticastType DEF SoundTypes
<1>5. <<>> \in Seq(GroupEventsOf(made))
  BY EmptySeq
<1>6. QED
  BY <1>4, <1>5 DEF Departure

(* The steps that several actions share keep the types.                    *)
LEMMA SpendType ==
  ASSUME SoundTypes, NEW kind \in Kinds, NEW n \in Nodes, Spend(kind, n)
  PROVE  left' \in [Kinds -> SUBSET Nodes]
BY DEF SoundTypes, Spend

(* A fall leaves inboxes of events and a set of owed calls.                *)
LEMMA FallsType ==
  ASSUME SoundTypes, NEW n \in Nodes, Falls(n)
  PROVE  inbox' \in [Nodes -> Seq(GroupEventsOf(made))] /\ owed' \subseteq Calls
<1>1. sofia[n].calls \in SUBSET Calls /\ owed \in SUBSET Calls
  BY DEF SoundTypes, Sofias
<1>2. Replicated(n) \in SUBSET Calls
  BY <1>1 DEF Replicated
<1>3. QED
  BY <1>1, <1>2, DepartureType DEF Falls

(* go_up and cpg_join.                                                     *)
LEMMA GoUpType ==
  ASSUME SoundTypes, NEW n \in Nodes, GoUp(n)
  PROVE  /\ vip' \in [Nodes -> SoundVips]
         /\ phase' \in [Nodes -> {"dead", "idle", "running", "stopping", "returning"}]
         /\ inbox' \in [Nodes -> Seq(GroupEventsOf(made))]
<1> DEFINE group == Joined \cup {n}
<1>1. [go_up(vip[n]) EXCEPT !.node_id = n] \in SoundVips
  <2>1. vip[n] \in SoundVips
    BY DEF SoundTypes
  <2>2. go_up(vip[n]) \in SoundVips
    BY <2>1 DEF go_up, SoundVips, States
  <2>3. QED
    BY <2>2 DEF SoundVips, Ids
<1>2. group \in SUBSET Nodes
  BY DEF Joined
<1>3. Up(group) \in GroupEventsOf(made)
  BY <1>2 DEF Up, GroupEventsOf
<1>4. <<Up(group)>> \in Seq(GroupEventsOf(made))
  BY <1>3
<1>5. Multicast(inbox, group, <<Up(group)>>) \in [Nodes -> Seq(GroupEventsOf(made))]
  BY <1>4, MulticastType DEF SoundTypes
<1>6. inbox' \in [Nodes -> Seq(GroupEventsOf(made))]
  BY <1>5 DEF GoUp
<1>7. QED
  BY <1>1, <1>6 DEF GoUp, SoundTypes

(* The record of a node, and what the loops over its profiles make of it.  *)
LEMMA SofiaType ==
  ASSUME SoundTypes, NEW n \in Nodes
  PROVE  /\ sofia[n] \in Sofias(made)
         /\ \A s \in Sofias(made) : /\ virtual_ip_send_all_sql(n, s) \in Sofias(made)
                              /\ RecoverCalls(n, s) \in Sofias(made)
                              /\ CleanUpTables(n, s) \in Sofias(made)
                              /\ HangUpCalls(n, s) \in Sofias(made)
<1>1. sofia[n] \in Sofias(made) /\ profiles[n] \in Seq(Profiles) /\ master_uuid[n] \in Uuids
  BY DEF SoundTypes, Profiles
<1>2. QED
  BY <1>1, UuidType, LoopsType

(* What a handler does to the calls leaves the record of a node.           *)
LEMMA OnCallsType ==
  ASSUME SoundTypes, NEW n \in Nodes, NEW v, NEW after, NEW e
  PROVE  OnCalls(n, v, after, e, sofia[n]) \in Sofias(made)
BY SofiaType DEF OnCalls

(* The steps of vip_thread keep the types ...                              *)
LEMMA HandleEventType ==
  ASSUME SoundTypes, NEW n \in Nodes, HandleEvent(n)
  PROVE  SoundTypes'
<1> DEFINE e == Head(inbox[n])
           out(w) == Dispatch(n, vip[n], vip[n].state \in Active, e, w)
<1>1. /\ vip[n] \in SoundVips /\ inbox[n] \in Seq(GroupEventsOf(made)) /\ inbox[n] # <<>>
      /\ e.type # "sql"
  BY DEF SoundTypes, HandleEvent
<1>2. e \in GroupEventsOf(made) /\ Tail(inbox[n]) \in Seq(GroupEventsOf(made))
  BY <1>1, HeadTailProperties
<1>3. IsGroupEvent(e)
  BY <1>1, <1>2, EventsAreGroupEvents
<1>4. PICK works \in BOOLEAN :
        /\ IF works THEN left' = left ELSE Spend("ip", n) /\ out(FALSE) # out(TRUE)
        /\ vip' = [vip EXCEPT ![n] = out(works).vip]
        /\ inbox' = Multicast([inbox EXCEPT ![n] = Tail(@)], Joined,
                              Stamped(n, out(works).sent))
        /\ sofia' = [sofia EXCEPT ![n] = OnCalls(n, vip[n], out(works).vip, e, @)]
  BY DEF HandleEvent
<1>5. out(works) \in Outcomes
  <2>1. (vip[n].state \in Active) \in BOOLEAN
    OBVIOUS
  <2>2. Contract(vip[n], vip[n].state \in Active, out(works))
    BY <1>1, <1>3, <2>1, DispatchContract
  <2>3. QED
    BY <2>2 DEF Contract
<1>6. out(works).vip \in SoundVips /\ out(works).sent \in Seq(StateMessages)
  BY <1>5 DEF Outcomes
<1> DEFINE after == out(works).vip
           sent == out(works).sent
<1>7. /\ after \in SoundVips /\ sent \in Seq(StateMessages)
      /\ vip' = [vip EXCEPT ![n] = after]
      /\ inbox' = Multicast([inbox EXCEPT ![n] = Tail(@)], Joined, Stamped(n, sent))
      /\ sofia' = [sofia EXCEPT ![n] = OnCalls(n, vip[n], after, e, @)]
      /\ left' = left \/ Spend("ip", n)
  BY <1>4, <1>6
<1> HIDE DEF after, sent, out
<1>8. vip' \in [Nodes -> SoundVips]
  BY <1>7 DEF SoundTypes
<1>9. inbox' \in [Nodes -> Seq(GroupEventsOf(made))]
  <2>1. Stamped(n, sent) \in Seq(GroupEventsOf(made))
    BY <1>7, StampedType, UuidType
  <2>2. [inbox EXCEPT ![n] = Tail(@)] \in [Nodes -> Seq(GroupEventsOf(made))]
    BY <1>2 DEF SoundTypes
  <2>3. QED
    BY <1>7, <2>1, <2>2, MulticastType
<1>10. sofia' \in [Nodes -> Sofias(made)]
  <2>1. sofia \in [Nodes -> Sofias(made)]
    BY DEF SoundTypes
  <2>2. OnCalls(n, vip[n], after, e, sofia[n]) \in Sofias(made)
    BY OnCallsType
  <2>3. QED
    BY <1>7, <2>1, <2>2
<1>11. left' \in [Kinds -> SUBSET Nodes]
  <2>1. "ip" \in Kinds
    BY DEF Kinds
  <2>2. QED
    BY <1>7, <2>1, SpendType DEF SoundTypes
<1>12. master_uuid' \in [Nodes -> Uuids]
  <2>1. master_uuid' = IF e.type = "state" /\ e.state \in Active
                         THEN [master_uuid EXCEPT ![n] = e.runtime_uuid]
                         ELSE master_uuid
    BY DEF HandleEvent
  <2>2. e.type = "state" => e.runtime_uuid \in Uuids
    BY <1>2 DEF GroupEventsOf
  <2>3. QED
    BY <2>1, <2>2 DEF SoundTypes
<1>13. past' \in [Nodes -> {"backup", "fresh", "stopped"}]
  <2>1. past' = [past EXCEPT ![n] =
                   IF vip'[n].state = "IDLE" THEN "stopped"
                   ELSE IF @ = "backup" /\ vip'[n].state # "BACKUP" THEN "fresh"
                   ELSE @]
    BY DEF HandleEvent
  <2>2. QED
    BY <2>1 DEF SoundTypes
<1>14. UNCHANGED <<phase, profiles, launch, made, over, owed>>
  BY DEF HandleEvent
<1>15. QED
  BY <1>8, <1>9, <1>10, <1>11, <1>12, <1>13, <1>14 DEF SoundTypes

(* ... a statement of another node ...                                     *)
LEMMA DeliverSqlType ==
  ASSUME SoundTypes, NEW n \in Nodes, DeliverSql(n)
  PROVE  SoundTypes'
<1> DEFINE e == Head(inbox[n])
<1>1. inbox[n] \in Seq(GroupEventsOf(made)) /\ inbox[n] # <<>> /\ e.type = "sql"
  BY DEF SoundTypes, DeliverSql
<1>2. e \in GroupEventsOf(made) /\ Tail(inbox[n]) \in Seq(GroupEventsOf(made))
  BY <1>1, HeadTailProperties
<1>3. e.profile \in SipProfiles /\ e.sql \in StatementsOf(made)
  BY <1>1, <1>2 DEF GroupEventsOf
<1>4. sofia \in [Nodes -> Sofias(made)]
  BY DEF SoundTypes
<1>5. utils_send_track_event(sofia[n], e.sql, e.profile) \in Sofias(made)
  BY <1>3, <1>4, TrackEventSentType
<1>6. \/ sofia' = sofia
      \/ sofia' = [sofia EXCEPT ![n] = utils_send_track_event(@, e.sql, e.profile)]
  BY DEF DeliverSql
<1>7. sofia' \in [Nodes -> Sofias(made)]
  BY <1>4, <1>5, <1>6
<1>8. inbox' \in [Nodes -> Seq(GroupEventsOf(made))]
  BY <1>2 DEF DeliverSql, SoundTypes
<1>9. UNCHANGED <<vip, phase, profiles, launch, master_uuid, historyVars, left>>
  BY DEF DeliverSql
<1>10. QED
  BY <1>7, <1>8, <1>9 DEF SoundTypes, historyVars

(* ... and the end of the thread;                                          *)
LEMMA LeaveGroupType ==
  ASSUME SoundTypes, NEW n \in Nodes, LeaveGroup(n)
  PROVE  SoundTypes'
<1>1. inbox' \in [Nodes -> Seq(GroupEventsOf(made))] /\ owed' \subseteq Calls
  BY FallsType DEF LeaveGroup
<1>2. QED
  BY <1>1 DEF LeaveGroup, SoundTypes

(* the thread of FreeSWITCH's events;                                      *)
LEMMA HandleFsEventType ==
  ASSUME SoundTypes, NEW n \in Nodes, HandleFsEvent(n)
  PROVE  SoundTypes'
<1> DEFINE e == Head(sofia[n].events)
           rest == [sofia[n] EXCEPT !.events = Tail(@)]
<1>1. sofia \in [Nodes -> Sofias(made)]
  BY DEF SoundTypes
<1>2. /\ sofia[n] \in Sofias(made) /\ sofia[n].sip_recovery \in SUBSET RowsOf(made)
      /\ sofia[n].events \in Seq(FsEventsOf(made)) /\ sofia[n].events # <<>>
  BY <1>1 DEF Sofias, HandleFsEvent
<1>3. e \in FsEventsOf(made) /\ Tail(sofia[n].events) \in Seq(FsEventsOf(made))
  BY <1>2, HeadTailProperties
<1>4. rest \in Sofias(made)
  BY <1>2, <1>3 DEF Sofias
<1>5. e.profile \in SipProfiles
  BY <1>3 DEF FsEventsOf
<1>6. CASE e.type = "recovery_send"
  <2>1. e.sql \in StatementsOf(made)
    BY <1>3, <1>6 DEF FsEventsOf
  <2>2. Sql(n, e.profile, e.sql) \in GroupEventsOf(made)
    BY <1>5, <2>1 DEF Sql, GroupEventsOf
  <2>3. <<Sql(n, e.profile, e.sql)>> \in Seq(GroupEventsOf(made))
    BY <2>2
  <2>4. Multicast(inbox, Joined, <<Sql(n, e.profile, e.sql)>>) \in [Nodes -> Seq(GroupEventsOf(made))]
    BY <2>3, MulticastType DEF SoundTypes
  <2>5. event_handler(n, e) /\ sofia' = [sofia EXCEPT ![n] = rest]
    BY <1>6 DEF HandleFsEvent
  <2>6. inbox' \in [Nodes -> Seq(GroupEventsOf(made))]
    BY <2>4, <2>5 DEF event_handler, SoundTypes
  <2>7. sofia' \in [Nodes -> Sofias(made)]
    BY <1>1, <1>4, <2>5
  <2>8. UNCHANGED <<vip, phase, profiles, launch, master_uuid, historyVars, left>>
    BY DEF HandleFsEvent
  <2>9. QED
    BY <2>6, <2>7, <2>8 DEF SoundTypes, historyVars
<1>7. CASE e.type # "recovery_send"
  <2>1. rest.sip_recovery \in SUBSET RowsOf(made)
    BY <1>4 DEF Sofias
  <2>2. TrackEvent(rest, e) \in Sofias(made)
    <3>1. CASE e.type = "recovery_recv"
      <4>1. e.sql \in StatementsOf(made)
        BY <1>3, <3>1 DEF FsEventsOf
      <4>2. Execute(rest.sip_recovery, e.sql) \in SUBSET RowsOf(made)
        BY <2>1, <4>1, ExecuteType
      <4>3. [rest EXCEPT !.sip_recovery = Execute(@, e.sql)] \in Sofias(made)
        BY <1>4, <4>2 DEF Sofias
      <4>4. QED
        BY <3>1, <4>3 DEF TrackEvent
    <3>2. CASE e.type # "recovery_recv"
      <4> DEFINE sent == [type |-> "recovery_send", profile |-> e.profile,
                          sql |-> InsertMissing(rest.sip_recovery)]
      <4>1. sent \in FsEventsOf(made)
        BY <1>5, <2>1, StatementTypes DEF FsEventsOf
      <4>2. Fire(rest, sent) \in Sofias(made)
        BY <1>4, <4>1, FireType
      <4>3. QED
        BY <1>4, <3>2, <4>2 DEF TrackEvent
    <3>3. QED
      BY <3>1, <3>2
  <2>3. sofia' = [sofia EXCEPT ![n] = TrackEvent(rest, e)] /\ inbox' = inbox
    BY <1>7 DEF HandleFsEvent
  <2>4. sofia' \in [Nodes -> Sofias(made)]
    BY <1>1, <2>2, <2>3
  <2>5. UNCHANGED <<vip, phase, profiles, launch, master_uuid, historyVars, left>>
    BY DEF HandleFsEvent
  <2>6. QED
    BY <2>3, <2>4, <2>5 DEF SoundTypes, historyVars
<1>8. QED
  BY <1>6, <1>7

(* the calls that begin ...                                                *)
LEMMA CallBeginsType ==
  ASSUME SoundTypes, NEW n \in Nodes, CallBegins(n)
  PROVE  SoundTypes'
<1>1. PICK c \in Calls :
        /\ made' = made \cup {c}
        /\ sofia' = [sofia EXCEPT ![n] = Track(@, uuid(n), {c}, ProfileOf[c])]
  BY DEF CallBegins
<1>2. ProfileOf[c] \in SipProfiles
  BY ScenariosAssumption
<1>3. sofia \in [Nodes -> Sofias(made)]
  BY DEF SoundTypes
<1>4. /\ sofia \in [Nodes -> Sofias(made \cup {c})]
      /\ inbox \in [Nodes -> Seq(GroupEventsOf(made \cup {c}))]
  <2>1. /\ Sofias(made) \subseteq Sofias(made \cup {c})
        /\ Seq(GroupEventsOf(made)) \subseteq Seq(GroupEventsOf(made \cup {c}))
    BY LargerTypes
  <2>2. QED
    BY <1>3, <2>1 DEF SoundTypes
<1>5. Track(sofia[n], uuid(n), {c}, ProfileOf[c]) \in Sofias(made \cup {c})
  BY <1>2, <1>4, UuidType, TrackType
<1>6. sofia' \in [Nodes -> Sofias(made')]
  BY <1>1, <1>4, <1>5
<1>7. inbox' \in [Nodes -> Seq(GroupEventsOf(made'))]
  BY <1>1, <1>4 DEF CallBegins, groupVars
<1>8. UNCHANGED <<groupVars, over, owed, past, left>>
  BY DEF CallBegins
<1>9. QED
  BY <1>1, <1>6, <1>7, <1>8 DEF SoundTypes, groupVars

(* ... that end ...                                                        *)
LEMMA CallEndsType ==
  ASSUME SoundTypes, NEW n \in Nodes, CallEnds(n)
  PROVE  SoundTypes'
<1>1. /\ sofia \in [Nodes -> Sofias(made)] /\ made \subseteq Calls
      /\ sofia[n].calls \in SUBSET made
  BY DEF SoundTypes, Sofias
<1>2. PICK c \in made :
        /\ over' = over \cup {c}
        /\ sofia' = [sofia EXCEPT ![n] = Untrack(@, uuid(n), {c}, ProfileOf[c])]
  BY <1>1 DEF CallEnds
<1>3. ProfileOf[c] \in SipProfiles
  BY <1>1, ScenariosAssumption
<1>4. Untrack(sofia[n], uuid(n), {c}, ProfileOf[c]) \in Sofias(made)
  BY <1>1, <1>3, UuidType, UntrackType
<1>5. sofia' \in [Nodes -> Sofias(made)]
  BY <1>1, <1>2, <1>4
<1>6. UNCHANGED <<groupVars, made, owed, past, left>>
  BY DEF CallEnds
<1>7. QED
  BY <1>2, <1>5, <1>6 DEF SoundTypes, groupVars

(* The first half of a go_down by another thread.                          *)
LEMMA StopType ==
  ASSUME SoundTypes, NEW n \in Nodes, Stop(n)
  PROVE  SoundTypes'
<1>1. left' \in [Kinds -> SUBSET Nodes]
  BY SpendType DEF Stop, Kinds
<1>2. vip' \in [Nodes -> SoundVips]
  BY IdleVipIsSound DEF Stop, go_down, SoundTypes
<1>3. QED
  BY <1>1, <1>2 DEF Stop, SoundTypes

(* The rest of go_down, which hangs up ...                                 *)
LEMMA StopReturnsType ==
  ASSUME SoundTypes, NEW n \in Nodes, StopReturns(n)
  PROVE  SoundTypes'
<1>1. sofia \in [Nodes -> Sofias(made)]
  BY DEF SoundTypes
<1>2. HangUpCalls(n, sofia[n]) \in Sofias(made)
  BY SofiaType
<1>3. sofia' \in [Nodes -> Sofias(made)]
  BY <1>1, <1>2 DEF StopReturns
<1>4. phase' \in [Nodes -> {"dead", "idle", "running", "stopping", "returning"}]
  BY DEF StopReturns, SoundTypes
<1>5. UNCHANGED <<vip, inbox, profiles, launch, master_uuid, historyVars, left>>
  BY DEF StopReturns
<1>6. QED
  BY <1>3, <1>4, <1>5 DEF SoundTypes, historyVars

(* ... the end of the process ...                                          *)
LEMMA CrashType ==
  ASSUME SoundTypes, NEW n \in Nodes, Crash(n)
  PROVE  SoundTypes'
<1>1. left' \in [Kinds -> SUBSET Nodes]
  BY SpendType DEF Crash, Kinds
<1>2. inbox' \in [Nodes -> Seq(GroupEventsOf(made))] /\ owed' \subseteq Calls
  BY FallsType DEF Crash, SoundTypes
<1>3. vip' \in [Nodes -> SoundVips]
  BY IdleVipIsSound DEF Crash, SoundTypes
<1>4. sofia' \in [Nodes -> Sofias(made)]
  <2>1. sofia \in [Nodes -> Sofias(made)]
    BY DEF SoundTypes
  <2>2. <<>> \in Seq(FsEventsOf(made))
    BY EmptySeq
  <2>3. sofia' = [sofia EXCEPT ![n].calls = {}, ![n].events = <<>>]
    BY DEF Crash
  <2>4. QED
    BY <2>1, <2>2, <2>3 DEF Sofias
<1>5. /\ phase' = [phase EXCEPT ![n] = "dead"] /\ past' = [past EXCEPT ![n] = "fresh"]
      /\ UNCHANGED <<profiles, launch, master_uuid, made, over>>
  BY DEF Crash
<1>6. QED
  BY <1>1, <1>2, <1>3, <1>4, <1>5 DEF SoundTypes

(* ... the start of a virtual IP that was stopped ...                      *)
LEMMA StartType ==
  ASSUME SoundTypes, NEW n \in Nodes, Start(n)
  PROVE  SoundTypes'
<1>1. left' \in [Kinds -> SUBSET Nodes]
  BY SpendType DEF Start, Kinds
<1>2. /\ vip' \in [Nodes -> SoundVips]
      /\ phase' \in [Nodes -> {"dead", "idle", "running", "stopping", "returning"}]
      /\ inbox' \in [Nodes -> Seq(GroupEventsOf(made))]
  BY GoUpType DEF Start
<1>3. UNCHANGED <<profiles, launch, master_uuid, sofia, historyVars>>
  BY DEF Start
<1>4. QED
  BY <1>1, <1>2, <1>3 DEF SoundTypes, historyVars

(* ... and that of a new process, which reads the file.                    *)
LEMMA LoadType ==
  ASSUME SoundTypes, NEW n \in Nodes, Load(n)
  PROVE  SoundTypes'
<1>1. left' \in [Kinds -> SUBSET Nodes]
  BY SpendType DEF Load, Kinds
<1>2. /\ vip' \in [Nodes -> SoundVips]
      /\ phase' \in [Nodes -> {"dead", "idle", "running", "stopping", "returning"}]
      /\ inbox' \in [Nodes -> Seq(GroupEventsOf(made))]
  BY GoUpType DEF Load
<1>3. PICK file \in Files : profiles' = [profiles EXCEPT ![n] = do_config(file)]
  BY DEF Load
<1>4. do_config(file) \in Seq(Profiles)
  BY FilesAssumption, DoConfigKeepsFirstValid
<1>5. profiles' \in [Nodes -> Seq(Profiles)]
  BY <1>3, <1>4 DEF SoundTypes
<1>6. launch' \in [Nodes -> Nat]
  BY DEF Load, SoundTypes
<1>7. UNCHANGED <<master_uuid, sofia, historyVars>>
  BY DEF Load
<1>8. QED
  BY <1>1, <1>2, <1>5, <1>6, <1>7 DEF SoundTypes, historyVars

(* A settled group is sound and has read one file.                         *)
LEMMA InitType == ASSUME Init PROVE TypeInv
<1>1. PICK scenario \in Scenarios :
        /\ vip = [n \in Nodes |-> IF n \in scenario.members
                                    THEN Settled(n, scenario.members) ELSE IdleVip]
        /\ phase = [n \in Nodes |-> IF n \in scenario.members THEN "running" ELSE "dead"]
        /\ launch = [n \in Nodes |-> IF n \in scenario.members THEN 1 ELSE 0]
        /\ master_uuid = [n \in Nodes |-> <<First(scenario.members), 1>>]
        /\ past = [n \in Nodes |-> IF n \in scenario.members \ {First(scenario.members)}
                                     THEN "backup" ELSE "fresh"]
        /\ made = Calls \ scenario.calls
        /\ profiles = [n \in Nodes |-> do_config(scenario.file)]
        /\ left = scenario.limit
  BY DEF Init
<1>2. /\ scenario.members \in SUBSET Nodes /\ scenario.members # {}
      /\ scenario.file \in Files /\ scenario.limit \in [Kinds -> SUBSET Nodes]
  BY ScenariosAssumption
<1>3. do_config(scenario.file) \in Seq(Profiles)
      /\ IsFirstValid(do_config(scenario.file), scenario.file)
  BY <1>2, FilesAssumption, DoConfigKeepsFirstValid
<1>4. vip \in [Nodes -> SoundVips]
  BY <1>1, <1>2, SettledType, IdleVipIsSound
<1>5. master_uuid \in [Nodes -> Uuids]
  BY <1>1, <1>2, RankedType DEF Uuids
<1>6. sofia \in [Nodes -> Sofias(made)] /\ inbox \in [Nodes -> Seq(GroupEventsOf(made))]
  <2>1. <<>> \in Seq(FsEventsOf(made)) /\ <<>> \in Seq(GroupEventsOf(made))
    BY EmptySeq
  <2>2. QED
    BY <2>1 DEF Init, Sofias
<1>7. profiles \in [Nodes -> Seq(Profiles)]
  BY <1>1, <1>3
<1>8. over = {} /\ owed = {}
  BY DEF Init
<1>9. SoundTypes
  BY <1>1, <1>2, <1>4, <1>5, <1>6, <1>7, <1>8 DEF SoundTypes
<1>10. ProfilesAreFirstValid
  BY <1>1, <1>2, <1>3 DEF ProfilesAreFirstValid
<1>11. QED
  BY <1>9, <1>10 DEF TypeInv

(* The profiles change only when a process reads the file.                 *)
LEMMA ProfilesStep ==
  ASSUME TypeInv, [Next]_vars
  PROVE  ProfilesAreFirstValid'
<1>1. \/ profiles' = profiles
      \/ \E m \in Nodes, file \in Files : profiles' = [profiles EXCEPT ![m] = do_config(file)]
  BY DEF Next, HandleEvent, DeliverSql, LeaveGroup, HandleFsEvent, CallBegins, CallEnds,
         Stop, StopReturns, Crash, Start, Load, vars, groupVars
<1>2. CASE profiles' = profiles
  BY <1>2 DEF TypeInv, ProfilesAreFirstValid
<1>3. CASE \E m \in Nodes, file \in Files : profiles' = [profiles EXCEPT ![m] = do_config(file)]
  <2>1. PICK m \in Nodes, file \in Files : profiles' = [profiles EXCEPT ![m] = do_config(file)]
    BY <1>3
  <2>2. IsFirstValid(do_config(file), file)
    BY FilesAssumption, DoConfigKeepsFirstValid
  <2>3. profiles \in [Nodes -> Seq(Profiles)]
    BY DEF TypeInv, SoundTypes
  <2>4. QED
    BY <2>1, <2>2, <2>3 DEF TypeInv, ProfilesAreFirstValid
<1>4. QED
  BY <1>1, <1>2, <1>3

(* The invariant, and the two properties of the run "calls" it contains.   *)
LEMMA TypeInvariant == Spec => []TypeInv
<1>1. Init => TypeInv
  BY InitType
<1>2. TypeInv /\ [Next]_vars => TypeInv'
  <2> SUFFICES ASSUME TypeInv, [Next]_vars
               PROVE  SoundTypes' /\ ProfilesAreFirstValid'
    BY DEF TypeInv
  <2>1. SoundTypes
    BY DEF TypeInv
  <2>2. ProfilesAreFirstValid'
    BY ProfilesStep
  <2>3. CASE UNCHANGED vars
    <3>1. /\ UNCHANGED <<vip, phase, inbox, profiles, launch, master_uuid>>
          /\ UNCHANGED <<sofia, made, over, owed, past, left>>
      BY <2>3 DEF vars, groupVars, historyVars
    <3>2. SoundTypes'
      BY <2>1, <3>1 DEF SoundTypes
    <3>3. QED
      BY <2>2, <3>2
  <2>4. ASSUME NEW n \in Nodes,
               \/ HandleEvent(n) \/ DeliverSql(n) \/ LeaveGroup(n)
               \/ HandleFsEvent(n) \/ CallBegins(n) \/ CallEnds(n)
               \/ Stop(n) \/ StopReturns(n) \/ Crash(n) \/ Start(n) \/ Load(n)
        PROVE  SoundTypes'
    BY <2>1, <2>4, HandleEventType, DeliverSqlType, LeaveGroupType, HandleFsEventType,
       CallBeginsType, CallEndsType, StopType, StopReturnsType, CrashType, StartType, LoadType
  <2>5. QED
    BY <2>2, <2>3, <2>4 DEF Next
<1>3. QED
  BY <1>1, <1>2, PTL DEF Spec

(* Whatever falls, is stopped or comes up, every table holds rows of calls *)
(* of this or an earlier process, and every event a statement or a request *)
(* for a profile of the node (the loops of fsm.c over the profiles).       *)
THEOREM TypeCorrectness == Spec => []TypeOK
<1>1. TypeInv => TypeOK
  BY SoundTypesAreTypes DEF TypeInv
<1>2. QED
  BY <1>1, TypeInvariant, PTL

(* do_config (cpg_config.c:147) keeps the first valid entries of the file, *)
(* each name once, in the order of the file and as many as the array       *)
(* holds, for files of any length.                                         *)
THEOREM ProfilesStayFirstValid == Spec => []ProfilesAreFirstValid
<1>1. TypeInv => ProfilesAreFirstValid
  BY DEF TypeInv
<1>2. QED
  BY <1>1, TypeInvariant, PTL

-----------------------------------------------------------------------------
(* Calls and roles: no event of the group takes the role from a node that  *)
(* serves, so that it ends with a go_down of another thread, which hangs   *)
(* up every profile.                                                       *)

(* The calls that the loops leave.                                         *)
LEMMA CallsAfterLoops ==
  ASSUME SoundTypes, NEW n \in Nodes, NEW s \in Sofias(made)
  PROVE  /\ virtual_ip_send_all_sql(n, s).calls = s.calls
         /\ CleanUpTables(n, s).calls = s.calls
         /\ HangUpCalls(n, s).calls \subseteq s.calls
         /\ \A c \in HangUpCalls(n, s).calls : ProfileOf[c] \notin Names(n)
<1> DEFINE size == Len(profiles[n])
           name(i) == profiles[n][i].name
           Same == [i \in 0..size |-> {x \in Sofias(made) : x.calls = s.calls}]
           Ended == [i \in 0..size |->
                       {x \in Sofias(made) : /\ x.calls \subseteq s.calls
                                       /\ \A c \in x.calls, j \in 1..i : ProfileOf[c] # name(j)}]
<1>1. /\ profiles[n] \in Seq(Profiles) /\ master_uuid[n] \in Uuids /\ uuid(n) \in Uuids
      /\ size \in Nat /\ DOMAIN profiles[n] = 1..size
  BY UuidType, LenProperties DEF SoundTypes
<1>2. \A i \in 0..(size - 1) : /\ name(i + 1) \in SipProfiles
                              /\ i \in 0..size /\ i + 1 \in 0..size
  <2>1. ASSUME NEW i \in 0..(size - 1)
        PROVE  profiles[n][i + 1] \in Profiles
    <3>1. i + 1 \in 1..size
      BY <1>1
    <3>2. QED
      BY <1>1, <3>1, ElementOfSeq
  <2>2. QED
    BY <1>1, <2>1 DEF Profiles
<1>3. 0 \in 0..size /\ size \in 0..size
  BY <1>1
<1> HIDE DEF size
<1>4. \A i \in 0..size : \A x : x \in Same[i] <=> x \in Sofias(made) /\ x.calls = s.calls
  OBVIOUS
<1>5. \A i \in 0..size : \A x :
        x \in Ended[i] <=> /\ x \in Sofias(made) /\ x.calls \subseteq s.calls
                           /\ \A c \in x.calls, j \in 1..i : ProfileOf[c] # name(j)
  OBVIOUS
<1> HIDE DEF Same, Ended
<1>6. \A x, event : x \in Sofias(made) => Fire(x, event).calls = x.calls
  BY DEF Fire, Sofias
<1>7. virtual_ip_send_all_sql(n, s).calls = s.calls
  <2>1. \A i \in 0..(size - 1) : \A x \in Same[i] :
          RequestOne(0, x, profiles[n][i + 1]) \in Same[i + 1]
    BY <1>2, <1>4, <1>6, RequestType DEF RequestOne, utils_send_request_all
  <2>2. Requesting!Loop(0, s, profiles[n]) \in Same[size]
    <3>1. s \in Same[0]
      BY <1>3, <1>4
    <3>2. QED
      BY <1>1, <2>1, <3>1, Requesting!LoopInvariant DEF size
  <2>3. QED
    BY <1>3, <1>4, <2>2, RequestingIsLoop
<1>8. CleanUpTables(n, s).calls = s.calls
  <2>1. \A i \in 0..(size - 1) : \A x \in Same[i] :
          CleanUpOne(master_uuid[n], x, profiles[n][i + 1]) \in Same[i + 1]
    BY <1>1, <1>2, <1>4, <1>6, CleanUpType
       DEF CleanUpOne, utils_clean_up_table, utils_send_track_event
  <2>2. CleaningUp!Loop(master_uuid[n], s, profiles[n]) \in Same[size]
    <3>1. s \in Same[0]
      BY <1>3, <1>4
    <3>2. QED
      BY <1>1, <2>1, <3>1, CleaningUp!LoopInvariant DEF size
  <2>3. QED
    BY <1>3, <1>4, <2>2, CleaningUpIsLoop
<1>9. /\ HangUpCalls(n, s).calls \subseteq s.calls
      /\ \A c \in HangUpCalls(n, s).calls, j \in 1..size : ProfileOf[c] # name(j)
  <2>1. ASSUME NEW i \in 0..(size - 1), NEW x \in Ended[i]
        PROVE  HangUpOne(uuid(n), x, profiles[n][i + 1]) \in Ended[i + 1]
    <3> DEFINE y == HangUpOne(uuid(n), x, profiles[n][i + 1])
    <3>1. x \in Sofias(made) /\ name(i + 1) \in SipProfiles
      BY <1>2, <1>5
    <3>2. y \in Sofias(made)
      BY <1>1, <3>1, HupAllType DEF HangUpOne
    <3>3. y.calls = {c \in x.calls : ProfileOf[c] # name(i + 1)}
      BY <3>1 DEF HangUpOne, utils_hupall, Untrack, Fire, Sofias
    <3> HIDE DEF y
    <3>4. \A c \in y.calls, j \in 1..(i + 1) : ProfileOf[c] # name(j)
      <4>1. \A j \in 1..(i + 1) : j \in 1..i \/ j = i + 1
        BY <1>2
      <4>2. \A c \in x.calls, j \in 1..i : ProfileOf[c] # name(j)
        BY <1>2, <1>5
      <4>3. QED
        BY <3>3, <4>1, <4>2
    <3>5. y.calls \subseteq s.calls
      BY <1>2, <1>5, <3>3
    <3>6. y \in Ended[i + 1]
      BY <1>2, <1>5, <3>2, <3>4, <3>5
    <3>7. QED
      BY <3>6 DEF y
  <2>2. HangingUp!Loop(uuid(n), s, profiles[n]) \in Ended[size]
    <3>1. s \in Ended[0]
      BY <1>3, <1>5
    <3>2. QED
      BY <1>1, <2>1, <3>1, HangingUp!LoopInvariant DEF size
  <2>3. QED
    BY <1>3, <1>5, <2>2, HangingUpIsLoop
<1>10. Names(n) = {name(j) : j \in 1..size}
  BY <1>1 DEF Names, ToSet, size
<1>11. QED
  BY <1>7, <1>8, <1>9, <1>10

(* No event of the group takes the role from a node that serves, and none  *)
(* revives a node that has stopped.                                        *)
LEMMA RoleAfterDispatch ==
  ASSUME NEW n \in Nodes, NEW v \in SoundVips, NEW e, IsGroupEvent(e), NEW works \in BOOLEAN
  PROVE  LET after == Dispatch(n, v, v.state \in Active, e, works).vip
         IN  /\ after \in SoundVips
             /\ v.state \in Active => after.state \in Active
             /\ v.state = "IDLE" => after.state = "IDLE"
<1> DEFINE onDevice == v.state \in Active
           after == Dispatch(n, v, onDevice, e, works).vip
<1>1. onDevice \in BOOLEAN
  OBVIOUS
<1>2. Contract(v, onDevice, Dispatch(n, v, onDevice, e, works))
  BY <1>1, DispatchContract
<1>3. after \in SoundVips /\ (v.state = "IDLE" => after.state = "IDLE")
  BY <1>2 DEF Contract, Outcomes
<1>4. ASSUME v.state \in Active
      PROVE  after.state \in Active
  <2>1. ASSUME NEW x, x.state = v.state, x \in SoundVips,
               NEW event \in EventNames, event # "STOP"
        PROVE  fsm_do_transaction(n, x, onDevice, event, works).vip.state \in Active
    <3> DEFINE action == table[event][x.state]
    <3>1. action \in {"error", "dup_warn", "noop", "rback_stop", "backupup", "rollback"}
      BY <1>4, <2>1 DEF table, EventNames, Active
    <3> HIDE DEF action
    <3>2. fsm_do_transaction(n, x, onDevice, event, works)
            = CASE action = "backupup"   -> virtual_ip_send_state(n, x, onDevice)
                [] action = "rollback"   -> Quiet(rollback(x), onDevice)
                [] action = "rback_stop" -> Quiet(rback_stop(x), onDevice)
                [] OTHER                 -> Quiet(x, onDevice)
      BY <3>1 DEF fsm_do_transaction, action
    <3>3. x.state \in Active
      BY <1>4, <2>1
    <3>4. rollback(x).state \in Active /\ rback_stop(x).state \in Active
      BY <3>3, <2>1 DEF rollback, rback_stop, Active, SoundVips
    <3>5. QED
      BY <3>1, <3>2, <3>3, <3>4 DEF virtual_ip_send_state, Quiet
  <2>2. CASE e.type = "down"
    <3> DEFINE informed == [v EXCEPT !.member_list = e.member_list]
               departed == [informed EXCEPT !.node_list = node_remove(@, e.nodeid),
                                           !.rollback_node_id = IF @ = e.nodeid THEN NoNode ELSE @]
               event == IF informed.master_id = e.nodeid THEN "MASTER_DOWN" ELSE "BACKUP_DOWN"
    <3>1. e.nodeid \in Nodes /\ e.member_list \in SUBSET Nodes
      BY <2>2 DEF IsGroupEvent
    <3>2. node_remove(v.node_list, e.nodeid) \in NodeLists
      BY <3>1, NodeRemoveKeepsNodeList DEF SoundVips
    <3>3. departed \in SoundVips /\ departed.state = v.state
      BY <3>1, <3>2 DEF SoundVips, Ids
    <3>4. event \in EventNames /\ event # "STOP"
      BY DEF EventNames
    <3>5. after = fsm_do_transaction(n, departed, onDevice, event, works).vip
      BY <2>2 DEF Dispatch, fsm_input_node_down
    <3> HIDE DEF departed, event, after
    <3>6. QED
      BY <2>1, <3>3, <3>4, <3>5
  <2>3. CASE e.type = "up"
    <3> DEFINE informed == [v EXCEPT !.member_list = e.member_list]
    <3>1. informed \in SoundVips /\ informed.state = v.state
      BY <2>3 DEF IsGroupEvent, SoundVips
    <3>2. after = fsm_do_transaction(n, informed, onDevice, "BACKUP_UP", works).vip
      BY <2>3 DEF Dispatch, fsm_input_node_up
    <3> HIDE DEF informed, after
    <3>3. QED
      BY <2>1, <3>1, <3>2 DEF EventNames
  <2>4. CASE e.type = "state"
    <3> DEFINE heard == Recorded(v, e)
               event == MessageEvent(n, heard, e)
    <3>1. e.nodeid \in Nodes
      BY <2>4 DEF IsGroupEvent
    <3>2. node_add(v.node_list, e.nodeid) \in NodeLists
      BY <3>1, NodeAddKeepsNodeList DEF SoundVips
    <3>3. heard \in SoundVips /\ heard.state = v.state
      BY <3>1, <3>2 DEF Recorded, SoundVips, Ids
    <3>4. event = "none" \/ (event \in EventNames /\ event # "STOP")
      BY DEF MessageEvent, EventNames
    <3>5. after = IF event = "none" THEN heard
                  ELSE fsm_do_transaction(n, heard, onDevice, event, works).vip
      BY <2>4 DEF Dispatch, fsm_input_new_state_message, Quiet
    <3> HIDE DEF heard, event, after
    <3>6. QED
      BY <1>4, <2>1, <3>3, <3>4, <3>5
  <2>5. QED
    BY <2>2, <2>3, <2>4 DEF IsGroupEvent
<1>5. QED
  BY <1>3, <1>4

(* The invariant of one node: outside vip_thread's group, and from the     *)
(* moment another thread has begun a go_down, it is IDLE; a process that   *)
(* ended holds no call.                                                    *)
NodeInv(n) ==
  /\ phase[n] # "running" => vip[n].state = "IDLE"
  /\ phase[n] = "dead" => sofia[n].calls = {}
  /\ \/ vip[n].state \in Active
     \/ phase[n] \in {"stopping", "returning"}
     \/ \A c \in sofia[n].calls : ProfileOf[c] \notin Names(n)

CallsInv == TypeInv /\ \A n \in Nodes : NodeInv(n)

(* What a node's part of the invariant reads.                              *)
LEMMA NodeInvReads ==
  ASSUME NEW m \in Nodes, NodeInv(m),
         vip'[m] = vip[m], phase'[m] = phase[m], profiles'[m] = profiles[m],
         sofia'[m].calls \subseteq sofia[m].calls
  PROVE  NodeInv(m)'
BY DEF NodeInv, Names

(* The steps of vip_thread: only a recovery adds calls, at a node that     *)
(* becomes MASTER.                                                         *)
LEMMA HandleEventCalls ==
  ASSUME CallsInv, NEW n \in Nodes, HandleEvent(n)
  PROVE  \A m \in Nodes : NodeInv(m)'
<1> DEFINE e == Head(inbox[n])
           out(w) == Dispatch(n, vip[n], vip[n].state \in Active, e, w)
<1>1. /\ SoundTypes /\ vip \in [Nodes -> SoundVips] /\ sofia \in [Nodes -> Sofias(made)]
      /\ inbox[n] \in Seq(GroupEventsOf(made)) /\ inbox[n] # <<>> /\ e.type # "sql"
      /\ UNCHANGED <<phase, profiles>>
  BY DEF CallsInv, TypeInv, SoundTypes, HandleEvent
<1>2. IsGroupEvent(e)
  <2>1. e \in GroupEventsOf(made)
    BY <1>1, HeadTailProperties
  <2>2. QED
    BY <1>1, <2>1, EventsAreGroupEvents
<1>3. PICK works \in BOOLEAN :
        /\ vip' = [vip EXCEPT ![n] = out(works).vip]
        /\ sofia' = [sofia EXCEPT ![n] = OnCalls(n, vip[n], out(works).vip, e, @)]
  BY DEF HandleEvent
<1> DEFINE after == out(works).vip
           calls == OnCalls(n, vip[n], after, e, sofia[n]).calls
<1>4. /\ vip[n].state \in Active => after.state \in Active
      /\ vip[n].state = "IDLE" => after.state = "IDLE"
  BY <1>1, <1>2, RoleAfterDispatch
<1>5. /\ vip'[n] = after /\ sofia'[n].calls = calls
      /\ \A m \in Nodes \ {n} : vip'[m] = vip[m] /\ sofia'[m] = sofia[m]
  BY <1>1, <1>3
<1>6. after.state \in Active \/ calls \subseteq sofia[n].calls
  <2> HIDE DEF after
  <2>1. /\ virtual_ip_send_all_sql(n, sofia[n]).calls = sofia[n].calls
        /\ CleanUpTables(n, sofia[n]).calls = sofia[n].calls
        /\ HangUpCalls(n, sofia[n]).calls \subseteq sofia[n].calls
    BY <1>1, CallsAfterLoops
  <2>2. \/ after.state = "MASTER"
        \/ OnCalls(n, vip[n], after, e, sofia[n])
             \in {virtual_ip_send_all_sql(n, sofia[n]), CleanUpTables(n, sofia[n]),
                  HangUpCalls(n, sofia[n]), sofia[n]}
    BY DEF OnCalls
  <2>3. QED
    BY <2>1, <2>2 DEF Active
<1> HIDE DEF after, calls
<1>7. NodeInv(n)'
  <2>1. NodeInv(n)
    BY DEF CallsInv
  <2>2. phase'[n] # "running" => vip'[n].state = "IDLE"
    BY <1>1, <1>4, <1>5, <2>1 DEF NodeInv
  <2>3. phase'[n] # "dead"
    BY <1>1 DEF HandleEvent, Joined
  <2>4. \/ vip'[n].state \in Active
        \/ phase'[n] \in {"stopping", "returning"}
        \/ \A c \in sofia'[n].calls : ProfileOf[c] \notin Names(n)
    BY <1>1, <1>4, <1>5, <1>6, <2>1 DEF NodeInv
  <2>5. Names(n)' = Names(n)
    BY <1>1 DEF Names
  <2>6. QED
    BY <2>2, <2>3, <2>4, <2>5 DEF NodeInv
<1>8. \A m \in Nodes \ {n} : NodeInv(m)'
  BY <1>1, <1>5, NodeInvReads DEF CallsInv
<1>9. QED
  BY <1>7, <1>8

(* The steps that only pass statements on leave the calls alone.           *)
LEMMA StatementCalls ==
  ASSUME CallsInv, NEW n \in Nodes, DeliverSql(n) \/ HandleFsEvent(n)
  PROVE  \A m \in Nodes : NodeInv(m)'
<1>1. sofia \in [Nodes -> Sofias(made)] /\ UNCHANGED <<vip, phase, profiles>>
  BY DEF CallsInv, TypeInv, SoundTypes, DeliverSql, HandleFsEvent
<1>2. \A m \in Nodes : sofia'[m].calls = sofia[m].calls
  <2>1. CASE DeliverSql(n)
    <3>1. PICK sql, profile :
            \/ sofia' = sofia
            \/ sofia' = [sofia EXCEPT ![n] = utils_send_track_event(@, sql, profile)]
      BY <2>1 DEF DeliverSql
    <3>2. utils_send_track_event(sofia[n], sql, profile).calls = sofia[n].calls
      BY <1>1 DEF utils_send_track_event, Fire, Sofias
    <3>3. QED
      BY <1>1, <3>1, <3>2
  <2>2. CASE HandleFsEvent(n)
    <3> DEFINE e == Head(sofia[n].events)
               rest == [sofia[n] EXCEPT !.events = Tail(@)]
    <3>1. sofia' = [sofia EXCEPT ![n] = rest] \/ sofia' = [sofia EXCEPT ![n] = TrackEvent(rest, e)]
      BY <2>2 DEF HandleFsEvent
    <3>2. rest.calls = sofia[n].calls /\ TrackEvent(rest, e).calls = rest.calls
      BY <1>1 DEF TrackEvent, Fire, Sofias
    <3> HIDE DEF rest, e
    <3>3. QED
      BY <1>1, <3>1, <3>2
  <2>3. QED
    BY <2>1, <2>2
<1>3. QED
  BY <1>1, <1>2, NodeInvReads DEF CallsInv

(* Calls begin at a node that serves and may end anywhere.                 *)
LEMMA PartiesCalls ==
  ASSUME CallsInv, NEW n \in Nodes, CallBegins(n) \/ CallEnds(n)
  PROVE  \A m \in Nodes : NodeInv(m)'
<1>1. sofia \in [Nodes -> Sofias(made)] /\ UNCHANGED <<vip, phase, profiles>>
  BY DEF CallsInv, TypeInv, SoundTypes, CallBegins, CallEnds, groupVars
<1>2. CASE CallBegins(n)
  <2>1. vip[n].state \in Active /\ phase[n] = "running"
    BY <1>2 DEF CallBegins
  <2>2. \A m \in Nodes \ {n} : sofia'[m] = sofia[m]
    BY <1>1, <1>2 DEF CallBegins
  <2>3. NodeInv(n)'
    BY <1>1, <2>1 DEF NodeInv
  <2>4. \A m \in Nodes \ {n} : NodeInv(m)'
    BY <1>1, <2>2, NodeInvReads DEF CallsInv
  <2>5. QED
    BY <2>3, <2>4
<1>3. CASE CallEnds(n)
  <2>1. PICK c : sofia' = [sofia EXCEPT ![n] = Untrack(@, uuid(n), {c}, ProfileOf[c])]
    BY <1>3 DEF CallEnds
  <2>2. Untrack(sofia[n], uuid(n), {c}, ProfileOf[c]).calls = sofia[n].calls \ {c}
    BY <1>1 DEF Untrack, Fire, Sofias
  <2>3. \A m \in Nodes : sofia'[m].calls \subseteq sofia[m].calls
    BY <1>1, <2>1, <2>2
  <2>4. QED
    BY <1>1, <2>3, NodeInvReads DEF CallsInv
<1>4. QED
  BY <1>2, <1>3

(* The steps that take a node out of the group and back in.                *)
LEMMA LifeCalls ==
  ASSUME CallsInv, NEW n \in Nodes,
         \/ LeaveGroup(n) \/ Stop(n) \/ StopReturns(n) \/ Crash(n) \/ Start(n) \/ Load(n)
  PROVE  \A m \in Nodes : NodeInv(m)'
<1>1. /\ SoundTypes /\ sofia \in [Nodes -> Sofias(made)]
      /\ vip \in [Nodes -> SoundVips] /\ DOMAIN phase = Nodes /\ DOMAIN profiles = Nodes
  BY DEF CallsInv, TypeInv, SoundTypes
<1>2. NodeInv(n)
  BY DEF CallsInv
<1>3. \A m \in Nodes \ {n} : /\ vip'[m] = vip[m] /\ phase'[m] = phase[m]
                            /\ profiles'[m] = profiles[m] /\ sofia'[m] = sofia[m]
  BY <1>1 DEF LeaveGroup, Stop, StopReturns, Crash, Start, Load, GoUp, historyVars
<1>4. \A m \in Nodes \ {n} : NodeInv(m)'
  BY <1>3, NodeInvReads DEF CallsInv
<1>5. ASSUME LeaveGroup(n) PROVE NodeInv(n)'
  <2>1. /\ vip'[n].state = "IDLE" /\ sofia' = sofia /\ profiles' = profiles
        /\ phase'[n] = IF phase[n] = "stopping" THEN "returning" ELSE "idle"
        /\ phase[n] \in {"running", "stopping"} /\ vip[n].state = "IDLE"
    BY <1>1, <1>5 DEF LeaveGroup, Joined
  <2>2. QED
    BY <1>2, <2>1 DEF NodeInv, Names, Active
<1>6. ASSUME Stop(n) PROVE NodeInv(n)'
  <2>1. vip'[n] = IdleVip /\ phase'[n] = "stopping"
    BY <1>1, <1>6 DEF Stop, go_down
  <2>2. QED
    BY <2>1 DEF NodeInv, IdleVip
<1>7. ASSUME StopReturns(n) PROVE NodeInv(n)'
  <2>1. /\ vip' = vip /\ profiles' = profiles
        /\ phase[n] = "returning" /\ phase'[n] = "idle"
        /\ sofia'[n] = HangUpCalls(n, sofia[n])
    BY <1>1, <1>7 DEF StopReturns
  <2>2. \A c \in sofia'[n].calls : ProfileOf[c] \notin Names(n)
    BY <1>1, <2>1, CallsAfterLoops
  <2>3. QED
    BY <1>2, <2>1, <2>2 DEF NodeInv, Names
<1>8. ASSUME Crash(n) PROVE NodeInv(n)'
  <2>1. vip'[n] = IdleVip /\ sofia'[n].calls = {}
    BY <1>1, <1>8 DEF Crash, Sofias
  <2>2. QED
    BY <2>1 DEF NodeInv, IdleVip
<1>9. ASSUME Start(n) PROVE NodeInv(n)'
  <2>1. /\ phase[n] = "idle" /\ phase'[n] = "running"
        /\ sofia' = sofia /\ profiles' = profiles
    BY <1>1, <1>9 DEF Start, GoUp
  <2>2. \A c \in sofia[n].calls : ProfileOf[c] \notin Names(n)
    BY <1>2, <2>1 DEF NodeInv, Active
  <2>3. QED
    BY <2>1, <2>2 DEF NodeInv, Names
<1>10. ASSUME Load(n) PROVE NodeInv(n)'
  <2>1. phase[n] = "dead" /\ phase'[n] = "running" /\ sofia' = sofia
    BY <1>1, <1>10 DEF Load, GoUp
  <2>2. sofia[n].calls = {}
    BY <1>2, <2>1 DEF NodeInv
  <2>3. QED
    BY <2>1, <2>2 DEF NodeInv
<1>11. QED
  BY <1>4, <1>5, <1>6, <1>7, <1>8, <1>9, <1>10

(* At first nobody holds a call.                                           *)
LEMMA InitCalls == ASSUME Init PROVE \A n \in Nodes : NodeInv(n)
<1> SUFFICES ASSUME NEW n \in Nodes PROVE NodeInv(n)
  OBVIOUS
<1>1. sofia[n].calls = {}
  BY DEF Init
<1>2. phase[n] # "running" => vip[n] = IdleVip
  BY DEF Init
<1>3. QED
  BY <1>1, <1>2 DEF NodeInv, IdleVip

(* Every step keeps the invariant of every node.                           *)
LEMMA CallsInvariant == Spec => []CallsInv
<1>1. Init => CallsInv
  BY InitType, InitCalls DEF CallsInv
<1>2. CallsInv /\ TypeInv' /\ [Next]_vars => CallsInv'
  <2> SUFFICES ASSUME CallsInv, [Next]_vars
               PROVE  \A m \in Nodes : NodeInv(m)'
    BY DEF CallsInv
  <2>1. CASE UNCHANGED vars
    BY <2>1, NodeInvReads DEF CallsInv, vars, groupVars
  <2>2. ASSUME NEW n \in Nodes,
               \/ HandleEvent(n) \/ DeliverSql(n) \/ LeaveGroup(n)
               \/ HandleFsEvent(n) \/ CallBegins(n) \/ CallEnds(n)
               \/ Stop(n) \/ StopReturns(n) \/ Crash(n) \/ Start(n) \/ Load(n)
        PROVE  \A m \in Nodes : NodeInv(m)'
    BY <2>2, HandleEventCalls, StatementCalls, PartiesCalls, LifeCalls
  <2>3. QED
    BY <2>1, <2>2 DEF Next
<1>3. QED
  BY <1>1, <1>2, TypeInvariant, PTL DEF Spec

(* A node that does not serve holds no call of its profiles, but while a   *)
(* go_down is under way: the role is lost only to a go_down (RoleAfter-    *)
(* Dispatch) or with the process, and go_down hangs up every profile once  *)
(* its join has returned (fsm.c:283).                                      *)
THEOREM CallsEndWithTheRole == Spec => []OnlyServersHoldCalls
<1>1. CallsInv => OnlyServersHoldCalls
  BY DEF CallsInv, NodeInv, OnlyServersHoldCalls
<1>2. QED
  BY <1>1, CallsInvariant, PTL

-----------------------------------------------------------------------------
(* Sequences as sets *)

(* An event more in a queue.                                               *)
LEMMA ToSetAppended ==
  ASSUME NEW S, NEW seq \in Seq(S), NEW e \in S
  PROVE  /\ seq \o <<e>> \in Seq(S) /\ Append(seq, e) = seq \o <<e>>
         /\ ToSet(seq \o <<e>>) = ToSet(seq) \cup {e}
         /\ ToSet(Append(seq, e)) = ToSet(seq) \cup {e}
<1> DEFINE longer == seq \o <<e>>
<1>1. /\ longer \in Seq(S) /\ Len(seq) \in Nat /\ Len(longer) = Len(seq) + 1
      /\ \A i \in 1..Len(seq) : longer[i] = seq[i]
      /\ longer[Len(seq) + 1] = e
  BY OneMoreEvent
<1>2. /\ Append(seq, e) \in Seq(S) /\ Len(Append(seq, e)) = Len(seq) + 1
      /\ \A i \in 1..Len(seq) : Append(seq, e)[i] = seq[i]
      /\ Append(seq, e)[Len(seq) + 1] = e
  BY AppendProperties
<1> HIDE DEF longer
<1>3. DOMAIN longer = 1..(Len(seq) + 1) /\ DOMAIN seq = 1..Len(seq)
  BY <1>1, LenProperties
<1>4. ToSet(longer) = ToSet(seq) \cup {e}
  <2>1. ASSUME NEW y \in ToSet(longer) PROVE y \in ToSet(seq) \cup {e}
    <3>1. PICK i \in 1..(Len(seq) + 1) : y = longer[i]
      BY <1>3 DEF ToSet
    <3>2. i \in 1..Len(seq) \/ i = Len(seq) + 1
      BY <1>1
    <3>3. QED
      BY <1>1, <1>3, <3>1, <3>2 DEF ToSet
  <2>2. ASSUME NEW y \in ToSet(seq) PROVE y \in ToSet(longer)
    <3>1. PICK i \in 1..Len(seq) : y = seq[i]
      BY <1>3 DEF ToSet
    <3>2. i \in 1..(Len(seq) + 1) /\ y = longer[i]
      BY <1>1, <3>1
    <3>3. QED
      BY <1>3, <3>2 DEF ToSet
  <2>3. e \in ToSet(longer)
    <3>1. Len(seq) + 1 \in 1..(Len(seq) + 1)
      BY <1>1
    <3>2. QED
      BY <1>1, <1>3, <3>1 DEF ToSet
  <2>4. QED
    BY <2>1, <2>2, <2>3
<1>5. Append(seq, e) = longer
  <2>1. /\ Append(seq, e) = [i \in 1..(Len(seq) + 1) |-> Append(seq, e)[i]]
        /\ longer = [i \in 1..(Len(seq) + 1) |-> longer[i]]
    BY <1>1, <1>2, LenProperties
  <2>2. \A i \in 1..(Len(seq) + 1) : Append(seq, e)[i] = longer[i]
    <3>1. \A i \in 1..(Len(seq) + 1) : i \in 1..Len(seq) \/ i = Len(seq) + 1
      BY <1>1
    <3>2. QED
      BY <1>1, <1>2, <3>1
  <2>3. QED
    BY <2>1, <2>2
<1>6. QED
  BY <1>1, <1>4, <1>5 DEF longer

(* The first event of a queue and the rest.                                *)
LEMMA ToSetHeadTail ==
  ASSUME NEW S, NEW seq \in Seq(S), seq # <<>>
  PROVE  /\ Head(seq) \in S /\ Tail(seq) \in Seq(S)
         /\ ToSet(seq) = {Head(seq)} \cup ToSet(Tail(seq))
<1>1. /\ Head(seq) \in S /\ Tail(seq) \in Seq(S) /\ Head(seq) = seq[1]
      /\ Len(seq) \in Nat /\ Len(seq) > 0 /\ Len(Tail(seq)) = Len(seq) - 1
      /\ \A i \in 1..Len(Tail(seq)) : Tail(seq)[i] = seq[i + 1]
  BY HeadTailProperties, LenProperties, EmptySeq
<1> DEFINE rest == Tail(seq)
<1>2. DOMAIN seq = 1..Len(seq) /\ DOMAIN rest = 1..(Len(seq) - 1)
  BY <1>1, LenProperties
<1>3. \A i \in 1..(Len(seq) - 1) : rest[i] = seq[i + 1]
  BY <1>1
<1> HIDE DEF rest
<1>4. ASSUME NEW y \in ToSet(seq) PROVE y \in {Head(seq)} \cup ToSet(rest)
  <2>1. PICK i \in 1..Len(seq) : y = seq[i]
    BY <1>2 DEF ToSet
  <2>2. CASE i = 1
    BY <1>1, <2>1, <2>2
  <2>3. CASE i # 1
    <3>1. i - 1 \in 1..(Len(seq) - 1) /\ (i - 1) + 1 = i
      BY <1>1, <2>3
    <3>2. rest[i - 1] = y
      BY <1>3, <2>1, <3>1
    <3>3. QED
      BY <1>2, <3>1, <3>2 DEF ToSet
  <2>4. QED
    BY <2>2, <2>3
<1>5. ASSUME NEW y \in ToSet(rest) PROVE y \in ToSet(seq)
  <2>1. PICK i \in 1..(Len(seq) - 1) : y = rest[i]
    BY <1>2 DEF ToSet
  <2>2. i + 1 \in 1..Len(seq) /\ y = seq[i + 1]
    BY <1>1, <1>3, <2>1
  <2>3. QED
    BY <1>2, <2>2 DEF ToSet
<1>6. Head(seq) \in ToSet(seq)
  <2>1. 1 \in 1..Len(seq)
    BY <1>1
  <2>2. QED
    BY <1>1, <1>2, <2>1 DEF ToSet
<1>7. QED
  BY <1>1, <1>4, <1>5, <1>6 DEF rest

-----------------------------------------------------------------------------
(* What the steps do to the group *)

(* The node runs its virtual IP: it dispatches, and is in the group.       *)
Follows(n) == vip[n].state # "IDLE"

(* The message by which n announces the state s.                           *)
Message(n, s) == [type |-> "state", nodeid |-> n, state |-> s, runtime_uuid |-> uuid(n)]

(* An inbox after x has dispatched its first event.                        *)
Rest(x, n) == IF n = x THEN Tail(inbox[x]) ELSE inbox[n]

(* A handler sends nothing or announces the state of its node.             *)
LEMMA StampedMessages ==
  ASSUME NEW n, NEW s
  PROVE  Stamped(n, <<>>) = <<>> /\ Stamped(n, <<StateMessage(n, s)>>) = <<Message(n, s)>>
<1>1. DOMAIN <<>> = {} /\ <<>> = [i \in {} |-> 0]
  OBVIOUS
<1>2. Stamped(n, <<>>) = <<>>
  BY <1>1 DEF Stamped
<1> DEFINE sent == <<StateMessage(n, s)>>
<1>3. DOMAIN sent = {1} /\ sent[1].state = s
  BY DEF StateMessage
<1>4. Stamped(n, sent) = [i \in {1} |-> Message(n, s)]
  BY <1>3 DEF Stamped, Message
<1>5. [i \in {1} |-> Message(n, s)] = <<Message(n, s)>>
  OBVIOUS
<1>6. QED
  BY <1>2, <1>4, <1>5

(* The state of the other nodes stays, and a node keeps its identity, its  *)
(* role and its master or takes over under the conditions of fsm_input.c.  *)
HandledBy(x, e, v, w) ==
  /\ w \in SoundVips
  /\ w = IdleVip \/ Tracks(v, e, w)
  /\ w = IdleVip \/ w.node_id = v.node_id
  /\ w = IdleVip \/ w.master_id = IF e.type = "state" /\ e.state \in Active
                                    THEN e.nodeid ELSE v.master_id
  /\ v.state \in Active => w.state \in Active
  /\ v.state = "IDLE" => w.state = "IDLE"
  /\ v.state \notin Active /\ w.state \in Active =>
       \/ e.type = "down" /\ v.master_id = e.nodeid
       \/ e.type = "state" /\ v.state = "START" /\ Cardinality(v.member_list) = 1
  /\ v.state # "BACKUP" /\ w.state = "BACKUP" =>
       e.type = "state" /\ list_entries(w.node_list) = member_list_entries(w)

(* x dispatches an event of the group.                                     *)
LEMMA HandleShape ==
  ASSUME CallsInv, NEW x \in Nodes, HandleEvent(x), NEW e, e = Head(inbox[x])
  PROVE  /\ x \in Joined /\ inbox[x] # <<>>
         /\ e \in GroupEventsOf(made) /\ e.type # "sql" /\ IsGroupEvent(e)
         /\ HandledBy(x, e, vip[x], vip'[x])
         /\ \A n \in Nodes \ {x} : vip'[n] = vip[n] /\ sofia'[n] = sofia[n]
         /\ sofia'[x] = OnCalls(x, vip[x], vip'[x], e, sofia[x])
         /\ \/ \A n \in Nodes : inbox'[n] = Rest(x, n)
            \/ \A n \in Nodes :
                 inbox'[n] = IF n \in Joined THEN Rest(x, n) \o <<Message(x, vip'[x].state)>>
                                             ELSE Rest(x, n)
         /\ ~Follows(x) => \A n \in Nodes : inbox'[n] = Rest(x, n)
<1> DEFINE onDevice == vip[x].state \in Active
<1>1. /\ vip \in [Nodes -> SoundVips] /\ sofia \in [Nodes -> Sofias(made)]
      /\ inbox \in [Nodes -> Seq(GroupEventsOf(made))]
      /\ x \in Joined /\ inbox[x] # <<>> /\ e.type # "sql" /\ onDevice \in BOOLEAN
  BY DEF CallsInv, TypeInv, SoundTypes, HandleEvent
<1>2. e \in GroupEventsOf(made) /\ Tail(inbox[x]) \in Seq(GroupEventsOf(made))
  BY <1>1, HeadTailProperties
<1>3. IsGroupEvent(e)
  BY <1>1, <1>2, EventsAreGroupEvents
<1>4. PICK works \in BOOLEAN :
        LET out == Dispatch(x, vip[x], onDevice, e, works)
        IN  /\ vip' = [vip EXCEPT ![x] = out.vip]
            /\ inbox' = Multicast([inbox EXCEPT ![x] = Tail(@)], Joined, Stamped(x, out.sent))
            /\ sofia' = [sofia EXCEPT ![x] = OnCalls(x, vip[x], out.vip, e, @)]
  BY DEF HandleEvent
<1> DEFINE out == Dispatch(x, vip[x], onDevice, e, works)
<1>5. vip[x] \in SoundVips /\ onDevice \in BOOLEAN /\ out = Dispatch(x, vip[x], onDevice, e, works)
  BY <1>1
<1> HIDE DEF onDevice
<1>6. /\ vip[x] \in SoundVips
      /\ out.vip = IdleVip \/ Tracks(vip[x], e, out.vip)
      /\ vip[x].state = "START" /\ out.vip.state = "BACKUP" =>
           e.type = "state" /\ list_entries(out.vip.node_list) = member_list_entries(out.vip)
  BY <1>3, <1>5, DispatchTracks
<1>7. /\ vip[x].state \notin Active /\ out.vip.state \in Active =>
           \/ e.type = "down"
           \/ e.type = "state" /\ vip[x].state = "START" /\ Cardinality(vip[x].member_list) = 1
      /\ out.vip = IdleVip \/ out.vip.node_id = vip[x].node_id
  BY <1>3, <1>5, DispatchMoves
<1>8. /\ out.sent \in {<<>>, <<StateMessage(x, out.vip.state)>>}
      /\ \/ out.vip = IdleVip
         \/ out.vip.master_id = IF e.type = "state" /\ e.state \in Active
                                  THEN e.nodeid ELSE vip[x].master_id
      /\ e.type = "down" /\ vip[x].state \notin Active /\ out.vip.state \in Active =>
           vip[x].master_id = e.nodeid
      /\ vip[x].state = "IDLE" => out.sent = <<>>
  BY <1>3, <1>5, DispatchAnnounces
<1>9. /\ out.vip \in SoundVips
      /\ vip[x].state \in Active => out.vip.state \in Active
      /\ vip[x].state = "IDLE" => out.vip.state = "IDLE"
  BY <1>3, <1>5, RoleAfterDispatch DEF onDevice
<1>10. /\ vip' = [vip EXCEPT ![x] = out.vip]
      /\ inbox' = Multicast([inbox EXCEPT ![x] = Tail(@)], Joined, Stamped(x, out.sent))
      /\ sofia' = [sofia EXCEPT ![x] = OnCalls(x, vip[x], out.vip, e, @)]
  BY <1>4
<1>11. HandledBy(x, e, vip[x], out.vip)
  BY <1>6, <1>7, <1>8, <1>9 DEF HandledBy, SoundVips, States, Active
<1> HIDE DEF out
<1>12. /\ vip'[x] = out.vip /\ sofia'[x] = OnCalls(x, vip[x], out.vip, e, sofia[x])
       /\ \A n \in Nodes \ {x} : vip'[n] = vip[n] /\ sofia'[n] = sofia[n]
  BY <1>1, <1>10
<1>13. \A n \in Nodes : inbox'[n] = IF n \in Joined THEN Rest(x, n) \o Stamped(x, out.sent)
                                                   ELSE Rest(x, n)
  <2> DEFINE popped == [inbox EXCEPT ![x] = Tail(@)]
             sent == Stamped(x, out.sent)
  <2>1. \A n \in Nodes : popped[n] = Rest(x, n)
    BY <1>1 DEF Rest
  <2>2. inbox' = Multicast(popped, Joined, sent)
    BY <1>10
  <2> HIDE DEF popped, sent
  <2>3. \A n \in Nodes : inbox'[n] = IF n \in Joined THEN popped[n] \o sent ELSE popped[n]
    BY <2>2 DEF Multicast
  <2>4. QED
    BY <2>1, <2>3 DEF sent
<1>14. \A n \in Nodes : Rest(x, n) \o <<>> = Rest(x, n)
  <2>1. \A n \in Nodes : Rest(x, n) \in Seq(GroupEventsOf(made))
    BY <1>1, <1>2 DEF Rest
  <2>2. QED
    BY <2>1, ConcatEmptySeq
<1>15. /\ \/ Stamped(x, out.sent) = <<>>
          \/ Stamped(x, out.sent) = <<Message(x, vip'[x].state)>>
       /\ ~Follows(x) => Stamped(x, out.sent) = <<>>
  BY <1>8, <1>12, StampedMessages DEF Follows
<1>16. QED
  BY <1>1, <1>2, <1>3, <1>11, <1>12, <1>13, <1>14, <1>15

(* x leaves: it loses its inbox, the others are told.                      *)
LEMMA DepartureShape ==
  ASSUME SoundTypes, NEW x \in Nodes, inbox' = Departure(x)
  PROVE  /\ inbox'[x] = <<>>
         /\ \A n \in Nodes \ {x} :
              inbox'[n] = IF n \in Joined THEN inbox[n] \o <<Down(x, Joined \ {x})>> ELSE inbox[n]
         /\ Down(x, Joined \ {x}) \in GroupEventsOf(made)
         /\ Down(x, Joined \ {x}).type = "down" /\ Down(x, Joined \ {x}).nodeid = x
         /\ Down(x, Joined \ {x}).member_list = Joined \ {x}
<1> DEFINE rest == Joined \ {x}
           told == Multicast(inbox, rest, <<Down(x, rest)>>)
<1>1. rest \in SUBSET Nodes
  BY DEF Joined
<1>2. /\ Down(x, rest) \in GroupEventsOf(made) /\ Down(x, rest).type = "down"
      /\ Down(x, rest).nodeid = x /\ Down(x, rest).member_list = rest
  BY <1>1 DEF Down, GroupEventsOf
<1>3. \A n \in Nodes : told[n] = IF n \in rest THEN inbox[n] \o <<Down(x, rest)>> ELSE inbox[n]
  BY DEF Multicast
<1>4. inbox' = [told EXCEPT ![x] = <<>>] /\ DOMAIN told = Nodes
  BY DEF Departure, Multicast
<1> HIDE DEF told
<1>5. inbox'[x] = <<>> /\ \A n \in Nodes \ {x} : inbox'[n] = told[n]
  BY <1>4
<1>6. QED
  BY <1>2, <1>3, <1>5

(* x joins, in START and with its own news first.                          *)
LEMMA JoinShape ==
  ASSUME SoundTypes, NEW x \in Nodes, GoUp(x)
  PROVE  /\ Joined' = Joined \cup {x}
         /\ vip'[x] = [vip[x] EXCEPT !.state = "START", !.node_id = x]
         /\ vip'[x].state = "START" /\ vip'[x].node_id = x
         /\ vip'[x].master_id = vip[x].master_id
         /\ \A n \in Nodes \ {x} : vip'[n] = vip[n]
         /\ \A n \in Nodes \ {x} : phase'[n] = phase[n]
         /\ phase'[x] = "running"
         /\ \A n \in Nodes : inbox'[n] = IF n \in Joined \cup {x}
                                           THEN inbox[n] \o <<Up(Joined \cup {x})>>
                                           ELSE inbox[n]
         /\ Up(Joined \cup {x}) \in GroupEventsOf(made)
         /\ Up(Joined \cup {x}).type = "up" /\ Up(Joined \cup {x}).member_list = Joined \cup {x}
<1> DEFINE group == Joined \cup {x}
<1>1. group \in SUBSET Nodes
  BY DEF Joined
<1>2. Up(group) \in GroupEventsOf(made) /\ Up(group).type = "up" /\ Up(group).member_list = group
  BY <1>1 DEF Up, GroupEventsOf
<1>3. /\ vip \in [Nodes -> SoundVips] /\ vip[x] \in SoundVips
      /\ phase \in [Nodes -> {"dead", "idle", "running", "stopping", "returning"}]
  BY DEF SoundTypes
<1>4. /\ vip' = [vip EXCEPT ![x] = [go_up(@) EXCEPT !.node_id = x]]
      /\ phase' = [phase EXCEPT ![x] = "running"]
      /\ inbox' = Multicast(inbox, group, <<Up(group)>>)
  BY DEF GoUp
<1>5. /\ vip'[x] = [go_up(vip[x]) EXCEPT !.node_id = x]
      /\ phase'[x] = "running"
      /\ \A n \in Nodes \ {x} : vip'[n] = vip[n] /\ phase'[n] = phase[n]
  BY <1>3, <1>4
<1>6. /\ vip'[x] = [vip[x] EXCEPT !.state = "START", !.node_id = x]
      /\ vip'[x].state = "START" /\ vip'[x].node_id = x
      /\ vip'[x].master_id = vip[x].master_id
  BY <1>3, <1>5 DEF go_up, SoundVips
<1>7. Joined' = group
  BY <1>5 DEF Joined
<1>8. \A n \in Nodes : inbox'[n] = IF n \in group THEN inbox[n] \o <<Up(group)>> ELSE inbox[n]
  BY <1>4 DEF Multicast
<1>9. QED
  BY <1>1, <1>2, <1>5, <1>6, <1>7, <1>8

(* A change of the own table that goes to the group.                       *)
LEMMA SendShape ==
  ASSUME SoundTypes, NEW n \in Nodes, NEW e, event_handler(n, e)
  PROVE  \/ inbox' = inbox /\ ~(n \in Joined /\ e.profile \in Names(n))
         \/ /\ n \in Joined /\ e.profile \in Names(n)
            /\ \A m \in Nodes : inbox'[m] = IF m \in Joined
                                              THEN inbox[m] \o <<Sql(n, e.profile, e.sql)>>
                                              ELSE inbox[m]
<1>1. CASE n \in Joined /\ e.profile \in Names(n)
  <2>1. inbox' = Multicast(inbox, Joined, <<Sql(n, e.profile, e.sql)>>)
    BY <1>1 DEF event_handler
  <2>2. QED
    BY <1>1, <2>1 DEF Multicast
<1>2. CASE ~(n \in Joined /\ e.profile \in Names(n))
  BY <1>2 DEF event_handler
<1>3. QED
  BY <1>1, <1>2

-----------------------------------------------------------------------------
(* What the nodes know of the group *)

OutsidersHearNothing == \A n \in Nodes \ Joined : inbox[n] = <<>>

DeparturesAreOut ==
  \A n \in Nodes : \A e \in ToSet(inbox[n]) : e.type = "down" => e.nodeid \notin e.member_list

NobodyLacksItself == \A n \in Nodes : Follows(n) => ~ViewLacks(vip[n], inbox[n], n)

ViewInv == CallsInv /\ OutsidersHearNothing /\ DeparturesAreOut /\ NobodyLacksItself

(* What a step must respect: nobody loses sight of a member.               *)
ViewsKept ==
  /\ OutsidersHearNothing'
  /\ DeparturesAreOut'
  /\ \A n \in Nodes, m \in Joined' :
       Follows(n)' /\ ViewLacks(vip'[n], inbox'[n], m) =>
         Follows(n) /\ ViewLacks(vip[n], inbox[n], m)

(* A node that runs its virtual IP is in the group.                        *)
LEMMA FollowersJoined ==
  ASSUME CallsInv, NEW n \in Nodes, Follows(n)
  PROVE  phase[n] = "running" /\ n \in Joined
BY DEF CallsInv, NodeInv, Follows, Joined

(* The news of one inbox: an event of it has been dispatched, or none, and *)
(* one that is not a change of the group has come, or none.                *)
NewsAt(n, box) ==
  /\ \/ box = inbox[n] /\ (Follows(n)' => vip'[n].member_list = vip[n].member_list)
     \/ /\ inbox[n] # <<>> /\ box = Tail(inbox[n])
        /\ Follows(n)' => vip'[n].member_list = IF IsConfig(Head(inbox[n]))
                                                  THEN Head(inbox[n]).member_list
                                                  ELSE vip[n].member_list
  /\ \/ inbox'[n] = box
     \/ /\ n \in Joined
        /\ \E e \in GroupEventsOf(made) : e.type \in {"state", "sql"} /\ inbox'[n] = box \o <<e>>
  /\ Follows(n)' => Follows(n)

(* Such news keep the views.                                               *)
LEMMA NewsViews ==
  ASSUME ViewInv, Joined' = Joined, \A n \in Nodes : \E box : NewsAt(n, box)
  PROVE  ViewsKept
<1> DEFINE S == GroupEventsOf(made)
<1>1. \A n \in Nodes : inbox[n] \in Seq(S)
  BY DEF ViewInv, CallsInv, TypeInv, SoundTypes
<1>2. ASSUME NEW n \in Nodes
      PROVE  /\ n \notin Joined => inbox'[n] = <<>>
             /\ \A e \in ToSet(inbox'[n]) : e.type = "down" => e \in ToSet(inbox[n])
             /\ \A m : Follows(n)' /\ ViewLacks(vip'[n], inbox'[n], m) =>
                         Follows(n) /\ ViewLacks(vip[n], inbox[n], m)
  <2>1. PICK box : NewsAt(n, box)
    OBVIOUS
  <2>2. inbox[n] \in Seq(S)
    BY <1>1
  <2>3. box \in Seq(S) /\ ToSet(box) \subseteq ToSet(inbox[n])
    BY <2>1, <2>2, ToSetHeadTail DEF NewsAt
  <2>4. \/ inbox'[n] = box
        \/ n \in Joined /\ \E e \in S : e.type \in {"state", "sql"} /\ inbox'[n] = box \o <<e>>
    BY <2>1 DEF NewsAt
  <2>5. ASSUME n \notin Joined PROVE inbox'[n] = <<>>
    <3>1. inbox[n] = <<>>
      BY <2>5 DEF ViewInv, OutsidersHearNothing
    <3>2. QED
      BY <2>1, <2>4, <2>5, <3>1 DEF NewsAt
  <2>6. ASSUME NEW e \in ToSet(inbox'[n]), e.type = "down" PROVE e \in ToSet(inbox[n])
    <3>1. CASE inbox'[n] = box
      BY <2>3, <2>6, <3>1
    <3>2. ASSUME NEW msg \in S, msg.type \in {"state", "sql"}, inbox'[n] = box \o <<msg>>
          PROVE  e \in ToSet(inbox[n])
      <4>1. ToSet(inbox'[n]) = ToSet(box) \cup {msg}
        BY <2>3, <3>2, ToSetAppended
      <4>2. QED
        BY <2>3, <2>6, <3>2, <4>1
    <3>3. QED
      BY <2>4, <3>1, <3>2
  <2>7. ASSUME NEW m, Follows(n)', ViewLacks(vip'[n], inbox'[n], m)
        PROVE  Follows(n) /\ ViewLacks(vip[n], inbox[n], m)
    <3>1. ViewLacks(vip'[n], box, m)
      <4>1. CASE inbox'[n] = box
        BY <2>7, <4>1
      <4>2. ASSUME NEW msg \in S, msg.type \in {"state", "sql"}, inbox'[n] = box \o <<msg>>
            PROVE  ViewLacks(vip'[n], box, m)
        <5>1. ~IsConfig(msg)
          BY <4>2 DEF IsConfig
        <5>2. ViewLacks(vip'[n], box \o <<msg>>, m)
          BY <2>7, <4>2
        <5>3. QED
          BY <2>3, <5>1, <5>2, LacksMore
      <4>3. QED
        BY <2>4, <4>1, <4>2
    <3>2. ASSUME box = inbox[n], vip'[n].member_list = vip[n].member_list
          PROVE  ViewLacks(vip[n], inbox[n], m)
      BY <3>1, <3>2 DEF ViewLacks
    <3>3. ASSUME inbox[n] # <<>>, box = Tail(inbox[n]),
                 vip'[n].member_list = IF IsConfig(Head(inbox[n]))
                                         THEN Head(inbox[n]).member_list
                                         ELSE vip[n].member_list
          PROVE  ViewLacks(vip[n], inbox[n], m)
      BY <2>2, <3>1, <3>3, LacksTail
    <3>4. ViewLacks(vip[n], inbox[n], m)
      BY <2>1, <2>7, <3>2, <3>3 DEF NewsAt
    <3>5. Follows(n)
      BY <2>1, <2>7 DEF NewsAt
    <3>6. QED
      BY <3>4, <3>5
  <2>8. QED
    BY <2>5, <2>6, <2>7
<1>3. OutsidersHearNothing'
  BY <1>2 DEF OutsidersHearNothing
<1>4. DeparturesAreOut'
  BY <1>2 DEF ViewInv, DeparturesAreOut
<1>5. QED
  BY <1>2, <1>3, <1>4 DEF ViewsKept

(* A departure takes out of the views only who is out of the group.        *)
LEMMA DepartureViews ==
  ASSUME ViewInv, NEW x \in Joined, inbox' = Departure(x), Joined' = Joined \ {x},
         \A n \in Nodes : Follows(n)' => Follows(n) /\ n # x /\ vip'[n] = vip[n]
  PROVE  ViewsKept
<1> DEFINE S == GroupEventsOf(made)
           down == Down(x, Joined \ {x})
<1>1. SoundTypes /\ x \in Nodes /\ \A n \in Nodes : inbox[n] \in Seq(S)
  BY DEF ViewInv, CallsInv, TypeInv, SoundTypes, Joined
<1>2. /\ inbox'[x] = <<>>
      /\ \A n \in Nodes \ {x} :
           inbox'[n] = IF n \in Joined THEN inbox[n] \o <<down>> ELSE inbox[n]
      /\ down \in S /\ down.type = "down" /\ down.nodeid = x /\ down.member_list = Joined \ {x}
  BY <1>1, DepartureShape
<1> HIDE DEF down, S
<1>3. OutsidersHearNothing'
  BY <1>2 DEF ViewInv, OutsidersHearNothing
<1>4. DeparturesAreOut'
  <2> SUFFICES ASSUME NEW n \in Nodes, NEW e \in ToSet(inbox'[n]), e.type = "down"
               PROVE  e.nodeid \notin e.member_list
    BY DEF DeparturesAreOut
  <2>1. n # x
    BY <1>2 DEF ToSet
  <2>2. ToSet(inbox'[n]) \subseteq ToSet(inbox[n]) \cup {down}
    BY <1>1, <1>2, <2>1, ToSetAppended
  <2>3. QED
    BY <1>2, <2>2 DEF ViewInv, DeparturesAreOut
<1>5. ASSUME NEW n \in Nodes, NEW m \in Joined', Follows(n)', ViewLacks(vip'[n], inbox'[n], m)
      PROVE  Follows(n) /\ ViewLacks(vip[n], inbox[n], m)
  <2>1. Follows(n) /\ n # x /\ vip'[n] = vip[n] /\ m \in down.member_list
    BY <1>2, <1>5
  <2>2. inbox'[n] = inbox[n] \/ inbox'[n] = inbox[n] \o <<down>>
    BY <1>2, <2>1
  <2>3. CASE inbox'[n] = inbox[n]
    BY <1>5, <2>1, <2>3
  <2>4. CASE inbox'[n] = inbox[n] \o <<down>>
    <3>1. ViewLacks(vip[n], inbox[n] \o <<down>>, m)
      BY <1>5, <2>1, <2>4
    <3>2. ViewLacks(vip[n], inbox[n], m)
      BY <1>1, <1>2, <2>1, <3>1, LacksMore
    <3>3. QED
      BY <2>1, <3>2
  <2>5. QED
    BY <2>2, <2>3, <2>4
<1>6. QED
  BY <1>3, <1>4, <1>5 DEF ViewsKept

(* Who joins sees the whole group, and the group sees it.                  *)
LEMMA JoinViews ==
  ASSUME ViewInv, NEW x \in Nodes \ Joined, GoUp(x)
  PROVE  ViewsKept
<1> DEFINE S == GroupEventsOf(made)
           all == Joined \cup {x}
           up == Up(all)
<1>1. SoundTypes /\ \A n \in Nodes : inbox[n] \in Seq(S)
  BY DEF ViewInv, CallsInv, TypeInv, SoundTypes
<1>2. /\ Joined' = all /\ \A n \in Nodes \ {x} : vip'[n] = vip[n]
      /\ \A n \in Nodes : inbox'[n] = IF n \in all THEN inbox[n] \o <<up>> ELSE inbox[n]
      /\ up \in S /\ up.type = "up" /\ up.member_list = all
  BY <1>1, JoinShape
<1>3. inbox[x] = <<>>
  BY DEF ViewInv, OutsidersHearNothing
<1>4. inbox'[x] = <<up>> /\ x \in all
  <2>1. <<>> \o <<up>> = <<up>>
    OBVIOUS
  <2>2. QED
    BY <1>2, <1>3, <2>1
<1> HIDE DEF up, S
<1>5. OutsidersHearNothing'
  BY <1>2 DEF ViewInv, OutsidersHearNothing
<1>6. DeparturesAreOut'
  <2> SUFFICES ASSUME NEW n \in Nodes, NEW e \in ToSet(inbox'[n]), e.type = "down"
               PROVE  e.nodeid \notin e.member_list
    BY DEF DeparturesAreOut
  <2>1. ToSet(inbox'[n]) \subseteq ToSet(inbox[n]) \cup {up}
    BY <1>1, <1>2, ToSetAppended
  <2>2. QED
    BY <1>2, <2>1 DEF ViewInv, DeparturesAreOut
<1>7. ASSUME NEW n \in Nodes, NEW m \in Joined', Follows(n)', ViewLacks(vip'[n], inbox'[n], m)
      PROVE  Follows(n) /\ ViewLacks(vip[n], inbox[n], m)
  <2>1. m \in up.member_list
    BY <1>2
  <2>2. n # x
    <3>1. ~ViewLacks(vip'[x], <<up>>, m)
      BY <1>2, <2>1 DEF ViewLacks, IsConfig
    <3>2. QED
      BY <1>4, <1>7, <3>1
  <2>3. vip'[n] = vip[n] /\ Follows(n)
    BY <1>2, <1>7, <2>2 DEF Follows
  <2>4. CASE inbox'[n] = inbox[n]
    BY <1>7, <2>3, <2>4
  <2>5. CASE inbox'[n] = inbox[n] \o <<up>>
    <3>1. ViewLacks(vip[n], inbox[n] \o <<up>>, m)
      BY <1>7, <2>3, <2>5
    <3>2. ViewLacks(vip[n], inbox[n], m)
      BY <1>1, <1>2, <2>1, <3>1, LacksMore
    <3>3. QED
      BY <2>3, <3>2
  <2>6. QED
    BY <1>2, <2>4, <2>5
<1>8. QED
  BY <1>5, <1>6, <1>7 DEF ViewsKept

(* So every step keeps the views ...                                       *)
LEMMA StepViews ==
  ASSUME ViewInv, [Next]_vars
  PROVE  ViewsKept
<1> DEFINE S == GroupEventsOf(made)
<1>1. /\ CallsInv /\ SoundTypes /\ \A n \in Nodes : inbox[n] \in Seq(S)
      /\ vip \in [Nodes -> SoundVips]
      /\ phase \in [Nodes -> {"dead", "idle", "running", "stopping", "returning"}]
  BY DEF ViewInv, CallsInv, TypeInv, SoundTypes
<1>2. ASSUME inbox' = inbox, phase' = phase,
             \A n \in Nodes : Follows(n)' => Follows(n) /\ vip'[n] = vip[n]
      PROVE  ViewsKept
  <2>1. Joined' = Joined
    BY <1>2 DEF Joined
  <2>2. \A n \in Nodes : NewsAt(n, inbox[n])
    BY <1>2 DEF NewsAt
  <2>3. QED
    BY <2>1, <2>2, NewsViews
<1>3. CASE UNCHANGED vars
  BY <1>2, <1>3 DEF vars, groupVars, Follows
<1>4. ASSUME NEW x \in Nodes, HandleEvent(x) PROVE ViewsKept
  <2> DEFINE e == Head(inbox[x])
  <2>1. /\ x \in Joined /\ inbox[x] # <<>> /\ e \in S /\ e.type # "sql" /\ IsGroupEvent(e)
        /\ HandledBy(x, e, vip[x], vip'[x])
        /\ \A n \in Nodes \ {x} : vip'[n] = vip[n]
        /\ \/ \A n \in Nodes : inbox'[n] = Rest(x, n)
           \/ \A n \in Nodes :
                inbox'[n] = IF n \in Joined THEN Rest(x, n) \o <<Message(x, vip'[x].state)>>
                                            ELSE Rest(x, n)
    BY <1>1, <1>4, HandleShape
  <2>2. Joined' = Joined
    BY <1>4 DEF HandleEvent, Joined
  <2>3. Message(x, vip'[x].state) \in S /\ Message(x, vip'[x].state).type = "state"
    BY <1>1, <2>1, UuidType DEF Message, GroupEventsOf, HandledBy, SoundVips
  <2>4. ASSUME NEW n \in Nodes PROVE NewsAt(n, Rest(x, n))
    <3>1. \/ inbox'[n] = Rest(x, n)
          \/ n \in Joined /\ \E msg \in S : msg.type \in {"state", "sql"}
                                            /\ inbox'[n] = Rest(x, n) \o <<msg>>
      BY <2>1, <2>3
    <3>2. CASE n = x
      <4>1. Follows(x)' => Follows(x) /\ Tracks(vip[x], e, vip'[x])
        BY <2>1 DEF HandledBy, Follows, IdleVip
      <4>2. Follows(x)' => vip'[x].member_list = IF IsConfig(e) THEN e.member_list
                                                               ELSE vip[x].member_list
        BY <2>1, <4>1 DEF Tracks, IsConfig, IsGroupEvent
      <4>3. QED
        BY <2>1, <3>1, <3>2, <4>1, <4>2 DEF NewsAt, Rest
    <3>3. CASE n # x
      BY <2>1, <3>1, <3>3 DEF NewsAt, Rest, Follows
    <3>4. QED
      BY <3>2, <3>3
  <2>5. QED
    BY <2>2, <2>4, NewsViews
<1>5. ASSUME NEW x \in Nodes, DeliverSql(x) PROVE ViewsKept
  <2>1. /\ vip' = vip /\ phase' = phase /\ inbox[x] # <<>> /\ Head(inbox[x]).type = "sql"
        /\ inbox' = [inbox EXCEPT ![x] = Tail(@)]
    BY <1>5 DEF DeliverSql
  <2>2. Joined' = Joined
    BY <2>1 DEF Joined
  <2>3. ASSUME NEW n \in Nodes PROVE NewsAt(n, Rest(x, n))
    <3>1. inbox'[n] = Rest(x, n)
      BY <1>1, <2>1 DEF Rest, SoundTypes
    <3>2. QED
      BY <2>1, <3>1 DEF NewsAt, Rest, Follows, IsConfig
  <2>4. QED
    BY <2>2, <2>3, NewsViews
<1>6. ASSUME NEW x \in Nodes, HandleFsEvent(x) PROVE ViewsKept
  <2> DEFINE e == Head(sofia[x].events)
  <2>1. /\ vip' = vip /\ phase' = phase
        /\ \/ inbox' = inbox
           \/ e.type = "recovery_send" /\ event_handler(x, e)
    BY <1>6 DEF HandleFsEvent
  <2>2. CASE inbox' = inbox
    BY <1>2, <2>1, <2>2 DEF Follows
  <2>3. CASE e.type = "recovery_send" /\ event_handler(x, e) /\ inbox' # inbox
    <3>1. /\ x \in Joined /\ e.profile \in Names(x)
          /\ \A m \in Nodes : inbox'[m] = IF m \in Joined
                                            THEN inbox[m] \o <<Sql(x, e.profile, e.sql)>>
                                            ELSE inbox[m]
      BY <1>1, <2>3, SendShape
    <3>2. Sql(x, e.profile, e.sql) \in S /\ Sql(x, e.profile, e.sql).type = "sql"
      <4>1. sofia[x].events \in Seq(FsEventsOf(made)) /\ sofia[x].events # <<>>
        BY <1>1, <1>6 DEF SoundTypes, Sofias, HandleFsEvent
      <4>2. e \in FsEventsOf(made)
        BY <4>1, ToSetHeadTail
      <4>3. e.profile \in SipProfiles /\ e.sql \in StatementsOf(made)
        BY <2>3, <4>2 DEF FsEventsOf
      <4>4. QED
        BY <4>3 DEF Sql, GroupEventsOf
    <3>3. Joined' = Joined
      BY <2>1 DEF Joined
    <3>4. \A n \in Nodes : NewsAt(n, inbox[n])
      BY <2>1, <3>1, <3>2 DEF NewsAt, Follows
    <3>5. QED
      BY <3>3, <3>4, NewsViews
  <2>4. QED
    BY <2>1, <2>2, <2>3
<1>7. ASSUME NEW x \in Nodes, CallBegins(x) \/ CallEnds(x) PROVE ViewsKept
  BY <1>2, <1>7 DEF CallBegins, CallEnds, groupVars, Follows
<1>8. ASSUME NEW x \in Nodes, LeaveGroup(x) PROVE ViewsKept
  <2>1. x \in Joined /\ vip' = vip /\ vip[x].state = "IDLE" /\ inbox' = Departure(x)
    BY <1>8 DEF LeaveGroup, Falls
  <2>2. Joined' = Joined \ {x}
    BY <1>1, <1>8 DEF LeaveGroup, Joined
  <2>3. QED
    BY <2>1, <2>2, DepartureViews DEF ViewInv, Follows
<1>9. ASSUME NEW x \in Nodes, Stop(x) PROVE ViewsKept
  <2>1. /\ inbox' = inbox /\ vip' = [vip EXCEPT ![x] = IdleVip]
        /\ phase[x] = "running" /\ phase' = [phase EXCEPT ![x] = "stopping"]
    BY <1>9 DEF Stop, go_down
  <2>2. Joined' = Joined
    BY <1>1, <2>1 DEF Joined
  <2>3. \A n \in Nodes : Follows(n)' => Follows(n) /\ vip'[n] = vip[n]
    BY <1>1, <2>1 DEF Follows, IdleVip
  <2>4. \A n \in Nodes : NewsAt(n, inbox[n])
    BY <2>1, <2>3 DEF NewsAt
  <2>5. QED
    BY <2>2, <2>4, NewsViews
<1>10. ASSUME NEW x \in Nodes, StopReturns(x) PROVE ViewsKept
  <2>1. /\ inbox' = inbox /\ vip' = vip
        /\ phase[x] = "returning" /\ phase' = [phase EXCEPT ![x] = "idle"]
    BY <1>10 DEF StopReturns
  <2>2. Joined' = Joined
    BY <1>1, <2>1 DEF Joined
  <2>3. \A n \in Nodes : NewsAt(n, inbox[n])
    BY <2>1 DEF NewsAt, Follows
  <2>4. QED
    BY <2>2, <2>3, NewsViews
<1>11. ASSUME NEW x \in Nodes, Crash(x) PROVE ViewsKept
  <2>1. /\ vip' = [vip EXCEPT ![x] = IdleVip] /\ phase' = [phase EXCEPT ![x] = "dead"]
        /\ Joined' = Joined \ {x}
    BY <1>1, <1>11 DEF Crash, Joined
  <2>2. \A n \in Nodes : Follows(n)' => Follows(n) /\ n # x /\ vip'[n] = vip[n]
    BY <1>1, <2>1 DEF Follows, IdleVip
  <2>3. CASE x \in Joined
    BY <1>11, <2>1, <2>2, <2>3, DepartureViews DEF Crash, Falls
  <2>4. CASE x \notin Joined
    <3>1. inbox' = inbox /\ Joined' = Joined
      BY <1>11, <2>1, <2>4 DEF Crash
    <3>2. \A n \in Nodes : NewsAt(n, inbox[n])
      BY <2>2, <3>1 DEF NewsAt
    <3>3. QED
      BY <3>1, <3>2, NewsViews
  <2>5. QED
    BY <2>3, <2>4
<1>12. ASSUME NEW x \in Nodes, Start(x) \/ Load(x) PROVE ViewsKept
  <2>1. GoUp(x) /\ x \notin Joined
    BY <1>12 DEF Start, Load, Joined
  <2>2. QED
    BY <2>1, JoinViews
<1>13. QED
  BY <1>3, <1>4, <1>5, <1>6, <1>7, <1>8, <1>9, <1>10, <1>11, <1>12 DEF Next

(* ... and nobody ever lacks itself.                                       *)
LEMMA ViewInvariant == Spec => []ViewInv
<1>1. Init => OutsidersHearNothing /\ DeparturesAreOut /\ NobodyLacksItself
  <2> SUFFICES ASSUME Init
               PROVE  OutsidersHearNothing /\ DeparturesAreOut /\ NobodyLacksItself
    OBVIOUS
  <2>1. \A n \in Nodes : inbox[n] = <<>>
    BY DEF Init
  <2>2. OutsidersHearNothing /\ DeparturesAreOut
    BY <2>1 DEF OutsidersHearNothing, DeparturesAreOut, ToSet
  <2>3. PICK scenario \in Scenarios :
          vip = [n \in Nodes |-> IF n \in scenario.members
                                   THEN Settled(n, scenario.members) ELSE IdleVip]
    BY DEF Init
  <2>4. \A n \in Nodes : Follows(n) => n \in vip[n].member_list
    BY <2>3 DEF Follows, Settled, IdleVip
  <2>5. NobodyLacksItself
    BY <2>1, <2>4 DEF NobodyLacksItself, ViewLacks
  <2>6. QED
    BY <2>2, <2>5
<1>2. ViewInv /\ CallsInv' /\ [Next]_vars => ViewInv'
  <2> SUFFICES ASSUME ViewInv, CallsInv', [Next]_vars
               PROVE  ViewInv'
    OBVIOUS
  <2>1. ViewsKept
    BY StepViews
  <2>2. \A n \in Nodes : Follows(n)' => n \in Joined'
    BY DEF CallsInv, NodeInv, Follows, Joined
  <2>3. NobodyLacksItself'
    BY <2>1, <2>2 DEF ViewsKept, ViewInv, NobodyLacksItself
  <2>4. QED
    BY <2>1, <2>3 DEF ViewsKept, ViewInv
<1>3. CallsInv /\ OutsidersHearNothing /\ DeparturesAreOut /\ NobodyLacksItself <=> ViewInv
  BY DEF ViewInv
<1>4. QED
  BY <1>1, <1>2, <1>3, CallsInvariant, PTL DEF Spec

-----------------------------------------------------------------------------
(* Two nodes: one holder per call *)

AtMostTwoNodes == \A m, n \in Nodes : m # n => Nodes = {m, n}

(* n serves, or is on the way to: it is about to go on without m.          *)
Ahead(n, m) == Follows(n) /\ (vip[n].state \in Active \/ ViewLacks(vip[n], inbox[n], m))

(* The one of two nodes that came later waits for the other's word.        *)
OneIsAhead == \A n, m \in Nodes : n # m => ~(Ahead(n, m) /\ Ahead(m, n))

(* A handler that takes the address over without m has lost sight of it.   *)
LEMMA TakeOverLacks ==
  ASSUME AtMostTwoNodes, ViewInv, NEW n \in Nodes, NEW m \in Nodes, n # m,
         HandleEvent(n), vip[n].state \notin Active, vip'[n].state \in Active
  PROVE  Follows(n) /\ ViewLacks(vip[n], inbox[n], m)
<1> DEFINE e == Head(inbox[n])
           S == GroupEventsOf(made)
<1>1. CallsInv /\ vip[n] \in SoundVips /\ inbox[n] \in Seq(S)
  BY DEF ViewInv, CallsInv, TypeInv, SoundTypes
<1>2. /\ e \in S /\ inbox[n] # <<>> /\ IsGroupEvent(e)
      /\ HandledBy(n, e, vip[n], vip'[n])
  BY <1>1, HandleShape
<1>3. 1 \in 1..Len(inbox[n]) /\ inbox[n][1] = e
  BY <1>1, <1>2, HeadTailProperties, LenProperties, EmptySeq
<1>4. Follows(n)
  BY <1>2 DEF HandledBy, Follows, Active
<1>5. ~ViewLacks(vip[n], inbox[n], n)
  BY <1>4 DEF ViewInv, NobodyLacksItself
<1>6. CASE e.type = "down"
  <2>1. e \in ToSet(inbox[n])
    BY <1>1, <1>2, ToSetHeadTail
  <2>2. e.nodeid \notin e.member_list /\ e.nodeid \in Nodes
    BY <1>2, <1>6, <2>1 DEF ViewInv, DeparturesAreOut, IsGroupEvent
  <2>3. n \in e.member_list
    BY <1>3, <1>5, <1>6 DEF ViewLacks, IsConfig
  <2>4. e.nodeid = m
    BY <2>2, <2>3 DEF AtMostTwoNodes
  <2>5. QED
    BY <1>3, <1>4, <1>6, <2>2, <2>4 DEF ViewLacks, IsConfig
<1>7. CASE e.type = "state" /\ vip[n].state = "START" /\ Cardinality(vip[n].member_list) = 1
  <2>1. ~IsConfig(inbox[n][1])
    BY <1>3, <1>7 DEF IsConfig
  <2>2. n \in vip[n].member_list
    BY <1>5, <2>1 DEF ViewLacks
  <2>3. m \notin vip[n].member_list
    <3>1. IsFiniteSet(vip[n].member_list)
      BY <1>1, NodesAssumption, FS_Subset DEF SoundVips
    <3>2. PICK only : vip[n].member_list = {only}
      BY <1>7, <3>1, FS_Singleton
    <3>3. QED
      BY <2>2, <3>2
  <2>4. QED
    BY <1>4, <2>1, <2>3 DEF ViewLacks
<1>8. QED
  BY <1>2, <1>6, <1>7 DEF HandledBy

(* Nobody gets ahead of a node that is in the group.                       *)
LEMMA AheadStep ==
  ASSUME AtMostTwoNodes, ViewInv, [Next]_vars, NEW n \in Nodes, NEW m \in Joined', n # m,
         Ahead(n, m)'
  PROVE  Ahead(n, m)
<1>1. ViewsKept /\ m \in Nodes
  BY StepViews DEF Joined
<1>2. CASE ViewLacks(vip'[n], inbox'[n], m)
  BY <1>1, <1>2 DEF Ahead, ViewsKept
<1>3. ASSUME vip'[n].state \in Active, vip[n].state \notin Active
      PROVE  Ahead(n, m)
  <2>1. DOMAIN vip = Nodes
    BY DEF ViewInv, CallsInv, TypeInv, SoundTypes
  <2>2. vip[n] \in SoundVips /\ IdleVip.state = "IDLE"
    BY DEF ViewInv, CallsInv, TypeInv, SoundTypes, IdleVip
  <2>3. ASSUME NEW x \in Nodes, HandleEvent(x) PROVE x = n
    <3>1. CallsInv
      BY DEF ViewInv
    <3>2. \A k \in Nodes \ {x} : vip'[k] = vip[k]
      BY <2>3, <3>1, HandleShape
    <3>3. QED
      BY <1>3, <3>2
  <2>4. ASSUME NEW x \in Nodes, Stop(x) \/ Crash(x) PROVE FALSE
    BY <1>3, <2>1, <2>2, <2>4 DEF Stop, Crash, go_down, Active
  <2>5. ASSUME NEW x \in Nodes, Start(x) \/ Load(x) PROVE FALSE
    <3>1. vip' = [vip EXCEPT ![x] = [go_up(@) EXCEPT !.node_id = x]]
      BY <2>5 DEF Start, Load, GoUp
    <3>2. x = n /\ vip'[n].state = "START"
      BY <1>3, <2>1, <2>2, <3>1 DEF go_up, SoundVips
    <3>3. QED
      BY <1>3, <3>2 DEF Active
  <2>6. vip' # vip
    BY <1>3
  <2>7. HandleEvent(n)
    BY <2>3, <2>4, <2>5, <2>6 DEF Next, DeliverSql, LeaveGroup, HandleFsEvent, CallBegins,
           CallEnds, StopReturns, vars, groupVars
  <2>8. QED
    BY <1>1, <1>3, <2>7, TakeOverLacks DEF Ahead
<1>4. CASE vip'[n].state \in Active /\ vip[n].state \in Active
  BY <1>4 DEF Ahead, Follows, Active
<1>5. QED
  BY <1>2, <1>3, <1>4 DEF Ahead

(* So of two nodes one is ahead, whatever happens.                         *)
LEMMA OneIsAheadInvariant ==
  ASSUME AtMostTwoNodes
  PROVE  Spec => [](ViewInv /\ OneIsAhead)
<1>1. Init => OneIsAhead
  <2> SUFFICES ASSUME Init, NEW n \in Nodes, NEW m \in Nodes, n # m, Ahead(n, m), Ahead(m, n)
               PROVE  FALSE
    BY DEF OneIsAhead
  <2>1. PICK scenario \in Scenarios :
          vip = [k \in Nodes |-> IF k \in scenario.members
                                   THEN Settled(k, scenario.members) ELSE IdleVip]
    BY DEF Init
  <2>2. inbox[n] = <<>> /\ inbox[m] = <<>>
    BY DEF Init
  <2>3. n \in scenario.members /\ m \in scenario.members
    BY <2>1 DEF Ahead, Follows, IdleVip
  <2>4. vip[n].member_list = scenario.members /\ vip[m].member_list = scenario.members
    BY <2>1, <2>3 DEF Settled
  <2>5. vip[n].state \in Active /\ vip[m].state \in Active
    BY <2>2, <2>3, <2>4 DEF Ahead, ViewLacks
  <2>6. n = First(scenario.members) /\ m = First(scenario.members)
    BY <2>1, <2>3, <2>5 DEF Settled, Active
  <2>7. QED
    BY <2>6
<1>2. ViewInv /\ OneIsAhead /\ CallsInv' /\ [Next]_vars => OneIsAhead'
  <2> SUFFICES ASSUME ViewInv, OneIsAhead, CallsInv', [Next]_vars,
                      NEW n \in Nodes, NEW m \in Nodes, n # m, Ahead(n, m)', Ahead(m, n)'
               PROVE  FALSE
    BY DEF OneIsAhead
  <2>1. n \in Joined' /\ m \in Joined'
    BY DEF CallsInv, NodeInv, Ahead, Follows, Joined
  <2>2. Ahead(n, m) /\ Ahead(m, n)
    BY <2>1, AheadStep
  <2>3. QED
    BY <2>2 DEF OneIsAhead
<1>3. ViewInv => CallsInv
  BY DEF ViewInv
<1>4. QED
  BY <1>1, <1>2, <1>3, ViewInvariant, PTL DEF Spec

(* What "sofia profile recover" finds are calls of profiles of the node.   *)
LEMMA RecoverCallsNames ==
  ASSUME SoundTypes, NEW n \in Nodes, NEW s \in Sofias(made)
  PROVE  \A c \in RecoverCalls(n, s).calls : c \in s.calls \/ ProfileOf[c] \in Names(n)
<1> DEFINE size == Len(profiles[n])
           Named == {x \in Sofias(made) :
                       \A c \in x.calls : c \in s.calls \/ ProfileOf[c] \in Names(n)}
           Kept == [i \in 0..size |-> Named]
<1>1. /\ profiles[n] \in Seq(Profiles) /\ uuid(n) \in Uuids
      /\ size \in Nat /\ DOMAIN profiles[n] = 1..size
  BY UuidType, LenProperties DEF SoundTypes
<1>2. \A i \in 0..(size - 1) : /\ profiles[n][i + 1].name \in SipProfiles \cap Names(n)
                              /\ i \in 0..size /\ i + 1 \in 0..size
  <2>1. ASSUME NEW i \in 0..(size - 1)
        PROVE  /\ profiles[n][i + 1] \in Profiles
               /\ profiles[n][i + 1].name \in Names(n)
    <3>1. i + 1 \in 1..size
      BY <1>1
    <3>2. QED
      BY <1>1, <3>1, ElementOfSeq DEF Names, ToSet
  <2>2. QED
    BY <1>1, <2>1 DEF Profiles
<1>3. ASSUME NEW p, p.name \in SipProfiles \cap Names(n), NEW x \in Named
      PROVE  RecoverOne(uuid(n), x, p) \in Named
  <2> DEFINE rows == {r \in x.sip_recovery : r.runtime_uuid # uuid(n)
                                             /\ ProfileOf[r.uuid] = p.name}
             calls == {r.uuid : r \in rows}
             y == utils_recover(x, uuid(n), p.name)
  <2>1. x \in Sofias(made) /\ y \in Sofias(made)
    BY <1>1, <1>3, RecoverType
  <2>2. y.calls = x.calls \cup calls
    BY <2>1 DEF utils_recover, Track, Fire, Sofias
  <2>3. \A c \in calls : ProfileOf[c] \in Names(n)
    BY <1>3
  <2> HIDE DEF y, calls
  <2>4. y \in Named
    BY <1>3, <2>1, <2>2, <2>3
  <2>5. QED
    BY <1>3, <2>4 DEF RecoverOne, y
<1>4. s \in Named
  OBVIOUS
<1> HIDE DEF Named
<1>5. Recovering!Loop(uuid(n), s, profiles[n]) \in Kept[size]
  <2>1. \A i \in 0..size : Kept[i] = Named
    OBVIOUS
  <2> HIDE DEF Kept, size
  <2>2. s \in Kept[0]
    BY <1>1, <1>4, <2>1
  <2>3. \A i \in 0..(size - 1) : \A x \in Kept[i] :
          RecoverOne(uuid(n), x, profiles[n][i + 1]) \in Kept[i + 1]
    BY <1>2, <1>3, <2>1
  <2>4. QED
    BY <1>1, <2>2, <2>3, Recovering!LoopInvariant
<1>6. RecoverCalls(n, s) \in Named
  <2>1. size \in 0..size
    BY <1>1
  <2>2. QED
    BY <1>5, <2>1, RecoveringIsLoop
<1>7. QED
  BY <1>6 DEF Named

(* A call that two nodes hold is of a profile that one of them names: that *)
(* one has recovered it from its table.                                    *)
SharedNamed ==
  \A m, n \in Nodes : m # n =>
    \A c \in sofia[m].calls \cap sofia[n].calls : ProfileOf[c] \in Names(m) \cup Names(n)

(* Only x changes its calls in a step of x, and how it comes to more.      *)
Holds(x) ==
  /\ \A n \in Nodes \ {x} : sofia'[n] = sofia[n]
  /\ \A n \in Nodes \ {x} : profiles'[n] = profiles[n]
  /\ \A c \in sofia'[x].calls : c \in sofia[x].calls \/ ProfileOf[c] \in Names(x) \/ c \notin made
  /\ profiles'[x] = profiles[x] \/ sofia'[x].calls = {}

(* How a node comes to hold a call.                                        *)
LEMMA StepHolds ==
  ASSUME CallsInv, NEW x \in Nodes,
         \/ HandleEvent(x) \/ DeliverSql(x) \/ LeaveGroup(x)
         \/ HandleFsEvent(x) \/ CallBegins(x) \/ CallEnds(x)
         \/ Stop(x) \/ StopReturns(x) \/ Crash(x) \/ Start(x) \/ Load(x)
  PROVE  Holds(x)
<1>1. /\ SoundTypes /\ sofia \in [Nodes -> Sofias(made)] /\ DOMAIN profiles = Nodes
      /\ sofia[x] \in Sofias(made) /\ NodeInv(x)
  BY DEF CallsInv, TypeInv, SoundTypes
<1>2. ASSUME HandleEvent(x) PROVE Holds(x)
  <2> DEFINE e == Head(inbox[x])
             s == OnCalls(x, vip[x], vip'[x], e, sofia[x])
  <2>1. /\ \A n \in Nodes \ {x} : vip'[n] = vip[n] /\ sofia'[n] = sofia[n]
        /\ sofia'[x] = s
    BY <1>2, HandleShape
  <2>2. /\ virtual_ip_send_all_sql(x, sofia[x]).calls = sofia[x].calls
        /\ CleanUpTables(x, sofia[x]).calls = sofia[x].calls
        /\ HangUpCalls(x, sofia[x]).calls \subseteq sofia[x].calls
    BY <1>1, CallsAfterLoops
  <2>3. \A c \in RecoverCalls(x, sofia[x]).calls : c \in sofia[x].calls \/ ProfileOf[c] \in Names(x)
    BY <1>1, RecoverCallsNames
  <2>4. s \in {virtual_ip_send_all_sql(x, sofia[x]), RecoverCalls(x, sofia[x]),
               CleanUpTables(x, sofia[x]), HangUpCalls(x, sofia[x]), sofia[x]}
    BY DEF OnCalls
  <2>5. profiles' = profiles
    BY <1>2 DEF HandleEvent
  <2> HIDE DEF s
  <2>6. \A c \in s.calls : c \in sofia[x].calls \/ ProfileOf[c] \in Names(x)
    BY <2>2, <2>3, <2>4
  <2>7. QED
    BY <2>1, <2>5, <2>6 DEF Holds
<1>3. ASSUME DeliverSql(x) PROVE Holds(x)
  <2>1. PICK sql, profile :
          \/ sofia' = sofia
          \/ sofia' = [sofia EXCEPT ![x] = utils_send_track_event(@, sql, profile)]
    BY <1>3 DEF DeliverSql
  <2>2. utils_send_track_event(sofia[x], sql, profile).calls = sofia[x].calls
    BY <1>1 DEF utils_send_track_event, Fire, Sofias
  <2>3. QED
    BY <1>1, <1>3, <2>1, <2>2 DEF Holds, DeliverSql
<1>4. ASSUME HandleFsEvent(x) PROVE Holds(x)
  <2> DEFINE e == Head(sofia[x].events)
             rest == [sofia[x] EXCEPT !.events = Tail(@)]
  <2>1. sofia' = [sofia EXCEPT ![x] = rest] \/ sofia' = [sofia EXCEPT ![x] = TrackEvent(rest, e)]
    BY <1>4 DEF HandleFsEvent
  <2>2. rest.calls = sofia[x].calls /\ TrackEvent(rest, e).calls = rest.calls
    BY <1>1 DEF TrackEvent, Fire, Sofias
  <2>3. profiles' = profiles
    BY <1>4 DEF HandleFsEvent
  <2> HIDE DEF rest, e
  <2>4. QED
    BY <1>1, <2>1, <2>2, <2>3 DEF Holds
<1>5. ASSUME CallBegins(x) PROVE Holds(x)
  <2>1. PICK c \in Calls \ made :
          sofia' = [sofia EXCEPT ![x] = Track(@, uuid(x), {c}, ProfileOf[c])]
    BY <1>5 DEF CallBegins
  <2>2. Track(sofia[x], uuid(x), {c}, ProfileOf[c]).calls = sofia[x].calls \cup {c}
    BY <1>1 DEF Track, Fire, Sofias
  <2>3. QED
    BY <1>1, <1>5, <2>1, <2>2 DEF Holds, CallBegins, groupVars
<1>6. ASSUME CallEnds(x) PROVE Holds(x)
  <2>1. PICK c : sofia' = [sofia EXCEPT ![x] = Untrack(@, uuid(x), {c}, ProfileOf[c])]
    BY <1>6 DEF CallEnds
  <2>2. Untrack(sofia[x], uuid(x), {c}, ProfileOf[c]).calls = sofia[x].calls \ {c}
    BY <1>1 DEF Untrack, Fire, Sofias
  <2>3. QED
    BY <1>1, <1>6, <2>1, <2>2 DEF Holds, CallEnds, groupVars
<1>7. ASSUME StopReturns(x) PROVE Holds(x)
  <2>1. HangUpCalls(x, sofia[x]).calls \subseteq sofia[x].calls
    BY <1>1, CallsAfterLoops
  <2>2. QED
    BY <1>1, <1>7, <2>1 DEF Holds, StopReturns
<1>8. ASSUME Crash(x) PROVE Holds(x)
  <2>1. sofia'[x].calls = {}
    BY <1>1, <1>8 DEF Crash, Sofias
  <2>2. QED
    BY <1>1, <1>8, <2>1 DEF Holds, Crash
<1>9. ASSUME Load(x) PROVE Holds(x)
  <2>1. sofia[x].calls = {} /\ sofia' = sofia
    BY <1>1, <1>9 DEF NodeInv, Load
  <2>2. \A n \in Nodes \ {x} : profiles'[n] = profiles[n]
    BY <1>1, <1>9 DEF Load
  <2>3. QED
    BY <2>1, <2>2 DEF Holds
<1>10. CASE LeaveGroup(x) \/ Stop(x) \/ Start(x)
  BY <1>10 DEF Holds, LeaveGroup, Stop, Start
<1>11. QED
  BY <1>2, <1>3, <1>4, <1>5, <1>6, <1>7, <1>8, <1>9, <1>10

(* The invariant of shared calls.                                          *)
LEMMA SharedNamedInvariant == Spec => []SharedNamed
<1>1. Init => SharedNamed
  BY DEF Init, SharedNamed
<1>2. CallsInv /\ SharedNamed /\ [Next]_vars => SharedNamed'
  <2> SUFFICES ASSUME CallsInv, SharedNamed, [Next]_vars
               PROVE  SharedNamed'
    OBVIOUS
  <2>1. CASE UNCHANGED vars
    BY <2>1 DEF SharedNamed, Names, vars, groupVars
  <2>2. ASSUME NEW x \in Nodes, Holds(x) PROVE SharedNamed'
    <3>1. \A n \in Nodes : sofia[n].calls \subseteq made
      BY DEF CallsInv, TypeInv, SoundTypes, Sofias
    <3>2. \A n \in Nodes \ {x} : Names(n)' = Names(n)
      BY <2>2 DEF Holds, Names
    <3>3. Names(x)' = Names(x) \/ sofia'[x].calls = {}
      BY <2>2 DEF Holds, Names
    <3>4. ASSUME NEW n \in Nodes, n # x, NEW c \in sofia'[x].calls \cap sofia'[n].calls
          PROVE  ProfileOf[c] \in Names(x)' \cup Names(n)'
      <4>1. c \in sofia[n].calls /\ c \in made /\ Names(x)' = Names(x)
        BY <2>2, <3>1, <3>3, <3>4 DEF Holds
      <4>2. c \in sofia[x].calls \/ ProfileOf[c] \in Names(x)
        BY <2>2, <3>4, <4>1 DEF Holds
      <4>3. QED
        BY <3>2, <3>4, <4>1, <4>2 DEF SharedNamed
    <3>5. ASSUME NEW m \in Nodes \ {x}, NEW n \in Nodes \ {x}, m # n,
                 NEW c \in sofia'[m].calls \cap sofia'[n].calls
          PROVE  ProfileOf[c] \in Names(m)' \cup Names(n)'
      BY <2>2, <3>2, <3>5 DEF Holds, SharedNamed
    <3>6. QED
      BY <3>4, <3>5 DEF SharedNamed
  <2>3. QED
    BY <2>1, <2>2, StepHolds DEF Next
<1>3. QED
  BY <1>1, <1>2, CallsInvariant, PTL DEF Spec

(* The processes have read configurations of the same profiles.            *)
NamedAlike == \A m, n \in {k \in Nodes : phase[k] # "dead"} : Names(m) = Names(n)

(* Of two nodes of the same profiles, two hold one call only while the     *)
(* go_down of one has not returned: at most one of them serves             *)
(* (fsm_input.c), only who serves recovers calls, and who serves no more   *)
(* has hung up every call of its profiles.  Of a profile that one of them  *)
(* does not name the call would stay with the node that served first.      *)
THEOREM CallsHaveOneHolder ==
  ASSUME AtMostTwoNodes
  PROVE  Spec => [](NamedAlike => OneHolderPerCall)
<1>1. CallsInv /\ OneIsAhead /\ SharedNamed => (NamedAlike => OneHolderPerCall)
  <2> SUFFICES ASSUME CallsInv, OneIsAhead, SharedNamed, NamedAlike,
                      NEW m \in Nodes, NEW n \in Nodes, m # n,
                      phase[m] \notin {"stopping", "returning"},
                      phase[n] \notin {"stopping", "returning"},
                      NEW c \in sofia[m].calls \cap sofia[n].calls
               PROVE  FALSE
    BY DEF OneHolderPerCall
  <2>1. ProfileOf[c] \in Names(m) /\ ProfileOf[c] \in Names(n)
    BY DEF SharedNamed, NamedAlike, CallsInv, NodeInv
  <2>2. vip[m].state \in Active /\ vip[n].state \in Active
    BY <2>1 DEF CallsInv, NodeInv
  <2>3. QED
    BY <2>2 DEF OneIsAhead, Ahead, Follows, Active
<1>2. ViewInv => CallsInv
  BY DEF ViewInv
<1>3. QED
  BY <1>1, <1>2, OneIsAheadInvariant, SharedNamedInvariant, PTL

-----------------------------------------------------------------------------
(* What the events of the group do to the calls *)

(* The event a node in any state makes of what it hears, and its action.   *)
LEMMA ActionsHeard ==
  ASSUME NEW n, NEW v \in SoundVips, NEW e, IsGroupEvent(e)
  PROVE  /\ Action(n, v, e) = "backupup" <=> e.type = "up" /\ v.state \in Active
         /\ Action(n, v, e) = "react" => e.type = "down" /\ v.master_id = e.nodeid
                                         /\ v.state \notin Active
<1>1. v.state \in States
  BY DEF SoundVips
<1>2. \A s \in States :
        /\ table["BACKUP_UP"][s] = "backupup" <=> s \in Active
        /\ table["BACKUP_UP"][s] # "react"
        /\ \A event \in EventNames :
             /\ event # "BACKUP_UP" => table[event][s] # "backupup"
             /\ table[event][s] = "react" => event = "MASTER_DOWN" /\ s = "BACKUP"
  BY DEF table, States, Active, EventNames
<1>3. CASE e.type = "up"
  <2>1. Action(n, v, e) = table["BACKUP_UP"][v.state]
    BY <1>3 DEF Action, EventOf
  <2>2. QED
    BY <1>1, <1>2, <1>3, <2>1
<1>4. CASE e.type = "down"
  <2>1. EventOf(n, v, e) = IF v.master_id = e.nodeid THEN "MASTER_DOWN" ELSE "BACKUP_DOWN"
    BY <1>4 DEF EventOf
  <2>2. Action(n, v, e) = table[EventOf(n, v, e)][v.state]
    BY <2>1 DEF Action
  <2>3. EventOf(n, v, e) \in EventNames /\ EventOf(n, v, e) # "BACKUP_UP"
    BY <2>1 DEF EventNames
  <2>4. QED
    BY <1>1, <1>2, <1>4, <2>1, <2>2, <2>3 DEF Active
<1>5. CASE e.type = "state"
  <2> DEFINE event == EventOf(n, v, e)
  <2>1. Recorded(v, e).state = v.state
    BY DEF Recorded, SoundVips
  <2>2. event = MessageEvent(n, Recorded(v, e), e)
    BY <1>5 DEF EventOf
  <2>3. /\ event \in {"DUPLICATE", "MASTER_DOWN", "MASTER_UP", "RBACK_REQ", "none"}
        /\ event = "MASTER_DOWN" => v.state = "START"
    BY <2>1, <2>2 DEF MessageEvent
  <2>4. Action(n, v, e) = IF event = "none" THEN "none" ELSE table[event][v.state]
    BY DEF Action
  <2> HIDE DEF event
  <2>5. event # "none" => event \in EventNames /\ event # "BACKUP_UP"
    BY <2>3 DEF EventNames
  <2>6. QED
    BY <1>1, <1>2, <1>5, <2>3, <2>4, <2>5
<1>6. QED
  BY <1>3, <1>4, <1>5 DEF IsGroupEvent

(* A node that serves requests its rows when others join, no more; another *)
(* that does not take the master for fallen at most hangs up.              *)
LEMMA HandledCalls ==
  ASSUME NEW n, NEW v \in SoundVips, NEW e, IsGroupEvent(e), NEW after, NEW s,
         v.state \in Active => after.state \in Active
  PROVE  /\ v.state \in Active =>
              OnCalls(n, v, after, e, s) = IF e.type = "up" THEN virtual_ip_send_all_sql(n, s)
                                                            ELSE s
         /\ v.state \notin Active /\ ~(e.type = "down" /\ v.master_id = e.nodeid) =>
              OnCalls(n, v, after, e, s) \in {s, HangUpCalls(n, s)}
<1>1. /\ Action(n, v, e) = "backupup" <=> e.type = "up" /\ v.state \in Active
      /\ Action(n, v, e) = "react" => e.type = "down" /\ v.master_id = e.nodeid
                                      /\ v.state \notin Active
  BY ActionsHeard
<1>2. "IDLE" \notin Active
  BY DEF Active
<1>3. CASE v.state \in Active
  BY <1>1, <1>2, <1>3 DEF OnCalls
<1>4. CASE v.state \notin Active
  BY <1>1, <1>4 DEF OnCalls
<1>5. QED
  BY <1>3, <1>4

(* Who holds no call has nothing to hang up.                               *)
LEMMA NothingToHangUp ==
  ASSUME SoundTypes, NEW n \in Nodes, NEW s, s.calls = {}
  PROVE  HangUpCalls(n, s) = s
<1> DEFINE size == Len(profiles[n])
           Kept == [i \in 0..size |-> {s}]
<1>1. size \in Nat /\ DOMAIN profiles[n] = 1..size
  BY LenProperties DEF SoundTypes
<1>2. \A p : HangUpOne(uuid(n), s, p) = s
  <2> SUFFICES ASSUME NEW p PROVE HangUpOne(uuid(n), s, p) = s
    OBVIOUS
  <2>1. {c \in s.calls : ProfileOf[c] = p.name} = {}
    OBVIOUS
  <2>2. QED
    BY <2>1 DEF HangUpOne, utils_hupall, Untrack
<1>3. \A i \in 0..size : Kept[i] = {s}
  OBVIOUS
<1>4. \A i \in 0..(size - 1) : i \in 0..size /\ i + 1 \in 0..size
  BY <1>1
<1>5. 0 \in 0..size /\ size \in 0..size
  BY <1>1
<1> HIDE DEF Kept, size
<1>6. s \in Kept[0] /\ \A i \in 0..(size - 1) : \A x \in Kept[i] :
                         HangUpOne(uuid(n), x, profiles[n][i + 1]) \in Kept[i + 1]
  BY <1>2, <1>3, <1>4, <1>5
<1>7. HangingUp!Loop(uuid(n), s, profiles[n]) \in Kept[size]
  BY <1>1, <1>6, HangingUp!LoopInvariant
<1>8. QED
  BY <1>3, <1>5, <1>7, HangingUpIsLoop

(* An event fired is the last of the queue.                                *)
LEMMA Fired ==
  ASSUME NEW C, NEW s \in Sofias(C), NEW event \in FsEventsOf(C)
  PROVE  /\ s.events \in Seq(FsEventsOf(C))
         /\ Fire(s, event).sip_recovery = s.sip_recovery /\ Fire(s, event).calls = s.calls
         /\ Fire(s, event).events = s.events \o <<event>>
         /\ ToSet(Fire(s, event).events) = ToSet(s.events) \cup {event}
<1>1. s.events \in Seq(FsEventsOf(C))
  BY DEF Sofias
<1>2. /\ Append(s.events, event) = s.events \o <<event>>
      /\ ToSet(s.events \o <<event>>) = ToSet(s.events) \cup {event}
  BY <1>1, ToSetAppended
<1>3. Fire(s, event) = [s EXCEPT !.events = Append(s.events, event)]
  BY DEF Fire
<1>4. Fire(s, event) = [s EXCEPT !.events = s.events \o <<event>>]
  BY <1>2, <1>3
<1> DEFINE longer == s.events \o <<event>>
<1> HIDE DEF longer
<1>5. /\ Fire(s, event).sip_recovery = s.sip_recovery /\ Fire(s, event).calls = s.calls
      /\ Fire(s, event).events = longer
  BY <1>4 DEF Sofias, longer
<1>6. QED
  BY <1>1, <1>2, <1>4, <1>5 DEF longer

(* The request for the rows of a profile.                                  *)
Request(name) == [type |-> "request_all", profile |-> name]

(* backupup: a request per profile, behind what was queued.                *)
LEMMA RequestsSent ==
  ASSUME SoundTypes, NEW n \in Nodes, NEW s \in Sofias(made),
         NEW t, t = virtual_ip_send_all_sql(n, s)
  PROVE  /\ t.sip_recovery = s.sip_recovery /\ t.calls = s.calls
         /\ ToSet(t.events) = ToSet(s.events) \cup {Request(name) : name \in Names(n)}
<1> DEFINE size == Len(profiles[n])
           name(i) == profiles[n][i].name
           asked(i) == {Request(name(j)) : j \in 1..i}
           Kept == [i \in 0..size |->
                      {x \in Sofias(made) : /\ x.sip_recovery = s.sip_recovery
                                            /\ x.calls = s.calls
                                            /\ ToSet(x.events) = ToSet(s.events) \cup asked(i)}]
<1>1. /\ profiles[n] \in Seq(Profiles) /\ size \in Nat /\ DOMAIN profiles[n] = 1..size
  BY LenProperties DEF SoundTypes
<1>2. \A i \in 0..(size - 1) : /\ name(i + 1) \in SipProfiles
                              /\ i \in 0..size /\ i + 1 \in 0..size
  <2>1. ASSUME NEW i \in 0..(size - 1)
        PROVE  profiles[n][i + 1] \in Profiles
    <3>1. i + 1 \in 1..size
      BY <1>1
    <3>2. QED
      BY <1>1, <3>1, ElementOfSeq
  <2>2. QED
    BY <1>1, <2>1 DEF Profiles
<1>3. 0 \in 0..size /\ size \in 0..size
  BY <1>1
<1>4. asked(0) = {} /\ \A i \in 0..(size - 1) : asked(i + 1) = asked(i) \cup {Request(name(i + 1))}
  <2>1. 1..0 = {} /\ \A i \in 0..(size - 1) : 1..(i + 1) = (1..i) \cup {i + 1}
    BY <1>1
  <2>2. QED
    BY <2>1
<1>5. asked(size) = {Request(k) : k \in Names(n)}
  <2>1. Names(n) = {name(j) : j \in 1..size}
    BY <1>1 DEF Names, ToSet
  <2>2. QED
    BY <2>1
<1> HIDE DEF size, name, asked
<1>6. \A i \in 0..size : \A x :
        x \in Kept[i] <=> /\ x \in Sofias(made) /\ x.sip_recovery = s.sip_recovery
                          /\ x.calls = s.calls
                          /\ ToSet(x.events) = ToSet(s.events) \cup asked(i)
  OBVIOUS
<1> HIDE DEF Kept
<1>7. ASSUME NEW i \in 0..(size - 1), NEW x \in Kept[i]
      PROVE  RequestOne(0, x, profiles[n][i + 1]) \in Kept[i + 1]
  <2> DEFINE y == RequestOne(0, x, profiles[n][i + 1])
             request == Request(name(i + 1))
  <2>1. x \in Sofias(made) /\ name(i + 1) \in SipProfiles /\ i \in 0..size /\ i + 1 \in 0..size
    BY <1>2, <1>6
  <2>2. y \in Sofias(made)
    BY <2>1, RequestType DEF RequestOne, name
  <2>3. request \in FsEventsOf(made) /\ y = Fire(x, request)
    BY <2>1 DEF RequestOne, utils_send_request_all, Request, name, FsEventsOf
  <2> HIDE DEF y, request
  <2>4. /\ y.sip_recovery = x.sip_recovery /\ y.calls = x.calls
        /\ ToSet(y.events) = ToSet(x.events) \cup {request}
    <3>1. x \in Sofias(made) /\ request \in FsEventsOf(made)
      BY <2>1, <2>3
    <3>2. Fire(x, request).sip_recovery = x.sip_recovery
      BY <3>1, Fired
    <3>3. ToSet(Fire(x, request).events) = ToSet(x.events) \cup {request}
      BY <3>1, Fired
    <3>4. Fire(x, request).calls = x.calls
      BY <3>1, Fired
    <3>5. QED
      BY <2>3, <3>2, <3>3, <3>4
  <2>5. ToSet(y.events) = ToSet(s.events) \cup asked(i + 1)
    BY <1>4, <1>6, <2>1, <2>4 DEF request
  <2>6. QED
    BY <1>6, <2>1, <2>2, <2>4, <2>5 DEF y
<1>8. s \in Kept[0]
  BY <1>3, <1>4, <1>6
<1>9. Requesting!Loop(0, s, profiles[n]) \in Kept[size]
  BY <1>1, <1>7, <1>8, Requesting!LoopInvariant DEF size
<1>10. t \in Kept[size]
  BY <1>9, RequestingIsLoop
<1>11. QED
  BY <1>3, <1>5, <1>6, <1>10

=============================================================================
