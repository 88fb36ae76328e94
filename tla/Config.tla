------------------------------- MODULE Config -------------------------------
(***************************************************************************)
(* cpg_config.c: the Sofia profiles of a virtual IP, as do_config reads    *)
(* them from cpg.conf.xml.  An entry of the file names a profile and says  *)
(* whether its calls are to be recovered; an array of fixed size keeps the *)
(* entries that are valid and new.                                         *)
(***************************************************************************)
EXTENDS SequencesExt

CONSTANTS ProfileNames,      \* what an entry of the file may name
          SipProfiles,       \* the profiles with a file in sip_profiles
          MAX_SOFIA_PROFILES

ASSUME ProfilesAssumption == MAX_SOFIA_PROFILES \in Nat \ {0}

utils_profile_control(name) == name \in SipProfiles

(* Mutant of profile_name_is_present: the last entry read is not compared. *)
profile_name_is_present_before(profiles, name) ==
  \E i \in 1 .. Len(profiles) - 1 : profiles[i].name = name

profile_name_is_present(profiles, name) == \E i \in DOMAIN profiles : profiles[i].name = name

(* One turn of the loop: an entry after the array is full ends the loop,   *)
(* which leaves the array as it is.  (The code also clears the name past   *)
(* the array: the first byte of vip.state, which is 0, IDLE, at that time.) *)
ReadProfile(profiles, entry) ==
  IF \/ Len(profiles) >= MAX_SOFIA_PROFILES
     \/ ~utils_profile_control(entry.name)
     \/ profile_name_is_present(profiles, entry.name)
    THEN profiles
    ELSE Append(profiles, entry)

do_config(file) == FoldLeft(ReadProfile, <<>>, file)

-----------------------------------------------------------------------------
(* The reference: an entry counts if it is valid and its name has not     *)
(* been seen, and the array holds the first that count, in the order of    *)
(* the file and all of them unless the array is full.                      *)
Entries == [name : ProfileNames, autorecover : BOOLEAN]

Valid(file) == {i \in DOMAIN file : /\ utils_profile_control(file[i].name)
                                   /\ \A j \in 1 .. i - 1 : file[j].name # file[i].name}

IsFirstValid(profiles, file) ==
  /\ Len(profiles) <= MAX_SOFIA_PROFILES
  /\ \E pick \in [DOMAIN profiles -> Valid(file)] :
       /\ \A k \in DOMAIN profiles : profiles[k] = file[pick[k]]
       /\ \A k, l \in DOMAIN profiles : k < l => pick[k] < pick[l]
       /\ \A i \in Valid(file) :
            \/ \E k \in DOMAIN profiles : pick[k] = i
            \/ /\ Len(profiles) = MAX_SOFIA_PROFILES
               /\ \A k \in DOMAIN profiles : pick[k] < i

=============================================================================
