--------------------------------- MODULE Fsm ---------------------------------
(***************************************************************************)
(* The states of a virtual IP and the lookup table of fsm.c.               *)
(***************************************************************************)

States == {"IDLE", "START", "BACKUP", "MASTER", "RBACK"}
Active == {"MASTER", "RBACK"}

(* The lookup table: event by state.                                       *)
table ==
  [STARTUP     |-> [IDLE |-> "go_up", START |-> "error",   BACKUP |-> "error",
                    MASTER |-> "error",    RBACK |-> "error"],
   DUPLICATE   |-> [IDLE |-> "error", START |-> "go_down", BACKUP |-> "dup_warn",
                    MASTER |-> "dup_warn", RBACK |-> "dup_warn"],
   MASTER_DOWN |-> [IDLE |-> "error", START |-> "act",     BACKUP |-> "react",
                    MASTER |-> "error",    RBACK |-> "error"],
   MASTER_UP   |-> [IDLE |-> "error", START |-> "observe", BACKUP |-> "error",
                    MASTER |-> "error",    RBACK |-> "error"],
   BACKUP_DOWN |-> [IDLE |-> "error", START |-> "noop",    BACKUP |-> "noop",
                    MASTER |-> "noop",     RBACK |-> "rback_stop"],
   BACKUP_UP   |-> [IDLE |-> "error", START |-> "nodeup",  BACKUP |-> "nodeup",
                    MASTER |-> "backupup", RBACK |-> "backupup"],
   RBACK_REQ   |-> [IDLE |-> "error", START |-> "error",   BACKUP |-> "error",
                    MASTER |-> "rollback", RBACK |-> "rback_stop"],
   STOP        |-> [IDLE |-> "error", START |-> "go_down", BACKUP |-> "go_down",
                    MASTER |-> "go_down",  RBACK |-> "go_down"]]

==============================================================================
