------------------------------ MODULE FileLocks ------------------------------
(***************************************************************************)
(* The locks of the connections on one SQLite database file, in the        *)
(* default rollback-journal mode.                                          *)
(*                                                                         *)
(* The connections are opened by sqlite3_open alone, so no busy timeout is *)
(* set and a lock that is not free is refused at once (SQLITE_BUSY).       *)
(***************************************************************************)
CONSTANT Conn  \* the connections, each in a process or thread of its own

VARIABLE lock  \* lock[c]: the file lock c holds between two calls

(* EXCLUSIVE is held within one step only, so no state between steps has   *)
(* it; "pending" is what a COMMIT that was refused EXCLUSIVE leaves.       *)
LockLevel == {"none", "shared", "reserved", "pending"}

Writer(c) == lock[c] \in {"reserved", "pending"}

CanShare(c)   == \A o \in Conn \ {c} : lock[o] # "pending"
CanReserve(c) == \A o \in Conn \ {c} : ~Writer(o)
CanExclude(c) == \A o \in Conn \ {c} : lock[o] = "none"
=============================================================================
