--------------------------- MODULE StaffAccounts ---------------------------
(***************************************************************************)
(* The accounts of admins and sales experts (staff.service.ts): login and  *)
(* its bootstrap from the environment, creation, and the admin's patch,    *)
(* whose checks and writes are separate database calls.                    *)
(*                                                                         *)
(* desk[d] is a login, creation or patch in flight.  A session cookie is   *)
(* signed and never looked up again: whoever has logged in stays logged in *)
(* for the cookie's life, which the model lets outlast the behaviour.      *)
(***************************************************************************)
EXTENDS Naturals, FiniteSets

CONSTANTS
  Admins,        \* phone numbers accounts with role admin are created for
  SalesExperts,  \* phone numbers of role sales_expert
  Nobody,        \* the bootstrap session, which has no staffUserId
  Desks,         \* requests in flight
  EnvPassword    \* ADMIN_PASSWORD or its hash is configured

ASSUME StaffAssumption ==
  /\ IsFiniteSet(Admins) /\ IsFiniteSet(SalesExperts) /\ IsFiniteSet(Desks)
  /\ Admins \cap SalesExperts = {}
  /\ Nobody \notin Admins \cup SalesExperts
  /\ EnvPassword \in BOOLEAN

Staff == Admins \cup SalesExperts

VARIABLES
  account,     \* staff_users: "absent", "active" or "inactive"
  onPause,     \* experts with assignmentPausedAt
  sessions,    \* who holds an admin session
  desk,        \* local variables of each request
  staffRace    \* history: two deactivations of admins have overlapped

staffVars == <<account, onPause, sessions, desk, staffRace>>

NoDesk == [at |-> "idle", who |-> Nobody, active |-> "keep", pause |-> "keep"]
\* A patch body gives isActive, assignmentPaused, or both.
Patches == [active : {"keep", "on", "off"}, pause : {"keep", "on", "off"}]
DeskStages == {"idle", "count_role", "insert", "count_active", "write_active", "write_pause"}

StaffInit ==
  /\ account = [s \in Staff |-> "absent"]
  /\ onPause = {}
  /\ sessions = {}
  /\ desk = [d \in Desks |-> NoDesk]
  /\ staffRace = FALSE

\* Where the modules that use these accounts start: everyone has one.
StaffHired ==
  /\ account = [s \in Staff |-> "active"]
  /\ onPause = {} /\ sessions = {} /\ desk = [d \in Desks |-> NoDesk] /\ staffRace = FALSE

-----------------------------------------------------------------------------
DeskFree(d) == desk[d].at = "idle"
DeskLeave(d) == desk' = [desk EXCEPT ![d] = NoDesk]
DeskGoto(d, stage) == desk' = [desk EXCEPT ![d].at = stage]

\* countActiveAdmins
ActiveAdmins == {a \in Admins : account[a] = "active"}

\* countStaffUsersByRole("admin")
AdminRows == {a \in Admins : account[a] # "absent"}

-----------------------------------------------------------------------------
(* authenticateStaff for the role admin *)

Login(d, a) ==
  /\ DeskFree(d)
  /\ account[a] = "active"
  /\ sessions' = sessions \cup {a}
  /\ UNCHANGED <<account, onPause, desk, staffRace>>

\* No account with this phone: the environment password counts only as long
\* as the role has no account at all, which takes another call to find out.
BootstrapFind(d) ==
  /\ DeskFree(d)
  /\ \E a \in Admins : account[a] = "absent"
  /\ DeskGoto(d, "count_role")
  /\ UNCHANGED <<account, onPause, sessions, staffRace>>

BootstrapCount(d) ==
  /\ desk[d].at = "count_role"
  /\ sessions' = IF AdminRows = {} /\ EnvPassword THEN sessions \cup {Nobody} ELSE sessions
  /\ DeskLeave(d)
  /\ UNCHANGED <<account, onPause, staffRace>>

-----------------------------------------------------------------------------
(* createStaffUserByAdmin: the phone is looked up, then inserted; the      *)
(* unique key refuses the second of two inserts.                           *)

CreateFind(d, s) ==
  /\ DeskFree(d)
  /\ sessions # {}
  /\ account[s] = "absent"
  /\ desk' = [desk EXCEPT ![d] = [NoDesk EXCEPT !.at = "insert", !.who = s]]
  /\ UNCHANGED <<account, onPause, sessions, staffRace>>

CreateInsert(d) ==
  /\ desk[d].at = "insert"
  /\ LET s == desk[d].who
     IN account' = IF account[s] = "absent" THEN [account EXCEPT ![s] = "active"] ELSE account
  /\ DeskLeave(d)
  /\ UNCHANGED <<onPause, sessions, staffRace>>

-----------------------------------------------------------------------------
(* patchStaffUserByAdmin *)

\* Where a patch goes once it has passed its checks.
FirstWrite(active) == IF active = "keep" THEN "write_pause" ELSE "write_active"

\* session.staffUserId ?? id: a bootstrap session acts as the account it
\* patches, and nobody deactivates himself.
Himself(by, s) == by = s \/ by = Nobody

OffDesks == {d \in Desks : desk[d].active = "off" /\ desk[d].who \in Admins}

PatchRead(d, by, s) ==
  /\ DeskFree(d)
  /\ by \in sessions
  /\ account[s] # "absent"
  /\ \E p \in Patches :
       /\ p.active # "keep" \/ p.pause # "keep"
       /\ ~(p.active = "off" /\ Himself(by, s))
       /\ p.pause # "keep" => s \in SalesExperts
       /\ desk' = [desk EXCEPT ![d] =
            [at |-> IF p.active = "off" /\ s \in Admins /\ account[s] = "active"
                    THEN "count_active" ELSE FirstWrite(p.active),
             who |-> s, active |-> p.active, pause |-> p.pause]]
       /\ staffRace' = (staffRace \/ (p.active = "off" /\ s \in Admins /\ OffDesks # {}))
  /\ UNCHANGED <<account, onPause, sessions>>

\* Fault: inactive admins count as well.
PatchCountRows(d) ==
  /\ desk[d].at = "count_active"
  /\ IF Cardinality(AdminRows) <= 1 THEN DeskLeave(d) ELSE DeskGoto(d, "write_active")
  /\ UNCHANGED <<account, onPause, sessions, staffRace>>

\* countActiveAdmins: the last one is refused.
PatchCount(d) ==
  /\ desk[d].at = "count_active"
  /\ IF Cardinality(ActiveAdmins) <= 1 THEN DeskLeave(d) ELSE DeskGoto(d, "write_active")
  /\ UNCHANGED <<account, onPause, sessions, staffRace>>

\* setStaffUserActive: by id, whatever the row has become.
PatchActive(d) ==
  /\ desk[d].at = "write_active"
  /\ account' = [account EXCEPT ![desk[d].who] = IF desk[d].active = "on" THEN "active" ELSE "inactive"]
  /\ IF desk[d].pause = "keep" THEN DeskLeave(d) ELSE DeskGoto(d, "write_pause")
  /\ UNCHANGED <<onPause, sessions, staffRace>>

\* setStaffAssignmentPaused
PatchPause(d) ==
  /\ desk[d].at = "write_pause"
  /\ onPause' = IF desk[d].pause = "on" THEN onPause \cup {desk[d].who} ELSE onPause \ {desk[d].who}
  /\ DeskLeave(d)
  /\ UNCHANGED <<account, sessions, staffRace>>

-----------------------------------------------------------------------------
StaffStep(d) ==
  \/ \E a \in Admins : Login(d, a)
  \/ BootstrapFind(d) \/ BootstrapCount(d)
  \/ \E s \in Staff : CreateFind(d, s)
  \/ CreateInsert(d)
  \/ \E by \in Admins \cup {Nobody}, s \in Staff : PatchRead(d, by, s)
  \/ PatchCount(d) \/ PatchActive(d) \/ PatchPause(d)

StaffNext == \E d \in Desks : StaffStep(d)

StaffSpec == StaffInit /\ [][StaffNext]_staffVars

-----------------------------------------------------------------------------
(* Properties *)

\* patchStaffUserByAdmin counts the active admins, then deactivates by id: two
\* admins who deactivate each other at the same time leave none.  Without such
\* an overlap, once there is an admin account there is an active one.
AnAdminRemains == AdminRows # {} /\ ~staffRace => ActiveAdmins # {}
=============================================================================
