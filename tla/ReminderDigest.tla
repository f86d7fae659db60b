--------------------------- MODULE ReminderDigest ---------------------------
(***************************************************************************)
(* The morning digest SMS of one day (follow-up-reminder.service.ts):      *)
(* every cron call in the window goes through the experts with follow-ups  *)
(* due, then through the admins, claims a staff_reminder_log row for each  *)
(* (unique per person, day and type), sends, and deletes the row when      *)
(* sending fails so that a later call tries again.                         *)
(*                                                                         *)
(* round[c] is a cron call in flight; calls of two schedulers, or a slow   *)
(* one and the next, overlap.  Experts and admins have one type each.      *)
(***************************************************************************)
EXTENDS StaffAccounts

CONSTANTS
  Rounds,           \* cron calls in flight
  Switched,         \* bound: the accounts that come and go
  MaxRounds,        \* bound: cron calls made this day
  MaxDigestFaults   \* bound: failed sends and deaths

ASSUME DigestAssumption ==
  /\ IsFiniteSet(Rounds)
  /\ Switched \subseteq Staff
  /\ MaxRounds \in Nat /\ MaxDigestFaults \in Nat

VARIABLES
  hour,         \* hour of the day in Tehran
  claims,       \* staff_reminder_logs of the day: whose row exists
  round,
  digests,      \* history: digest SMS each person has received
  alarms,       \* history: of them, those whose sending threw all the same
  orphans,      \* history: people whose round died while it held their claim
  roundsMade,   \* history
  digestFaults  \* history

digestOwn == <<hour, claims, round, digests, alarms, orphans, roundsMade, digestFaults>>
digestVars == <<digestOwn, staffVars>>

\* FOLLOW_UP_DIGEST_WINDOW, end exclusive
WindowStart == 9
WindowEnd == 11
InWindow == WindowStart <= hour /\ hour < WindowEnd

NoRound == [at |-> "idle", who |-> Nobody, todo |-> {}, admins |-> FALSE]

DayInit ==
  /\ hour = WindowStart - 1
  /\ claims = {}
  /\ round = [c \in Rounds |-> NoRound]
  /\ digests = [s \in Staff |-> 0]
  /\ alarms = [s \in Staff |-> 0]
  /\ orphans = {}
  /\ roundsMade = 0
  /\ digestFaults = 0

DigestInit == DayInit /\ StaffHired

-----------------------------------------------------------------------------
\* listActiveSalesExpertsWithPhone, listActiveAdminsWithPhone
ActiveOf(group) == {s \in group : account[s] = "active"}

RoundGoto(c, at, who) == round' = [round EXCEPT ![c].at = at, ![c].who = who]

\* processFollowUpReminderDigests reads the experts and who of them has
\* follow-ups due once; the counts change from call to call.
RoundStart(c) ==
  /\ round[c].at = "idle"
  /\ roundsMade < MaxRounds
  /\ InWindow
  /\ \E due \in SUBSET ActiveOf(SalesExperts) :
       round' = [round EXCEPT ![c] = [at |-> "next", who |-> Nobody, todo |-> due, admins |-> FALSE]]
  /\ roundsMade' = roundsMade + 1
  /\ UNCHANGED <<hour, claims, digests, alarms, orphans, digestFaults, staffVars>>

\* processAdminOverdueFollowUpDigests, if enabled and something is overdue
AdminsStart(c) ==
  /\ round[c].at = "next" /\ round[c].todo = {} /\ ~round[c].admins
  /\ \E overdue \in BOOLEAN :
       round' = [round EXCEPT ![c].admins = TRUE,
                              ![c].todo = IF overdue THEN ActiveOf(Admins) ELSE {}]
  /\ UNCHANGED <<hour, claims, digests, alarms, orphans, roundsMade, digestFaults, staffVars>>

RoundEnd(c) ==
  /\ round[c].at = "next" /\ round[c].todo = {} /\ round[c].admins
  /\ round' = [round EXCEPT ![c] = NoRound]
  /\ UNCHANGED <<hour, claims, digests, alarms, orphans, roundsMade, digestFaults, staffVars>>

\* Fault: looks for the row and creates it after sending.
ClaimLater(c) ==
  /\ round[c].at = "next"
  /\ \E s \in round[c].todo :
       round' = IF s \in claims
                THEN [round EXCEPT ![c].todo = @ \ {s}]
                ELSE [round EXCEPT ![c].todo = @ \ {s}, ![c].at = "send", ![c].who = s]
  /\ UNCHANGED <<hour, claims, digests, alarms, orphans, roundsMade, digestFaults, staffVars>>

\* tryCreateStaffReminderLog: the insert fails on the unique key if the row exists.
Claim(c) ==
  /\ round[c].at = "next"
  /\ \E s \in round[c].todo :
       IF s \in claims
       THEN round' = [round EXCEPT ![c].todo = @ \ {s}] /\ UNCHANGED claims
       ELSE /\ round' = [round EXCEPT ![c].todo = @ \ {s}, ![c].at = "send", ![c].who = s]
            /\ claims' = claims \cup {s}
  /\ UNCHANGED <<hour, digests, alarms, orphans, roundsMade, digestFaults, staffVars>>

Send(c) ==
  /\ round[c].at = "send"
  /\ digests' = [digests EXCEPT ![round[c].who] = @ + 1]
  /\ RoundGoto(c, "next", Nobody)
  /\ UNCHANGED <<hour, claims, alarms, orphans, roundsMade, digestFaults, staffVars>>

\* sendMessage throws; the gateway may have delivered the SMS all the same.
SendThrows(c) ==
  /\ round[c].at = "send"
  /\ digestFaults < MaxDigestFaults
  /\ digestFaults' = digestFaults + 1
  /\ \E delivered \in {0, 1} :
       /\ digests' = [digests EXCEPT ![round[c].who] = @ + delivered]
       /\ alarms' = [alarms EXCEPT ![round[c].who] = @ + delivered]
  /\ RoundGoto(c, "release", round[c].who)
  /\ UNCHANGED <<hour, claims, orphans, roundsMade, staffVars>>

\* Fault: the claim is kept when sending fails.
KeepClaim(c) ==
  /\ round[c].at = "release"
  /\ RoundGoto(c, "next", Nobody)
  /\ UNCHANGED <<hour, claims, digests, alarms, orphans, roundsMade, digestFaults, staffVars>>

\* deleteStaffReminderLog
Release(c) ==
  /\ round[c].at = "release"
  /\ claims' = claims \ {round[c].who}
  /\ RoundGoto(c, "next", Nobody)
  /\ UNCHANGED <<hour, digests, alarms, orphans, roundsMade, digestFaults, staffVars>>

\* The process stops, or a database call other than the claim's conflict
\* throws: the rest of the round does not happen.
RoundDies(c) ==
  /\ round[c].at # "idle"
  /\ digestFaults < MaxDigestFaults
  /\ digestFaults' = digestFaults + 1
  /\ orphans' = orphans \cup ({round[c].who} \ {Nobody})
  /\ round' = [round EXCEPT ![c] = NoRound]
  /\ UNCHANGED <<hour, claims, digests, alarms, roundsMade, staffVars>>

HourPasses ==
  /\ hour < WindowEnd
  /\ hour' = hour + 1
  /\ UNCHANGED <<claims, round, digests, alarms, orphans, roundsMade, digestFaults, staffVars>>

\* An admin's patch (StaffAccounts) switches an account on or off; it keeps the
\* last active admin.
StaffSwitched(s) ==
  /\ ActiveAdmins # {s}
  /\ account' = [account EXCEPT ![s] = IF @ = "active" THEN "inactive" ELSE "active"]
  /\ UNCHANGED <<digestOwn, onPause, sessions, desk, staffRace>>

DigestNext ==
  \/ \E c \in Rounds :
       \/ RoundStart(c) \/ AdminsStart(c) \/ RoundEnd(c)
       \/ Claim(c) \/ Send(c) \/ SendThrows(c) \/ Release(c) \/ RoundDies(c)
  \/ HourPasses
  \/ \E s \in Switched : StaffSwitched(s)

DigestSpec == DigestInit /\ [][DigestNext]_digestVars

-----------------------------------------------------------------------------
(* Properties *)

\* "deduped per expert" (docs/ops/production-deploy.md): however many cron
\* calls overlap and fail, a person gets a second digest in a day only after an
\* SMS whose sending threw although it was delivered.
OneDigestPerDay == \A s \in Staff : digests[s] <= 1 + alarms[s]

\* "Release claim so a later cron tick in the window can retry": a claim nobody
\* is working on belongs to a person who got his digest; a claim is only ever
\* wasted by a round that died holding it.
ClaimIsSpent ==
  \A s \in claims \ orphans :
    digests[s] > 0 \/ \E c \in Rounds : round[c].who = s
=============================================================================
