------------------------------- MODULE Accounts -------------------------------
(***************************************************************************)
(* The life of one account: login, a signed decision on a row, its audit   *)
(* entries, the one-time codes of a password reset, and deletion.          *)
(*                                                                         *)
(* A request reads the account, and commits later; it writes the columns   *)
(* it assigned and no others, and nothing if the account is gone.  Audit   *)
(* entries and mails are background tasks: they run after the response, in *)
(* sessions of their own, and their failures are swallowed.                *)
(***************************************************************************)
EXTENDS Integers, FiniteSets

CONSTANTS
  Request,   \* requests to change the password in flight
  Beside,    \* what may run beside one: "change", "reset", "forgot", "delete"
  CodeLife,  \* minutes until a code expires
  MaxCodes,  \* bound: codes asked for
  MaxNow,    \* bound: minutes
  MaxLost    \* bound: background tasks that are lost

ASSUME AccountsAssumption ==
  /\ Beside \subseteq {"change", "reset", "forgot", "delete"}
  /\ {CodeLife, MaxCodes, MaxNow, MaxLost} \subseteq Nat

VARIABLES
  role,        \* "student" or "staff"
  exists,      \* the account is there (a student's profile with it)
  application, \* the student has submitted an application
  otp,         \* otp_code and otp_expires_at
  mails,       \* the codes whose mail has not been sent
  inbox,       \* the codes that were delivered
  inflight,    \* the request to change the password that each handles
  now,         \* the clock
  token,       \* a login has been answered
  decided,     \* the row is as this account decided it,
  verified_by, \* and carries its signature
  trail,       \* audit entries that name the account as actor
  tasks,       \* entries whose background task has not run
  lost,        \* how many background tasks never will
  issued,      \* history: the codes drawn so far, and when the last one was
  spent        \* history: the codes that have changed the password

reset == <<otp, mails, inbox, inflight, issued, spent>>
work == <<application, token, decided, verified_by>>
logs == <<trail, tasks, lost>>
vars == <<role, exists, now, reset, work, logs>>

Code == 1..MaxCodes
NoCode == [code |-> 0, expires |-> 0]
Column == {NoCode} \cup [code : Code, expires : Nat]
Idle == [op |-> "idle", otp |-> NoCode]
Entry == {"login", "decision"}

TypeOK ==
  /\ role \in {"student", "staff"}
  /\ {exists, application, token, decided, verified_by} \subseteq BOOLEAN
  /\ otp \in Column
  /\ {mails, inbox} \subseteq SUBSET (1..issued.count)
  /\ inflight \in [Request -> [op : {"idle", "reset", "change"}, otp : Column]]
  /\ now \in 0..MaxNow
  /\ trail \subseteq Entry
  /\ tasks \subseteq Entry
  /\ lost \in 0..MaxLost
  /\ issued \in [count : 0..MaxCodes, at : 0..MaxNow]
  /\ spent \subseteq 1..issued.count
  /\ verified_by => exists /\ decided

Init ==
  /\ role \in {"student", "staff"}
  /\ exists = TRUE
  /\ now = 0
  /\ otp = NoCode
  /\ mails = {}
  /\ inbox = {}
  /\ inflight = [r \in Request |-> Idle]
  /\ issued = [count |-> 0, at |-> 0]
  /\ spent = {}
  /\ application = FALSE
  /\ token = FALSE
  /\ decided = FALSE
  /\ verified_by = FALSE
  /\ trail = {}
  /\ tasks = {}
  /\ lost = 0

InFlight == {inflight[r].op : r \in Request} \ {"idle"}

(* This may run beside the requests in flight.                             *)
May(op) == InFlight = {} \/ op \in Beside

------------------------------------------------------------------------------
(* Login and work.                                                         *)

(* POST /login, for accounts of any role.                                  *)
Login ==
  /\ exists
  /\ token' = TRUE
  /\ tasks' = tasks \cup {"login"}
  /\ UNCHANGED <<role, exists, now, reset, application, decided, verified_by, trail, lost>>

(* The students' own login leaves no audit entry.                          *)
StudentLogin ==
  /\ role = "student" /\ exists
  /\ token' = TRUE
  /\ UNCHANGED <<role, exists, now, reset, application, decided, verified_by, logs>>

(* approve_stage or reject_stage: get_current_user still finds the account. *)
Decide ==
  /\ role = "staff" /\ exists /\ token
  /\ decided' = TRUE
  /\ verified_by' = TRUE
  /\ tasks' = tasks \cup {"decision"}
  /\ UNCHANGED <<role, exists, now, reset, application, token, trail, lost>>

(* The decision falls: resubmit_application reopens the row and clears the *)
(* signature, or another account decides anew and puts its own there.      *)
Superseded ==
  /\ decided
  /\ decided' = FALSE
  /\ verified_by' = FALSE
  /\ UNCHANGED <<role, exists, now, reset, application, token, logs>>

Apply ==
  /\ role = "student" /\ exists /\ token
  /\ application' = TRUE
  /\ UNCHANGED <<role, exists, now, reset, token, decided, verified_by, logs>>

------------------------------------------------------------------------------
(* Background tasks.                                                       *)

(* log_activity, log_system_event: an entry whose actor is gone violates   *)
(* its foreign key and is dropped.                                         *)
Log(t) ==
  /\ t \in tasks
  /\ tasks' = tasks \ {t}
  /\ trail' = IF exists THEN trail \cup {t} ELSE trail
  /\ UNCHANGED <<role, exists, now, reset, work, lost>>

(* send_reset_password_email, to the address read when the code was drawn. *)
Send(c) ==
  /\ c \in mails
  /\ mails' = mails \ {c}
  /\ inbox' = inbox \cup {c}
  /\ UNCHANGED <<role, exists, now, otp, inflight, issued, spent, work, logs>>

(* The server stops before the task ran, or the task failed.               *)
LoseEntry(t) ==
  /\ t \in tasks /\ lost < MaxLost
  /\ tasks' = tasks \ {t}
  /\ lost' = lost + 1
  /\ UNCHANGED <<role, exists, now, reset, work, trail>>

LoseMail(c) ==
  /\ c \in mails /\ lost < MaxLost
  /\ mails' = mails \ {c}
  /\ lost' = lost + 1
  /\ UNCHANGED <<role, exists, now, otp, inbox, inflight, issued, spent, work, trail, tasks>>

------------------------------------------------------------------------------
(* One-time codes.  Two codes drawn are taken to be different.             *)

(* request_password_reset: the new code replaces the old one.              *)
Forgot ==
  /\ exists /\ May("forgot") /\ issued.count < MaxCodes
  /\ LET c == issued.count + 1 IN
       /\ otp' = [code |-> c, expires |-> now + CodeLife]
       /\ issued' = [count |-> c, at |-> now]
       /\ mails' = mails \cup {c}
  /\ UNCHANGED <<role, exists, now, inbox, inflight, spent, work, logs>>

(* verify_reset_otp: the last minute counts.                               *)
Valid(c) == otp # NoCode /\ otp.code = c /\ ~(now > otp.expires)

(* finalize_password_reset up to its check; POST /verify-reset-otp before  *)
(* it changes nothing.                                                     *)
BeginReset(r, c) ==
  /\ exists /\ inflight[r] = Idle /\ May("reset")
  /\ c \in inbox /\ Valid(c)
  /\ inflight' = [inflight EXCEPT ![r] = [op |-> "reset", otp |-> otp]]
  /\ UNCHANGED <<role, exists, now, otp, mails, inbox, issued, spent, work, logs>>

(* change_password up to its check of the old password.                    *)
BeginChange(r) ==
  /\ exists /\ token /\ inflight[r] = Idle /\ May("change")
  /\ inflight' = [inflight EXCEPT ![r] = [op |-> "change", otp |-> otp]]
  /\ UNCHANGED <<role, exists, now, otp, mails, inbox, issued, spent, work, logs>>

(* Mutant of Written: every column is written, as it was read. *)
WrittenWhole(request) == IF request.op = "reset" THEN NoCode ELSE request.otp

(* Mutant of Written: the code is cleared whatever the request.            *)
WrittenAlways(request) == NoCode

(* otp_code and otp_expires_at after the UPDATE of the request: a reset    *)
(* assigns them, change_password assigns the password alone.               *)
Written(request) == IF request.op = "reset" THEN NoCode ELSE otp

Commit(r) ==
  /\ inflight[r] # Idle
  /\ inflight' = [inflight EXCEPT ![r] = Idle]
  /\ IF exists
       THEN /\ otp' = Written(inflight[r])
            /\ spent' = spent \cup
                 (IF inflight[r].op = "reset" THEN {inflight[r].otp.code} ELSE {})
       ELSE UNCHANGED <<otp, spent>>
  /\ UNCHANGED <<role, exists, now, mails, inbox, issued, work, logs>>

(* A request takes less than a minute.                                     *)
Tick ==
  /\ InFlight = {} /\ now < MaxNow
  /\ now' = now + 1
  /\ UNCHANGED <<role, exists, reset, work, logs>>

------------------------------------------------------------------------------
(* Deletion.                                                               *)

(* Mutant of Kept: the entries of logins do not refer to the account. *)
KeptByDecisions == "decision" \in trail

(* audit_logs.actor_id and system_audit_logs.actor_id are foreign keys:    *)
(* the database refuses to delete an actor.                                *)
Kept == trail # {}

(* Rows the account has signed are left without signature.                 *)
Removed ==
  /\ ~Kept
  /\ exists' = FALSE
  /\ verified_by' = FALSE
  /\ otp' = NoCode
  /\ UNCHANGED <<role, now, mails, inbox, inflight, issued, spent, application, token, decided, logs>>

(* delete_user_by_id: profile and account of a student go together, unless *)
(* there is an application.                                                *)
DeleteById == exists /\ May("delete") /\ ~application /\ Removed

(* delete_user_standard: the profile is deleted first, and users.student_id *)
(* still refers to it.                                                     *)
DeleteStandard == exists /\ May("delete") /\ role = "staff" /\ Removed

Next ==
  \/ Login \/ StudentLogin \/ Decide \/ Superseded \/ Apply
  \/ \E t \in Entry : Log(t) \/ LoseEntry(t)
  \/ \E c \in Code : Send(c) \/ LoseMail(c)
  \/ Forgot
  \/ \E r \in Request : \/ \E c \in Code : BeginReset(r, c)
                        \/ BeginChange(r)
                        \/ Commit(r)
  \/ Tick
  \/ DeleteById \/ DeleteStandard

Spec == Init /\ [][Next]_vars

------------------------------------------------------------------------------
(* Whoever decided a row can be told from it, unless the account is gone   *)
(* and no audit entry, of a login or of a decision, had reached the log    *)
(* before.  Each entry alone keeps the account, and with it the signature: *)
(* both have to be lost, or still to wait in background tasks, when an     *)
(* administrator deletes the account.                                      *)
DecisionsStayTraceable == decided => verified_by \/ (~exists /\ trail = {})

(* A one-time code resets the password once, also when the password is     *)
(* changed in the profile, a new code drawn or the account deleted while   *)
(* the reset is between its check and its commit.                          *)
CodesAreSingleUse ==
  [][\A r \in Request :
       Commit(r) /\ exists /\ inflight[r].op = "reset" => inflight[r].otp.code \notin spent]_vars

(* A reset that passed its check with an older code than the present one.  *)
LateReset(r) == inflight[r].op = "reset" /\ inflight[r].otp.code < otp.code /\ Commit(r)

(* A code stays good until it is used: nothing but its own reset, a newer  *)
(* code, the deletion of the account or the late commit of a reset with an *)
(* older code takes it away; a change of the password does not.            *)
FreshCodesSurvive ==
  [][otp # NoCode /\ otp'.code # otp.code =>
       \/ otp.code \in spent'
       \/ issued'.count > issued.count
       \/ ~exists'
       \/ \E r \in Request : LateReset(r)]_vars
==============================================================================
