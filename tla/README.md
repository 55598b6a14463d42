# No-dues clearance: TLA+ models, checks and proofs

The repository is the backend of a university's "no dues" clearance: a student
submits one application, a chain of offices and departments approves or rejects
it, and a certificate is issued at the end. This directory holds TLA+ models of
the part that decides what happens to an application, TLC configurations that
check them on small instances, and TLAPS proofs of what holds for every
instance. Around that core there are models of the accounts that decide, the
student's applications, the certificate, and the registry all of them refer to. Paths below are relative to `src/`; `PROJECT.json` gives, for every
definition, the lines it stands for.

## 1. The system

### How an application moves

An application (`app/models/application.py`) owns *stage rows*
(`app/models/application_stage.py`). Each row has a fixed `sequence_order`, here
called its level: 1 School Office, 2 HOD, 3 Dean, 4 administrative departments
in parallel (library, laboratory, sports, hostel, ...), 5 Accounts. The
application itself stores the level it is on (`current_stage_order`, 999 when
done), a `status` and `is_completed`. A decision writes one row, then runs
`_update_application_status`, the "waterfall", which lifts the application over
every level with nothing left to decide, or marks it rejected, or completed.
All components share one database; there is no message between them except
e-mails and audit entries, which background tasks send after the response.

### Components

| component | state | operations | correct when | modules |
|---|---|---|---|---|
| Waterfall (`services/approval_service.py`) | application row | `_update_application_status` | it ends; it passes a level only when no row of it is pending or rejected; a rejection on the level stops it | `Waterfall`, `WaterfallLoop` |
| Stage decisions (`services/approval_service.py`, `endpoints/approvals.py`) | stage rows, application row | approve, reject, administrator's approve and reject, override | levels open in order; completed means cleared; rejected means somebody rejected; nobody waits for nobody, also when requests overlap | `NoDues`, `ApprovalTx`, `Desk` |
| Intake (`services/application_service.py`, `endpoints/applications.py`) | application and its rows, display id | create | no active application is hidden behind a later one (section 3 says where the code fails); the two commits undo nothing done in between | `Intake`, `NoDues`, `Registry` |
| Resubmission (`endpoints/applications.py`) | rejected row, hostel row, student's academic data | resubmit | only what was rejected is decided again; rows and profile keep together | `NoDues`, `ApprovalTx`, `Intake`, `Registry` |
| Certificate (`services/pdf_service.py`, `endpoints/verification.py`) | certificate row, stored file | generate, download, verify | one number; what a student holds verifies and is final; the student gets one | `Certificate`, `NoDues` |
| Task list, overview, detail page (`services/department_service.py`, `endpoints/approvals.py`) | none | list, show | whatever is shown as a task can be opened and decided; nothing disappears | `Desk` |
| Student's pages (`endpoints/applications.py`) | none | `/my`, `/status` | pages agree with each other | `Pages` |
| Sessions (`core/database.py`) | connection, identity map | one session per request, rollback | requests do not see or overwrite half of each other's work | `ApprovalTx` |
| User accounts (`services/auth_service.py`, `endpoints/auth.py`, `users.py`, `account.py`) | users | register, log in, update, delete | deleting a user leaves decisions traceable; an update leaves lists and permissions in agreement | `Accounts`, `Desk`, `Registry` |
| Student profile (`services/student_service.py`, `endpoints/students.py`) | students | register, update | what it refers to exists and fits together | `Registry`, `Desk`, `NoDues` |
| Password reset (`endpoints/verification.py`, `services/auth_service.py`) | code and expiry on the user | request, verify, reset | a code works once, before it expires, for the account it was sent to | `Accounts` |
| Registry and seeding (`endpoints/auth.py`, `academic.py`, `core/seeding_logic.py`) | schools, departments, programmes, specializations | create, delete, seed | nothing that is in use disappears or changes its meaning | `Registry` |
| Stale-task reminders (`endpoints/jobs.py`) | none | notify overdue | no overdue task without a reminder | `Desk` |
| Audit and e-mail (`services/audit_service.py`, `email_service.py`) | audit and system logs | append, send | a decision can be traced although a background task is lost | `Accounts` |
| storage, rate limiter, metrics, configuration | none of their own | I/O, lookups | outside the models, except for the failures their callers handle | |

### What is hard here

- **Order of decisions.** Administrators may decide any row, students may
  resubmit with changed data, departments of one level act in any order; the
  application's status, level and flag are stored apart from the rows they
  summarise and are only brought up to date by some of the requests.
- **Overlapping requests.** Checks are made on objects loaded before the lock is
  taken. SQLAlchemy returns the object that is already in the session's identity
  map and does not refresh it for `SELECT ... FOR UPDATE`, and it writes only the
  columns that changed. The README of the backend names MySQL, whose default
  isolation is REPEATABLE READ; `core/database.py` sets none, and supports
  PostgreSQL (READ COMMITTED) as well.
- **Several commits in one operation.** Creation commits the application and then
  its display id; a certificate is rendered, uploaded and recorded in steps that
  fail separately, and its commit is also the commit of the approval.
- **One rule, many places.** Whose business a row is, is decided separately by the
  task list, the permission check, the overview, the detail page and the
  reminders; what state an application is in, by every page that shows it. They
  agree because of the data, not because of shared code.
- **Check, then act.** Deletions look for references and commit later; a reset
  checks its code and commits later; a creation looks for an active application
  and commits later. What the ORM or a NOT NULL column does in between decides.
- **Numbers at their boundary.** Levels may be missing, so the waterfall jumps to
  the least greater level that exists; a one-time code expires.

`PROJECT.json` lists each hazard at its line with the properties that cover it.

## 2. The modules

| module | what it models | theorems in |
|---|---|---|
| `Waterfall` | rows, levels and statuses; `Advance`, the result of the whole waterfall as one operator | `WaterfallLoop_proofs`, `NoDues_proofs` |
| `WaterfallLoop` | the `while True` loop, one iteration per step, from every possible start | `WaterfallLoop_proofs` |
| `NoDues` | the life of one application; one action per endpoint, each request running alone | `NoDues_proofs` |
| `ApprovalTx` | verifiers' decisions and resubmissions as overlapping transactions | `ApprovalTx_proofs` |
| `Pages` | what the pages say of the application of `NoDues` | `Desk_proofs` |
| `Desk` | `NoDues` composed with reviewers' accounts and the student's profile | `Desk_proofs` |
| `Intake` | all applications of one student | `Intake_proofs` |
| `Certificate` | generations of one certificate as overlapping requests | `Certificate_proofs` |
| `Accounts` | one account: sign-in, signatures, audit entries, one-time codes, deletion | `Accounts_proofs` |
| `Registry` | schools, departments, programmes, specializations and all references to them | `Registry_proofs` |
| `MC_*` | the instances TLC checks (`Certificate` and `Intake` take all constants from their `.cfg`) | |

How they are composed. `WaterfallLoop` shows that the loop computes `Advance`;
`NoDues` uses `Advance` as one step. `NoDues` is the specification of what
requests on an application may do: `ApprovalTx` is checked and, for any rows and
requests, proved to implement it (property `Serializable`, through `INSTANCE NoDues
WITH ...`), `Desk` extends it and is proved to implement it
(`DeskImplementsNoDues`), so that the theorems about `NoDues` hold on every
reviewer's desk; `Pages` reads its state. `Intake`,
`Certificate`, `Accounts` and `Registry` take one part each out of that picture and
look at it more closely: `Intake` reduces an application to its status,
`Certificate` to whether it is completed, `Accounts` a decision to its signature,
`Registry` the rows to what they refer to.

**Switches.** Some properties do not survive everything people can do. What a
property needs people to refrain from is a constant of the module (`Habits`,
`Beside`, `Concurrent`, `Moves`, `AdminActs`, `HostelChanges`, `WholeForms`), never
a silent omission: the action is in the model, and the constant takes it out of one
run. The code enforces none of these. Section 3 says what TLC finds without each.
Where the code goes wrong in few and nameable ways, the property names them as
exceptions instead, and the run has everything in it (`OnlyRacesHide`,
`OnlyClashesUndoApproval`, `FreshCodesSurvive`, `DecisionsStayTraceable`).

### `Waterfall` and `WaterfallLoop`

A stage row is an element of `Stages` with a constant level `LevelOf[s]` (nothing
in the code writes `sequence_order` after creation) and a status; `"absent"`
stands for a row the application does not own. `Advance(app, st)` says: leave a
completed application alone; otherwise go to the lowest level, at or above the
present one, that has a pending or rejected row, and be rejected if a row of it
is rejected, in progress if not; complete if there is no such level. In
`WaterfallLoop` the five actions are the five ways through the loop body: the
early break, a rejection, a pending row, the move to the next level, the end.
Next levels are found as the code does, over rows of any status.

### `NoDues`

State: the status and signatory (`verified_by`) of each row, the three columns
of the application, the student's hosteller flag, and what the certificate row
holds. Names and reviewers are abstracted to who signed (`verifier`, `admin` or
nobody); remarks, e-mails and audit entries are left out.

| action | code |
|---|---|
| `Init` | the rows `create_application_for_student` generates: hostel rows only for hostellers, laboratory exemption |
| `ApproveStage`, `RejectStage` | a verifier's `POST /{stage_id}/approve`, `/reject`: `approve_stage`, `reject_stage` with flush, waterfall and certificate |
| `AdminApprove`, `AdminReject` | the same endpoints called by an administrator: any level; the rejection does not run the waterfall |
| `OverrideApprove`, `OverrideReject` | `POST /admin/override-stage`: any row, any status |
| `Resubmit` | `PATCH /{application_id}/resubmit` with its hostel row logic |
| `UpdateProfile` | `PATCH /api/students/update`, which may change the hosteller flag without the rows |
| `DownloadCertificate` | `GET /{application_id}/certificate` |
| `DeleteReviewer` | deleting an account sets its signatures to NULL |

Details that matter and are easy to miss: an approval does not require the row
to be pending, so a rejected row can be approved directly and an approval on the
current level can be withdrawn by a rejection; `scalar_one_or_none()` in the
resubmission fails if two rows of the level are rejected; a hostel row marked
for deletion that is also the rejected row is added to the session again and
stays; certificates are generated on download whatever the status.

`AdminActs` and `HostelChanges` switch on the people whose actions the stronger
properties do not survive. The department HST is taken to have level 4, as
seeded, and to exist or not for the whole life of the application.

### `ApprovalTx`

A request goes through `Load` (its first reads and its checks), `Flush` (the row
lock) and a commit. `snapshot` holds the stage rows as of the first read,
`loaded` the application object. `Seen` is what the waterfall's queries return:
the request's own flushed row, and the others from the snapshot (REPEATABLE
READ) or as committed now (READ COMMITTED). `Dirty` writes a column only if the
request changed it. The waterfall and the commit are one step, because whoever
commits a change holds the application's lock; the wait for that lock is the wait
to take the step. `Abort` is the death of a request before its commit at any
point: deadlock victim, timeout, lost connection.

All reads of `Load` happen at one instant. On READ COMMITTED they are separate
statements; the passing run forbids a second request on the same row and a
resubmission next to a decision, so the own row cannot change between them, and
the application is re-examined only through columns the interleaving of `Load`
and `Commit` covers.

`Habits`: `pending_only` (nobody decides a row that is not pending), `one_per_row`
(two requests never meet on one row), `resubmit_alone` (no resubmission while a
decision is under way).

### `Pages`

Three pages compute the state of an application by three rules: `/my` takes
progress and the rejection flag from all rows, `/status` takes the status first and
then the rows of the level, the overview takes the rows of the level first and the
status last. `Progress`, `FlaggedRejected`, `Place` and `OverviewPlace` are these
rules; `PagesAgree` relates them.

### `Desk`

A row carries the role, school and department it was generated for (`RowRole`,
`RowSchool`, `RowDepartment`: constants, since nothing changes them; the assumption
`GeneratedFor` is `create_application_for_student`, and `OneRowAssumption` adds that
it makes one office row, one dean's row and one row for each department; Accounts is
no department of phase 2, as seeded). `users` is the account of each
reviewer, whom administrators register and change (`Register`, `Update` with the
checks of `register_user` and `update_user_endpoint`); `student` the school and
department in the profile, which `MoveStudent` changes behind the rows' back.
`Approve` and `Reject` are the actions of `NoDues` behind the permission checks of
`approve_stage` (`Permitted`) and the absent ones of `reject_stage`.

The rules are translated one by one from their places: `Tasks`
(`list_pending_stages` with its filter `OnDesk`), `InOverview` and `ShownRows`
(`list_all_applications`), `CanOpen` (the detail page), `Stale`, `Addressed` and
`Reminded` (the reminder job with its index by role and department). `overdue`
abstracts the age of the rows: they are created together and never get younger.
The six legacy roles behave alike and are one role, `library`.

### `Intake`

`apps` is the list of a student's applications by creation. A creation is `Check`
(the look at the latest application, the draw of a display id), `Insert` (first
commit: application and rows, no display id) and `Link` (second commit, which fails
if the id was taken meanwhile); other requests run in between, and `Die` ends one
anywhere. The draw is compared with committed ids only (`FreeIds`), so two creations
in flight may hold the same one; the second `Link` then leaves its application
without. `Review`, `OverrideReject` and `Resubmit` are everything that changes an
application's status, of any application, the latest or not. Two history variables
record what the code does not look at: `late`, the applications inserted although
the look at the others would have been refused by then, and `reopened`, those
resubmitted behind a later one.

### `Certificate`

`generate_certificate_pdf` reads the certificate row (`Lookup`: its number or a
random one of five digits, compared with nothing), renders and uploads (`Upload`,
`UploadFails`, `RenderFails`) and writes the row (`Persist`), or fails to
(`Conflict`): `application_id` is unique, and so is `certificate_number`, over all
applications, of whose numbers `Others` is the set. It runs in the
transaction of the last approval, a second time at the end of that request
(`Continue`), and in a download that finds no URL. The file has one path per
application: each upload replaces the one before, and a broken one may leave half a
file. `final` records whether the PDF was printed from rows that are all approved.

### `Accounts`

An account signs in and decides, which leaves audit entries; a background task
writes an entry later (`Log`) or never (`LoseEntry`), and the foreign key refuses it
once the account is gone. A decision ends when the row is resubmitted or decided by
somebody else (`Superseded`), and with it the signature. Foreign keys also refuse to
delete an account with entries, while signatures become NULL; a deletion does not
wait for the tasks. One-time codes are drawn, mailed,
checked and used (`Forgot`, `Send`, `BeginReset`, `Commit`); `BeginReset` ...
`Commit` is a request with its check and its commit apart, as is a change of the
password, which must not write the code's columns. `now` counts minutes.

### `Registry`

The four tables and everything that refers to them: staff, student profiles and
stage rows. Each deletion is its check (`Check`: what the endpoint looks at) and its
commit, in which the ORM sets to NULL the references it knows, and the database
refuses those that must not be NULL. Between the two, requests of the kinds in
`Concurrent` run. Entries are named by their code, so that one created again is a
different entry under the same name. `Seed` is `seed_all` at any start of a server.

## 3. The runs

All models are finite and explored completely.

### Passing

| run | what it shows | instance |
|---|---|---|
| `WaterfallLoop` | the loop ends (`LoopEnds`), and its invariant holds, whose last case is that its result is `Advance` | five rows on levels 1, 2, 4, 4, 5, all four statuses each, every application row; level 3 has no row, and "absent" empties any other |
| `NoDues_anyone` | with administrators, moves in and out of the hostel and deleted reviewers: the completion markers agree; a rejected application has a rejected row; a row returned to pending is unsigned; no verifier is ahead of the application; the level never falls; a resubmission never undoes an approval | levels 1, 4 (laboratory, hostel), 5 |
| `NoDues_verifiers` | with verifiers alone: levels open in order; completed means cleared; rejected exactly when a row of the level is; never stuck; the task list shows only rows whose approval is accepted; the pages agree; a rejection pauses the application | all five levels, two rows on level 4 |
| `ApprovalTx_read_committed` | overlapping requests of people with all three habits, on READ COMMITTED, have the effect of requests one after the other (`Serializable`), and leave nobody stuck | three requests; levels 1, 4 (three rows), 5 |
| `Desk` | whatever is on a reviewer's task list can be approved, opened and found in the overview; every overdue task is in its reviewer's reminder; nothing vanishes from an overview | two reviewers with any role and assignment, two schools, two departments, one row on each of levels 1 to 4 |
| `Registry` | no account without what it works for; academic departments belong to a school; rows keep whom they wait for; a student's specialization is one of the programme | one school, an academic and an administrative department, two programmes, one specialization, one staff account, one applicant |
| `Accounts` | a decision that stands can be told from its row, unless the account was deleted before the log had heard of it; a code works once, and nothing but a newer code, the deletion or the late commit of a reset with an older code takes it away | two requests beside each other and beside codes, deletions and changes of password, two codes that live two minutes of five, two lost tasks |
| `Certificate` | what a student holds verifies, is whole and final; only a certificate that clashes with another takes the approval back; after completion the student gets a certificate | two requests, two numbers and one of another application, two deaths |
| `Intake` | an application is active or completed behind the latest one only after an outdated look or a late resubmission; a running creation undoes no decision | two creations in flight, three applications, three ids, one death |

Bounds. *NoDues and ApprovalTx:* levels 1, 2 and 3 are alike to the code: one row,
no special case; `NoDues_verifiers` has all of them, the larger runs drop 2 and 3.
Level 4 is where rows are parallel: two are enough for one to act between another's
decision and the resubmission, three for a request that overlaps two others. One
row of level 4 is the hostel's, which comes and goes. The level 999 is the code's
own. *Desk:* each level has a rule of its own, so each has a row, except level 5,
which is level 4 with another department; the second school and department are
there to be mistaken for the first, the second reviewer to act on the first one's
tasks. *Registry:* one of each kind that is only referred to; two programmes,
because a specialization must be one of the wrong one to be wrong. *Accounts:* two
codes, an old and a new one; five minutes let the second be drawn after the first
expired; two tasks are lost, so that neither the sign-in nor the decision need reach
the log. *Certificate:* the request of the approval and one beside it; two numbers
to tell a kept one from a new one, and one that another application's certificate
has; two deaths let both requests die once. *Intake:* three applications allow an
old rejected one, a completed one and a new one; two creations in flight are the
race, and three ids let them draw the same or different ones (a fourth id changes
nothing). `MaxCodes`,
`MaxNow`, `MaxLost`, `MaxDeaths` and `MaxApps` cut counters; the theorems of section
4 hold for any value of them, where they do not name one.

`Desk` and `Accounts` use symmetry of reviewers and of requests, which the modules
treat alike; neither run has a liveness property. Deadlock is checked in
`NoDues_anyone`, `Desk`, `Registry`, `Certificate` and `Intake`; in the others the
system may really stop (a loop that ended, an application completed and certified,
an account deleted).

Fairness. `WaterfallLoop`: weak fairness of the loop's own step, which awaits
nothing but the database. `Certificate`: a request that is being served proceeds
(weak fairness of its steps); a student without certificate asks again and one who
is served a stored file gets it (weak fairness of `Download` and `Serve`); an upload
that is tried again and again succeeds some time (strong fairness of `Upload`, since
its failures compete with it at every attempt); and the numbers drawn do not belong
to other applications for ever. The code retries nothing by itself;
it does keep the row without URL "so a re-upload can be triggered later", and
`CompletedGetsCertificate` says that the student's repeated request is enough. The
other modules assume no fairness: no reviewer is obliged to decide.

### What the switches hide

With one switch turned, TLC finds the property violated. These are not runs,
because nothing in the repository promises the property under that condition.

| module | without | TLC finds |
|---|---|---|
| `NoDues` | `AdminActs = FALSE` | an administrator rejects a row below the level; the application completes over it (`CompletedMeansCleared`) |
| `ApprovalTx` | `one_per_row` | one reviewer approves and another rejects the same pending row; the rejection is written below the level already opened (`Serializable`) |
| `ApprovalTx` | `resubmit_alone` | a resubmission, which takes no lock, overwrites another department's rejection with in_progress (`Serializable`) |
| `ApprovalTx` | `pending_only` | a rejected row is approved directly while another department rejects: the second rejection was loaded with status rejected, so the column is not written, and the application goes on over a rejected row (`Serializable`) |
| `Desk` | `"open"` not in `Moves` | the student changes school, and the dean of the row, who has the task, may neither approve nor open it (`TasksCanBeApproved`, `TasksCanBeOpened`) |
| `Certificate` | `wait` | an early download stores a certificate with stages that are not approved, and hands it out (`HandedOutIsFinal`) |
| `Certificate` | `one_file` | of two first generations one loses the insert but not the race for the file: the stored PDF has a number nobody knows (`HandedOutVerifies`) |
| `Certificate` | `whole_uploads` | a broken upload leaves half a file under a URL that is still there (`HandedOutVerifies`) |
| `Accounts` | `"reset"` not in `Beside` | two resets pass the check of one code (`CodesAreSingleUse`) |
| `Registry` | `"staff"` not in `Concurrent` | an account is registered for a department whose deletion is past its checks (`StaffStayAssigned`) |
| `Registry` | `"application"`, `"profile"` not in `Concurrent` | the same for a student who takes the department (`RowsFollowStudents`) |
| `Registry` | `WholeForms` | a specialization is sent without programme, and a programme without specialization (`EnrolmentsHangTogether`) |

Four properties name their exceptions, and the code does run into each: TLC finds
the property violated when the exception is taken out of it.

| property | exception | what happens |
|---|---|---|
| `OnlyRacesHide` | `late` | two creations both find no active application; or the look is over when an old application is resubmitted or an administrator revives one: two are active, although `application_service.py:68` says "You already have an active application." |
| `OnlyRacesHide` | `reopened` | no race is needed: the student submits a new application, and then resubmits the old rejected one |
| `OnlyClashesUndoApproval` | `Clashes` | the number drawn is another application's, as the comment at `pdf_service.py:274-276` warns, or (without `wait`) an early download wrote the row: the commit fails and the rollback takes the approval with it |
| `FreshCodesSurvive` | `LateReset` | a reset that passed its check with an older code clears the one drawn meanwhile |
| `DecisionsStayTraceable` | deleted, empty log | every entry of the account still waits or is lost when the account is deleted: the foreign key refuses them, and the signature is NULL |

Two more failures leave nothing to state. A creation that dies between its commits,
or whose display id another one took meanwhile, leaves an application without
display id for good. And the mail with the one-time code promises 15 minutes
(`email_service.py:260`, `password_reset.html:114`), while `auth_service.py:421`
documents and the code (`Valid`, `CodeLife`) gives five: codes of 5 to 15 minutes
are refused.

### Violated: where code and documentation part

Each run checks one property that a comment or template of the repository states.

| run | property | what happens |
|---|---|---|
| `ApprovalTx_repeatable_read` | `NotStuckAtRest` | on REPEATABLE READ the last two parallel approvals see each other's row pending; all rows are approved and the application stays on level 4. `approval_service.py:225` says the lock prevents race conditions |
| `NoDues_hostel_moved` | `CompletedMeansCleared` | resubmitting as a hosteller on level 5 adds a hostel row on level 4, which the waterfall never visits; `models/application.py:19` says completed is "All stages done" |
| `NoDues_two_rejections` | `RejectedCanBeResubmitted` | two parallel rejections make the resubmission fail, to which the rejection mail invites |

## 4. What is proved

Eight modules hold theorems, checked by TLAPS from the assumptions named in the
modules and, where a theorem needs a switch, from an `ASSUME` of the theorem itself.
No set of rows, requests, people or reviewers is bounded, except that
`PagesNeverContradict` takes the rows to be a finite set.

- `WaterfallLoop_proofs` (`LevelAssumption`: levels are 1 to 5):
  `LoopInvariantHolds` (while running, what the rest of the loop would make of the
  row is what `Advance` says of the original; afterwards they are equal). The key lemma: when nothing on the level is pending or
  rejected, `Advance` gives the same from the next level that has a row.
  `IterationsClimb` is the ranking that termination rests on: an iteration that does
  not end the loop raises the level, to one of five.
- `NoDues_proofs`, whoever acts (`HostelAssumption`: at most one hostel row, on level
  4; `ExemptAssumption`; `OfficeAssumption`: the School Office row is always
  generated; `SwitchAssumption`): `TypeCorrect`, `WhoeverActs`, `LevelOnlyRises` and
  `ApprovedOnce`. `AdvanceFacts` says what `Advance` returns: where it stops, why it
  is rejected, that it never goes down; the proofs use it and never the definition.
  The inductive invariant `AnyoneInv` is the conjunction of type, completion
  markers, reason of rejections, unsigned pending rows and reach of verifiers.
- `NoDues_proofs`, verifiers alone (`~AdminActs`, `HostelChanges = {}`):
  `VerifiersAlone`, `ListsAgree`, `StaysPaused`. The inductive invariant
  `VerifiersInv` adds to the stated properties two facts they do not say: at the
  marker 999 the status is completed (`DoneMeansCompleted`; otherwise a resubmission
  could leave a completed application running), and the hostel row exists exactly
  for hostellers (`HostelRowFollows`; otherwise a resubmission could add a row below
  the level). `HostelRowFollows` is also why `HostelChanges` must be empty. Every
  decision reduces to one lemma about `Decide`, so the proof has one step per action.
- `ApprovalTx_proofs` (`OfficeAssumption`; READ COMMITTED and the three habits):
  `CommitsAreSerializable`, the refinement of `NoDues` under `Serializable`'s mapping:
  loads, flushes and aborts are stutters, each commit is `ApproveStage`,
  `RejectStage` or `Resubmit`. The inductive invariant `TxInv` is the type, the
  `VerifiersInv` of `NoDues_proofs` about the committed rows, and what every request
  in flight can rely on (`FlightInv`): a decision's row is still pending on the level
  of the application, which has not moved since; of what it has loaded only the
  status can be old, and only in ways its commit corrects; rows of two requests are
  disjoint; a resubmission is alone and nothing it loaded is old.
  `NeverStuckAtRest` follows, and holds while requests are under way too.
- `Desk_proofs`: `DeskImplementsNoDues` (each step of the composition is a step of
  `NoDues` or a stutter), from which the rest inherits. `TasksAreApprovable` adds one
  invariant, `AtHome` (the profile is that of the day of the application until
  completion), to `ListsAgree`; it needs `Moves` without `"open"`. `TasksAreOpen`
  needs `OneRowAssumption` besides: the overview shows the lowest row of a reviewer,
  which is the task only because there is no other (`OneCandidate`); were Accounts a
  department of phase 2, its staff would be shown the row of level 4 beside the task
  on level 5. `OverviewStays` uses that the level never falls and no row goes.
  `RemindersReachDesks` needs nothing but the two rules it relates.
  `PagesNeverContradict` (verifiers alone, finitely many rows) follows from
  `VerifiersInv` without an invariant of its own; its only arithmetic is that the
  progress is 100 exactly when no row is missing from the approved ones.
- `Registry_proofs` (`DistinctAssumption`: ids of different tables and the markers of
  absence are told apart): `NothingDangles`, that every reference is to something
  there, whatever overlaps; `StaffKeepTheirPlace`,
  `AcademicDepartmentsKeepTheirSchool` and `RowsKeepTheirReviewers`, each from the
  part of `Concurrent` it needs, by what a deletion past its checks has found: while
  nobody registers, nothing comes to refer to what it is about to delete;
  `EnrolmentsStayTogether` from `WholeForms`.
- `Accounts_proofs`: `DecisionsTraceable` without a hypothesis (`TraceInv`: an account
  named in the log is there, and the row as an account that is there decided it has
  its signature). `FreshCodesStay` without one, `CodesWorkOnce` if no second reset
  runs beside the first. `CodeInv` for both: the stored code is the newest and
  unused, and a reset in flight holds a code that was drawn; `OneReset` adds that the
  reset in flight is alone and its code unused.
- `Certificate_proofs`: `OnlyFinalIsHandedOut` from `wait` (`CertInv`: whatever is
  printed before its commit is printed by the approval itself or after completion);
  `HandedOutStaysValid` from `one_file` and `whole_uploads` (`FileInv`: a generation
  that found the row carries its number; an upload that can still be recorded is the
  file there is; a row with a URL speaks of that file); `ApprovalStands` without a
  hypothesis, and `OnlyNumbersUndoApproval` from `wait`: then no row can be there
  before the approval's, and a number of another application is all that is left.
- `Intake_proofs`: `WhatHidesApplications` and `CreationUndoesNothing`, without a
  hypothesis. The inductive invariant `IntakeInv` adds to `OnlyRacesHide` the shape of
  the data: a creation past its insert knows an application that is there. An
  application leaves the state rejected only through `Resubmit`, so that behind the
  latest one it is in `reopened` from then on; and an insert on a look that still
  holds puts nothing but rejected applications behind the new one, unless an
  exception already held.

Every safety property of a passing run is stated by a theorem. Only model-checked:
the two liveness properties, `LoopEnds` (of which `IterationsClimb` is the part
without fairness) and `CompletedGetsCertificate`, since fairness and ENABLED are
outside the prover's reach; and that the assumptions a theorem makes are needed,
which TLC shows by the counterexamples of section 3. No module declares a RECURSIVE
operator and no proof needs induction over data.

## 5. Not modelled

- **Administrators' overlapping requests and the wait for locks.** An administrator's
  rejection and a resubmission lock the application before the row, a verifier's
  decision the row first. The database resolves the cycle by killing one request;
  `ApprovalTx` has that death (`Abort`) at every point, but not the cycle, and not
  the administrator's transactions.
- **Uniqueness** of e-mail addresses, roll and enrolment numbers and names is left
  to one UNIQUE column each.
- **Metrics and analytics** read tables and keep nothing. One endpoint, which clears
  Redis, calls `_write_audit` with fields the entry does not have.
- **Rate limiter, storage, configuration, tokens**: library calls and I/O. Where a
  caller handles their failure, the failure is an outcome in the model.
- **`endpoints/department.py`** imports functions that do not exist and is not
  mounted; `department_service.verify_stage` is called by nothing.
- **Small points seen on the way and left out**: an identifier passed as text where
  MySQL stores it as binary (`users.py:131`); the code of a new school compared before it is
  brought to upper case (`auth.py:273`); a failed `seed_all` is logged and start-up
  goes on (`seeding_logic.py:166`), which in `Registry` is a server that has not been
  seeded yet.
