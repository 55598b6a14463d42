----------------------------- MODULE Certificate -----------------------------
(***************************************************************************)
(* The certificate of one application: its row in the database, and its    *)
(* file in the storage, which has one path per application and is written  *)
(* over by every generation.  generate_certificate_pdf runs in three       *)
(* requests: in the last approval, whose transaction it commits; a second  *)
(* time at the end of the same request; and in a download that finds no    *)
(* stored file.  It reads the row, uploads the file and writes the row in  *)
(* that order, without a lock.                                             *)
(***************************************************************************)
EXTENDS Integers

CONSTANTS
  Request,    \* requests in flight
  Number,     \* certificate numbers: five hexadecimal digits
  Others,     \* those of other applications' certificates
  MaxDeaths,  \* bound: requests that die
  Habits      \* "wait": nobody downloads before completion,
              \* "one_file": of generations that overlap while there is no row,
              \* one at most reaches the storage,
              \* "whole_uploads": a failed upload leaves the old file in place

ASSUME CertificateAssumption ==
  /\ Habits \subseteq {"wait", "one_file", "whole_uploads"}
  /\ MaxDeaths \in Nat
  /\ Others \subseteq Number /\ Others # Number

VARIABLES
  completed,  \* the last approval is committed
  row,        \* the Certificate row: its number, and whether pdf_url is set
  file,       \* the PDF in the storage
  requests,   \* what each request is doing
  handed,     \* the last PDF a student got
  deaths      \* how many requests died

vars == <<completed, row, file, requests, handed, deaths>>

Nothing == [number |-> 0]
(* final: printed from rows that are all approved; whole: not cut off.     *)
Pdf == [number : Number, final : BOOLEAN, whole : BOOLEAN]
Row == [number : Number, stored : BOOLEAN]

(* kind: "approve" until the approval is committed, "endpoint" from there  *)
(* on; found: there was a row.                                             *)
Idle == [kind |-> "none", at |-> "idle", number |-> 0, found |-> FALSE,
         final |-> FALSE, stored |-> FALSE]
Generation == [kind : {"approve", "endpoint", "download"}, at : {"lookup", "upload", "persist"},
               number : Number \cup {0}, found : BOOLEAN, final : BOOLEAN, stored : BOOLEAN]

TypeOK ==
  /\ completed \in BOOLEAN
  /\ row \in Row \cup {Nothing}
  /\ file \in Pdf \cup {Nothing}
  /\ requests \in [Request -> Generation \cup {Idle}]
  /\ handed \in Pdf \cup {Nothing}
  /\ deaths \in 0..MaxDeaths
  /\ row # Nothing /\ row.stored => file # Nothing

Init ==
  /\ completed = FALSE
  /\ row = Nothing
  /\ file = Nothing
  /\ requests = [r \in Request |-> Idle]
  /\ handed = Nothing
  /\ deaths = 0

Begin(kind) == [Idle EXCEPT !.kind = kind, !.at = "lookup"]
Done(r) == requests' = [requests EXCEPT ![r] = Idle]

------------------------------------------------------------------------------
(* Requests.                                                               *)

(* The approval after which no row is left to decide; the lock on the      *)
(* application lets one waterfall at a time through.                       *)
LastApproval(r) ==
  /\ requests[r] = Idle /\ ~completed
  /\ \A q \in Request : requests[q].kind # "approve"
  /\ requests' = [requests EXCEPT ![r] = Begin("approve")]
  /\ UNCHANGED <<completed, row, file, handed, deaths>>

(* Mutant of Stored: a row is enough. *)
StoredOrNot == row # Nothing

(* existing_cert and existing_cert.pdf_url. *)
Stored == row # Nothing /\ row.stored

Allowed == "wait" \in Habits => completed

(* download_certificate, with a stored file ...                            *)
Serve ==
  /\ Allowed /\ Stored
  /\ handed' = file
  /\ UNCHANGED <<completed, row, file, requests, deaths>>

(* ... and without.                                                        *)
Download(r) ==
  /\ requests[r] = Idle /\ Allowed /\ ~Stored
  /\ requests' = [requests EXCEPT ![r] = Begin("download")]
  /\ UNCHANGED <<completed, row, file, handed, deaths>>

------------------------------------------------------------------------------
(* generate_certificate_pdf.                                               *)

(* Mutant of Numbers: every generation draws a number. *)
NumbersDrawn == Number

(* The number of the row there is, or a random one, which is not compared  *)
(* with those there are.                                                   *)
Numbers == IF row = Nothing THEN Number ELSE {row.number}

(* Mutant of AllApproved: the waterfall's last decision is not flushed. *)
AllApprovedCommitted(kind) == completed

(* What the rows say: the last approval is visible to its own transaction. *)
AllApproved(kind) == completed \/ kind = "approve"

Lookup(r) ==
  /\ requests[r].at = "lookup"
  /\ \E n \in Numbers :
       requests' = [requests EXCEPT
         ![r] = [@ EXCEPT !.at = "upload", !.number = n, !.found = row # Nothing,
                          !.final = AllApproved(requests[r].kind)]]
  /\ UNCHANGED <<completed, row, file, handed, deaths>>

Printed(r) == [number |-> requests[r].number, final |-> requests[r].final, whole |-> TRUE]

Uploaded(r, stored) ==
  requests' = [requests EXCEPT ![r] = [@ EXCEPT !.at = "persist", !.stored = stored]]

(* No other first generation has put its file in the storage.              *)
OnlyFile == row = Nothing /\ \A q \in Request : ~requests[q].stored

Upload(r) ==
  /\ requests[r].at = "upload"
  /\ "one_file" \in Habits => requests[r].found \/ OnlyFile
  /\ file' = Printed(r)
  /\ Uploaded(r, TRUE)
  /\ UNCHANGED <<completed, row, handed, deaths>>

(* "saved without a URL so a re-upload can be triggered later". *)
UrlOfFailure == FALSE

UploadFails(r) ==
  /\ requests[r].at = "upload"
  /\ \/ UNCHANGED file
     \/ "whole_uploads" \notin Habits /\ file' = [Printed(r) EXCEPT !.whole = FALSE]
  /\ Uploaded(r, UrlOfFailure)
  /\ UNCHANGED <<completed, row, handed, deaths>>

(* After the waterfall the approval is committed whatever became of the    *)
(* certificate, and the endpoint generates it again.                       *)
Continue(r) ==
  CASE requests[r].kind = "approve" ->
         completed' = TRUE /\ requests' = [requests EXCEPT ![r] = Begin("endpoint")]
    [] OTHER -> UNCHANGED completed /\ Done(r)

(* Mutant of AfterFailure: the waterfall does not catch the exception. *)
AfterFailureRaised(r) == Done(r) /\ UNCHANGED completed

AfterFailure(r) == Continue(r)

(* Rendering fails, or the PDF is too large: the exception leaves          *)
(* generate_certificate_pdf and is caught by its callers.                  *)
RenderFails(r) ==
  /\ requests[r].at = "upload"
  /\ AfterFailure(r)
  /\ UNCHANGED <<row, file, handed, deaths>>

(* The insert fails: the application has a certificate by now, or the      *)
(* number drawn is that of another application's.                          *)
Clashes(r) == ~requests[r].found /\ (row # Nothing \/ requests[r].number \in Others)

(* The commit of the row with everything before it in the transaction; a   *)
(* download then answers with the PDF.                                     *)
Persist(r) ==
  /\ requests[r].at = "persist" /\ ~Clashes(r)
  /\ row' = [number |-> requests[r].number, stored |-> requests[r].stored]
  /\ handed' = IF requests[r].kind = "download" THEN Printed(r) ELSE handed
  /\ Continue(r)
  /\ UNCHANGED <<file, deaths>>

(* application_id and certificate_number are unique: the commit fails, and *)
(* the rollback takes the approval of a waterfall with it, although the    *)
(* waterfall catches the exception.                                        *)
Conflict(r) ==
  /\ requests[r].at = "persist" /\ Clashes(r)
  /\ Done(r)
  /\ UNCHANGED <<completed, row, file, handed, deaths>>

(* The server stops, or the connection is lost.                            *)
Die(r) ==
  /\ requests[r] # Idle /\ deaths < MaxDeaths
  /\ Done(r)
  /\ deaths' = deaths + 1
  /\ UNCHANGED <<completed, row, file, handed>>

Next ==
  \/ Serve
  \/ \E r \in Request :
       \/ LastApproval(r) \/ Download(r)
       \/ Lookup(r) \/ Upload(r) \/ UploadFails(r) \/ RenderFails(r)
       \/ Persist(r) \/ Conflict(r) \/ Die(r)

(* Requests proceed.  A student without certificate tries again; uploads   *)
(* that are tried again and again succeed some time, and the numbers drawn *)
(* do not belong to others for ever.                                       *)
Fairness ==
  /\ WF_vars(Serve)
  /\ \A r \in Request : /\ WF_vars(Download(r)) /\ WF_vars(Lookup(r))
                        /\ WF_vars(Upload(r) \/ UploadFails(r) \/ RenderFails(r))
                        /\ SF_vars(Upload(r)) /\ WF_vars(Persist(r) \/ Conflict(r))
  /\ <>[][\A r \in Request : Lookup(r) => requests'[r].number \notin Others]_vars

Spec == Init /\ [][Next]_vars /\ Fairness

------------------------------------------------------------------------------
(* verify_certificate: the number is found.                                *)
Verifies(number) == row # Nothing /\ row.number = number

(* Whoever scans the QR code of a certificate that was handed out, then or *)
(* later, finds it valid; and the PDF is complete.                         *)
HandedOutVerifies == handed # Nothing => Verifies(handed.number) /\ handed.whole

(* A certificate that is handed out shows every stage as approved.         *)
HandedOutIsFinal == handed # Nothing => handed.final

(* "Upload failure is logged but does NOT abort the request", and the      *)
(* waterfall catches whatever generate_certificate_pdf raises: unless it   *)
(* dies, the request of the last approval completes the application.  One  *)
(* failure alone is not survived, that of the commit itself, if there is   *)
(* already a certificate of the application or another one of the number.  *)
OnlyClashesUndoApproval ==
  [][\A r \in Request :
       requests[r].kind = "approve" /\ requests'[r] = Idle /\ deaths' = deaths
         => completed' \/ (requests[r].at = "persist" /\ Clashes(r))]_vars

(* After completion the student gets the certificate, whatever failed on   *)
(* the way.                                                                *)
CompletedGetsCertificate == completed ~> handed # Nothing
==============================================================================
