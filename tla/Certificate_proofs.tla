-------------------------- MODULE Certificate_proofs --------------------------
(***************************************************************************)
(* Certificates for any number of requests and failures: what is handed    *)
(* out is final and verifies, under the habits the theorems name, and the  *)
(* last approval stands unless its certificate clashes with another.       *)
(***************************************************************************)
EXTENDS Certificate, TLAPS

(* Nobody downloads before completion.                                     *)
Patient == "wait" \in Habits

(* A generation that is no approval has been started after completion.     *)
AfterCompletion ==
  Patient => \A r \in Request : requests[r].kind \in {"endpoint", "download"} => completed

(* What is printed, stored or handed out shows every stage as approved.    *)
PrintsFinal ==
  /\ \A r \in Request : requests[r].at \in {"upload", "persist"} =>
       (Patient => requests[r].final) /\ requests[r].number \in Number
  /\ Patient /\ file # Nothing => file.final
  /\ Patient /\ handed # Nothing => handed.final

(* The upload a request or the row speaks of has taken place.              *)
StoredIsThere ==
  /\ row # Nothing /\ row.stored => file # Nothing
  /\ \A r \in Request : requests[r].stored => file # Nothing

Shape ==
  /\ completed \in BOOLEAN
  /\ row \in Row \cup {Nothing}
  /\ file \in Pdf \cup {Nothing}
  /\ requests \in [Request -> Generation \cup {Idle}]
  /\ handed \in Pdf \cup {Nothing}
  /\ deaths \in 0..MaxDeaths

CertInv == Shape /\ StoredIsThere /\ AfterCompletion /\ PrintsFinal

LEMMA NothingIsNoPdf == Nothing \notin Pdf /\ Nothing \notin Row /\ Idle \notin Generation
<1>1. \A f \in Pdf : f # Nothing
  <2> SUFFICES ASSUME NEW f \in Pdf, f = Nothing
               PROVE  FALSE
    OBVIOUS
  <2>1. DOMAIN f = {"number", "final", "whole"} /\ DOMAIN Nothing = {"number"}
    BY DEF Pdf, Nothing
  <2>2. QED
    BY <2>1
<1>2. \A f \in Row : f # Nothing
  <2> SUFFICES ASSUME NEW f \in Row, f = Nothing
               PROVE  FALSE
    OBVIOUS
  <2>1. DOMAIN f = {"number", "stored"} /\ DOMAIN Nothing = {"number"}
    BY DEF Row, Nothing
  <2>2. QED
    BY <2>1
<1>3. QED
  BY <1>1, <1>2 DEF Idle, Generation

(* What a step that concerns one request has to respect.                   *)
LEMMA RequestSteps ==
  ASSUME CertInv, NEW r \in Request, NEW g \in Generation \cup {Idle},
         requests' = [requests EXCEPT ![r] = g],
         Patient /\ g.kind \in {"endpoint", "download"} => completed',
         g.at \in {"upload", "persist"} => (Patient => g.final) /\ g.number \in Number,
         g.stored => file' # Nothing,
         completed' \in BOOLEAN, completed => completed',
         file' \in Pdf \cup {Nothing}, file # Nothing => file' # Nothing,
         Patient /\ file' # Nothing => file'.final,
         handed' \in Pdf \cup {Nothing}, Patient /\ handed' # Nothing => handed'.final,
         row' \in Row \cup {Nothing}, row' # Nothing /\ row'.stored => file' # Nothing,
         deaths' \in 0..MaxDeaths
  PROVE  CertInv'
<1>1. \A q \in Request : requests'[q] = IF q = r THEN g ELSE requests[q]
  BY DEF CertInv, Shape
<1>2. Shape'
  BY DEF CertInv, Shape
<1>3. StoredIsThere'
  BY <1>1 DEF CertInv, StoredIsThere
<1>4. AfterCompletion'
  BY <1>1 DEF CertInv, AfterCompletion
<1>5. PrintsFinal'
  BY <1>1 DEF CertInv, PrintsFinal
<1>6. QED
  BY <1>2, <1>3, <1>4, <1>5 DEF CertInv

LEMMA CertInvFacts ==
  ASSUME CertInv, NEW r \in Request
  PROVE  /\ requests[r] \in Generation \cup {Idle}
         /\ requests[r].at # "idle" => requests[r] \in Generation
         /\ Patient /\ requests[r].kind \in {"endpoint", "download"} => completed
         /\ requests[r].at \in {"upload", "persist"} =>
              (Patient => requests[r].final) /\ requests[r].number \in Number
         /\ requests[r].stored => file # Nothing
         /\ completed \in BOOLEAN /\ deaths \in 0..MaxDeaths
         /\ file \in Pdf \cup {Nothing} /\ (Patient /\ file # Nothing => file.final)
         /\ handed \in Pdf \cup {Nothing} /\ (Patient /\ handed # Nothing => handed.final)
         /\ row \in Row \cup {Nothing} /\ (row # Nothing /\ row.stored => file # Nothing)
BY DEF CertInv, Shape, StoredIsThere, AfterCompletion, PrintsFinal, Idle

(* A request that begins to generate, or ends.                             *)
LEMMA BeginKeeps ==
  ASSUME CertInv, NEW r \in Request, NEW kind \in {"approve", "endpoint", "download"},
         requests' = [requests EXCEPT ![r] = Begin(kind)],
         completed' \in BOOLEAN, completed => completed', Patient /\ kind # "approve" => completed',
         UNCHANGED <<row, file, handed, deaths>>
  PROVE  CertInv'
<1>1. Begin(kind) \in Generation
  BY DEF Begin, Idle, Generation
<1>2. Begin(kind).kind = kind /\ Begin(kind).at = "lookup" /\ ~Begin(kind).stored
  BY DEF Begin, Idle
<1>3. QED
  BY <1>1, <1>2, CertInvFacts, RequestSteps

LEMMA DoneKeeps ==
  ASSUME CertInv, NEW r \in Request, Done(r), UNCHANGED <<completed, row, file, handed>>,
         deaths' \in 0..MaxDeaths
  PROVE  CertInv'
<1>1. requests' = [requests EXCEPT ![r] = Idle] /\ Idle.kind = "none" /\ Idle.at = "idle" /\ ~Idle.stored
  BY DEF Done, Idle
<1>2. QED
  BY <1>1, CertInvFacts, RequestSteps

LEMMA LookupKeeps ==
  ASSUME CertInv, NEW r \in Request, Lookup(r)
  PROVE  CertInv'
<1> DEFINE old == requests[r]
<1>1. PICK n \in Numbers :
        requests' = [requests EXCEPT
          ![r] = [old EXCEPT !.at = "upload", !.number = n, !.found = row # Nothing,
                             !.final = AllApproved(old.kind)]]
  BY DEF Lookup
<1>2. old \in Generation /\ old.at = "lookup" /\ UNCHANGED <<completed, row, file, handed, deaths>>
  BY CertInvFacts DEF Lookup
<1>3. n \in Number
  BY CertInvFacts DEF Numbers, Row
<1>4. AllApproved(old.kind) \in BOOLEAN /\ (Patient => AllApproved(old.kind))
  BY <1>2, CertInvFacts DEF AllApproved, Generation
<1> DEFINE g == [old EXCEPT !.at = "upload", !.number = n, !.found = row # Nothing,
                            !.final = AllApproved(old.kind)]
<1>5. g \in Generation
  BY <1>2, <1>3, <1>4 DEF Generation
<1>6. g.kind = old.kind /\ (Patient => g.final) /\ g.number \in Number /\ g.stored = old.stored
  BY <1>2, <1>3, <1>4 DEF Generation
<1> HIDE DEF g
<1>7. QED
  BY <1>1, <1>2, <1>5, <1>6, CertInvFacts, RequestSteps DEF g

(* The end of an upload, whichever file it leaves.                         *)
LEMMA UploadedKeeps ==
  ASSUME CertInv, NEW r \in Request, requests[r].at = "upload",
         NEW stored \in BOOLEAN, Uploaded(r, stored),
         \/ file' = file /\ ~stored
         \/ file' = Printed(r)
         \/ file' = [Printed(r) EXCEPT !.whole = FALSE],
         UNCHANGED <<completed, row, handed, deaths>>
  PROVE  CertInv'
<1> DEFINE old == requests[r]
           g == [old EXCEPT !.at = "persist", !.stored = stored]
<1>1. old \in Generation /\ (Patient => old.final) /\ old.number \in Number
  BY CertInvFacts
<1>2. g \in Generation
  BY <1>1 DEF Generation
<1>3. g.kind = old.kind /\ (Patient => g.final) /\ g.number \in Number /\ g.stored = stored
  BY <1>1 DEF Generation
<1>4. requests' = [requests EXCEPT ![r] = g]
  BY DEF Uploaded
<1> HIDE DEF g
<1>5. /\ file' \in Pdf \cup {Nothing}
      /\ file # Nothing => file' # Nothing
      /\ Patient /\ file' # Nothing => file'.final
      /\ stored => file' # Nothing
  <2>1. CASE file' = file /\ ~stored
    BY <2>1, CertInvFacts
  <2>2. CASE file' = Printed(r) \/ file' = [Printed(r) EXCEPT !.whole = FALSE]
    <3>1. Printed(r) \in Pdf /\ (Patient => Printed(r).final)
      BY <1>1 DEF Printed, Pdf, Generation
    <3>2. file' \in Pdf /\ (Patient => file'.final)
      BY <2>2, <3>1 DEF Pdf
    <3>3. QED
      BY <3>2, NothingIsNoPdf
  <2>3. QED
    BY <2>1, <2>2
<1>6. QED
  BY <1>1, <1>2, <1>3, <1>4, <1>5, CertInvFacts, RequestSteps

LEMMA UploadKeeps ==
  ASSUME CertInv, NEW r \in Request, Upload(r) \/ UploadFails(r)
  PROVE  CertInv'
<1>1. CASE Upload(r)
  BY <1>1, UploadedKeeps DEF Upload
<1>2. CASE UploadFails(r)
  BY <1>2, UploadedKeeps DEF UploadFails, UrlOfFailure
<1>3. QED
  BY <1>1, <1>2

(* What follows a generation, once the row is written or not.              *)
LEMMA ContinueKeeps ==
  ASSUME CertInv, NEW r \in Request, Continue(r),
         UNCHANGED <<row, file, handed, deaths>>
  PROVE  CertInv'
<1>1. CASE requests[r].kind = "approve"
  <2>1. completed' = TRUE /\ requests' = [requests EXCEPT ![r] = Begin("endpoint")]
    BY <1>1 DEF Continue
  <2>2. QED
    BY <2>1, BeginKeeps
<1>2. CASE requests[r].kind # "approve"
  <2>1. UNCHANGED completed /\ Done(r)
    BY <1>2 DEF Continue
  <2>2. QED
    BY <2>1, DoneKeeps, CertInvFacts
<1>3. QED
  BY <1>1, <1>2

LEMMA PersistKeeps ==
  ASSUME CertInv, NEW r \in Request, Persist(r)
  PROVE  CertInv'
<1>1. /\ requests[r] \in Generation /\ requests[r].at = "persist" /\ (Patient => requests[r].final)
      /\ requests[r].number \in Number
  BY CertInvFacts DEF Persist
<1>2. UNCHANGED <<file, deaths>>
  BY DEF Persist
<1>3. row' \in Row /\ row'.stored = requests[r].stored
  BY <1>1 DEF Persist, Row, Generation
<1>4. Printed(r) \in Pdf /\ (Patient => Printed(r).final)
  BY <1>1 DEF Printed, Pdf, Generation
<1>5. handed' \in Pdf \cup {Nothing} /\ (Patient /\ handed' # Nothing => handed'.final)
  BY <1>4, CertInvFacts DEF Persist
<1>6. CASE requests[r].kind = "approve"
  <2>1. completed' = TRUE /\ requests' = [requests EXCEPT ![r] = Begin("endpoint")]
    BY <1>6 DEF Persist, Continue
  <2>2. /\ Begin("endpoint") \in Generation /\ ~Begin("endpoint").stored
        /\ Begin("endpoint").at = "lookup"
    BY DEF Begin, Idle, Generation
  <2>3. QED
    BY <1>2, <1>3, <1>5, <2>1, <2>2, CertInvFacts, RequestSteps
<1>7. CASE requests[r].kind # "approve"
  <2>1. UNCHANGED completed /\ requests' = [requests EXCEPT ![r] = Idle]
    BY <1>7 DEF Persist, Continue, Done
  <2>2. Idle.kind = "none" /\ Idle.at = "idle" /\ ~Idle.stored
    BY DEF Idle
  <2>3. QED
    BY <1>2, <1>3, <1>5, <2>1, <2>2, CertInvFacts, RequestSteps
<1>8. QED
  BY <1>6, <1>7

LEMMA StepKeepsCertInv ==
  ASSUME CertInv, [Next]_vars
  PROVE  CertInv'
<1>1. CASE Serve
  <2>1. UNCHANGED <<completed, row, file, requests, deaths>> /\ handed' = file
    BY <1>1 DEF Serve
  <2>2. QED
    BY <2>1 DEF CertInv, Shape, StoredIsThere, AfterCompletion, PrintsFinal
<1>2. ASSUME NEW r \in Request, LastApproval(r)
      PROVE  CertInv'
  BY <1>2, BeginKeeps, CertInvFacts DEF LastApproval
<1>3. ASSUME NEW r \in Request, Download(r)
      PROVE  CertInv'
  BY <1>3, BeginKeeps, CertInvFacts DEF Download, Allowed, Patient
<1>4. ASSUME NEW r \in Request, Lookup(r)
      PROVE  CertInv'
  BY <1>4, LookupKeeps
<1>5. ASSUME NEW r \in Request, Upload(r) \/ UploadFails(r)
      PROVE  CertInv'
  BY <1>5, UploadKeeps
<1>6. ASSUME NEW r \in Request, RenderFails(r)
      PROVE  CertInv'
  BY <1>6, ContinueKeeps DEF RenderFails, AfterFailure
<1>7. ASSUME NEW r \in Request, Persist(r)
      PROVE  CertInv'
  BY <1>7, PersistKeeps
<1>8. ASSUME NEW r \in Request, Conflict(r)
      PROVE  CertInv'
  BY <1>8, DoneKeeps, CertInvFacts DEF Conflict
<1>9. ASSUME NEW r \in Request, Die(r)
      PROVE  CertInv'
  <2>1. deaths' \in 0..MaxDeaths
    BY <1>9, CertInvFacts, CertificateAssumption DEF Die
  <2>2. QED
    BY <1>9, <2>1, DoneKeeps DEF Die
<1>10. CASE UNCHANGED vars
  BY <1>10 DEF vars, CertInv, Shape, StoredIsThere, AfterCompletion, PrintsFinal
<1>11. QED
  BY <1>1, <1>2, <1>3, <1>4, <1>5, <1>6, <1>7, <1>8, <1>9, <1>10 DEF Next

LEMMA InitCertInv == Init => CertInv
<1> SUFFICES ASSUME Init
             PROVE  CertInv
  OBVIOUS
<1>1. \A r \in Request : requests[r] = Idle
  BY DEF Init
<1>2. Idle.kind = "none" /\ Idle.at = "idle" /\ ~Idle.stored
  BY DEF Idle
<1>3. Shape
  <2>1. deaths \in 0..MaxDeaths
    BY CertificateAssumption DEF Init
  <2>2. requests \in [Request -> Generation \cup {Idle}]
    BY DEF Init
  <2>3. /\ completed \in BOOLEAN
        /\ row \in Row \cup {Nothing} /\ file \in Pdf \cup {Nothing} /\ handed \in Pdf \cup {Nothing}
    BY DEF Init
  <2>4. QED
    BY <2>1, <2>2, <2>3 DEF Shape
<1>4. StoredIsThere /\ AfterCompletion /\ PrintsFinal
  BY <1>1, <1>2 DEF Init, StoredIsThere, AfterCompletion, PrintsFinal
<1>5. QED
  BY <1>3, <1>4 DEF CertInv

(* If nobody downloads before completion, every certificate that is handed *)
(* out shows all stages as approved, whichever generation printed it.      *)
THEOREM OnlyFinalIsHandedOut ==
  ASSUME "wait" \in Habits
  PROVE  Spec => []HandedOutIsFinal
<1>1. Init => CertInv
  BY InitCertInv
<1>2. CertInv /\ [Next]_vars => CertInv'
  BY StepKeepsCertInv
<1>3. CertInv => HandedOutIsFinal
  BY DEF CertInv, PrintsFinal, HandedOutIsFinal, Patient
<1>4. QED
  BY <1>1, <1>2, <1>3, PTL DEF Spec

------------------------------------------------------------------------------
(* A generation that found the row prints its number.                      *)
FoundNumber ==
  \A r \in Request : requests[r].found => row # Nothing /\ requests[r].number = row.number

(* The file is the one of every generation that has uploaded it and may    *)
(* still write the row.                                                    *)
UploadsKept ==
  \A r \in Request : requests[r].stored =>
    /\ requests[r].at = "persist" /\ file # Nothing /\ file.whole
    /\ requests[r].found \/ row = Nothing => file.number = requests[r].number

(* The row speaks of the file there is.                                    *)
RowOfFile ==
  row # Nothing /\ row.stored => file # Nothing /\ file.whole /\ file.number = row.number

FileInv == FoundNumber /\ UploadsKept /\ RowOfFile /\ HandedOutVerifies

LEMMA PrintedFields ==
  ASSUME NEW r \in Request
  PROVE  /\ Printed(r).number = requests[r].number /\ Printed(r).whole
         /\ requests[r].number \in Number /\ requests[r].final \in BOOLEAN => Printed(r) \in Pdf
BY DEF Printed, Pdf

(* A request that begins, dies, or is refused changes no file and no row.  *)
LEMMA RestartKeepsFileInv ==
  ASSUME CertInv, FileInv, NEW r \in Request, NEW g \in Generation \cup {Idle},
         ~g.found, ~g.stored, requests' = [requests EXCEPT ![r] = g],
         UNCHANGED <<row, file, handed>>
  PROVE  FileInv'
<1>1. \A q \in Request : requests'[q] = IF q = r THEN g ELSE requests[q]
  BY DEF CertInv, Shape
<1>2. FoundNumber' /\ UploadsKept'
  BY <1>1 DEF FileInv, FoundNumber, UploadsKept
<1>3. RowOfFile' /\ HandedOutVerifies'
  BY DEF FileInv, RowOfFile, HandedOutVerifies, Verifies
<1>4. QED
  BY <1>2, <1>3 DEF FileInv

LEMMA FreshRequests ==
  /\ Idle \in Generation \cup {Idle} /\ ~Idle.found /\ ~Idle.stored
  /\ \A kind \in {"approve", "endpoint", "download"} :
       Begin(kind) \in Generation \cup {Idle} /\ ~Begin(kind).found /\ ~Begin(kind).stored
BY DEF Begin, Idle, Generation

LEMMA ContinueKeepsFileInv ==
  ASSUME CertInv, FileInv, NEW r \in Request, Continue(r), UNCHANGED <<row, file, handed>>
  PROVE  FileInv'
<1>1. \/ requests' = [requests EXCEPT ![r] = Begin("endpoint")]
      \/ requests' = [requests EXCEPT ![r] = Idle]
  BY DEF Continue, Done
<1>2. QED
  BY <1>1, FreshRequests, RestartKeepsFileInv

LEMMA LookupKeepsFileInv ==
  ASSUME CertInv, FileInv, NEW r \in Request, Lookup(r)
  PROVE  FileInv'
<1> DEFINE old == requests[r]
<1>1. PICK n \in Numbers :
        requests' = [requests EXCEPT
          ![r] = [old EXCEPT !.at = "upload", !.number = n, !.found = row # Nothing,
                             !.final = AllApproved(old.kind)]]
  BY DEF Lookup
<1>2. old \in Generation /\ UNCHANGED <<completed, row, file, handed, deaths>>
  BY CertInvFacts DEF Lookup
<1>3. row # Nothing => n = row.number
  BY DEF Numbers
<1> DEFINE g == [old EXCEPT !.at = "upload", !.number = n, !.found = row # Nothing,
                            !.final = AllApproved(old.kind)]
<1>4. g.number = n /\ (g.found <=> row # Nothing) /\ g.stored = old.stored
  BY <1>2 DEF Generation
<1> HIDE DEF g
<1>5. \A q \in Request : requests'[q] = IF q = r THEN g ELSE requests[q]
  BY <1>1 DEF g, CertInv, Shape
<1>6. ~old.stored
  BY DEF Lookup, FileInv, UploadsKept
<1>7. FoundNumber' /\ UploadsKept'
  BY <1>2, <1>3, <1>4, <1>5, <1>6 DEF FileInv, FoundNumber, UploadsKept
<1>8. RowOfFile' /\ HandedOutVerifies'
  BY <1>2 DEF FileInv, RowOfFile, HandedOutVerifies, Verifies
<1>9. QED
  BY <1>7, <1>8 DEF FileInv

LEMMA UploadKeepsFileInv ==
  ASSUME CertInv, FileInv, "one_file" \in Habits, NEW r \in Request, Upload(r)
  PROVE  FileInv'
<1> DEFINE old == requests[r]
           g == [old EXCEPT !.at = "persist", !.stored = TRUE]
<1>1. old \in Generation /\ old.number \in Number
  BY CertInvFacts DEF Upload
<1>2. /\ g.number = old.number /\ g.found = old.found /\ g.at = "persist"
      /\ requests' = [requests EXCEPT ![r] = g]
  BY <1>1 DEF Upload, Uploaded, Generation
<1> HIDE DEF g
<1>3. \A q \in Request : requests'[q] = IF q = r THEN g ELSE requests[q]
  BY <1>2 DEF CertInv, Shape
<1>4. UNCHANGED <<row, handed>>
  BY DEF Upload
<1>5. file' # Nothing /\ file'.whole /\ file'.number = old.number
  BY <1>1, PrintedFields, NothingIsNoPdf DEF Upload, Generation
<1>6. old.found \/ OnlyFile
  BY DEF Upload
<1>7. FoundNumber'
  BY <1>2, <1>3, <1>4 DEF FileInv, FoundNumber
<1>8. UploadsKept'
  <2>1. CASE old.found
    BY <1>2, <1>3, <1>4, <1>5, <2>1 DEF FileInv, FoundNumber, UploadsKept
  <2>2. CASE OnlyFile
    BY <1>2, <1>3, <1>4, <1>5, <2>2 DEF OnlyFile, UploadsKept
  <2>3. QED
    BY <1>6, <2>1, <2>2
<1>9. RowOfFile'
  BY <1>4, <1>5, <1>6 DEF FileInv, FoundNumber, RowOfFile, OnlyFile
<1>10. HandedOutVerifies'
  BY <1>4 DEF FileInv, HandedOutVerifies, Verifies
<1>11. QED
  BY <1>7, <1>8, <1>9, <1>10 DEF FileInv

LEMMA UploadFailsKeepsFileInv ==
  ASSUME CertInv, FileInv, "whole_uploads" \in Habits, NEW r \in Request, UploadFails(r)
  PROVE  FileInv'
<1> DEFINE old == requests[r]
           g == [old EXCEPT !.at = "persist", !.stored = FALSE]
<1>1. old \in Generation
  BY CertInvFacts DEF UploadFails
<1>2. /\ g.number = old.number /\ g.found = old.found /\ ~g.stored
      /\ requests' = [requests EXCEPT ![r] = g]
  BY <1>1 DEF UploadFails, Uploaded, UrlOfFailure, Generation
<1> HIDE DEF g
<1>3. \A q \in Request : requests'[q] = IF q = r THEN g ELSE requests[q]
  BY <1>2 DEF CertInv, Shape
<1>4. UNCHANGED <<row, file, handed>>
  BY DEF UploadFails
<1>5. FoundNumber' /\ UploadsKept'
  BY <1>2, <1>3, <1>4 DEF FileInv, FoundNumber, UploadsKept
<1>6. RowOfFile' /\ HandedOutVerifies'
  BY <1>4 DEF FileInv, RowOfFile, HandedOutVerifies, Verifies
<1>7. QED
  BY <1>5, <1>6 DEF FileInv

LEMMA PersistKeepsFileInv ==
  ASSUME CertInv, FileInv, NEW r \in Request, Persist(r)
  PROVE  FileInv'
<1> DEFINE old == requests[r]
<1>1. /\ old \in Generation /\ old.number \in Number
      /\ old.found \/ row = Nothing
      /\ file' = file
  BY CertInvFacts DEF Persist, Clashes
<1>2. row' # Nothing /\ row'.number = old.number /\ row'.stored = old.stored
  <2>1. row' = [number |-> old.number, stored |-> old.stored]
    BY DEF Persist
  <2>2. row' \in Row
    BY <1>1, <2>1 DEF Row, Generation
  <2>3. QED
    BY <2>1, <2>2, NothingIsNoPdf
<1>3. row # Nothing => old.found /\ old.number = row.number
  BY <1>1 DEF FileInv, FoundNumber
<1>4. PICK g : ~g.found /\ ~g.stored /\ requests' = [requests EXCEPT ![r] = g]
  BY FreshRequests DEF Persist, Continue, Done
<1>5. \A q \in Request : requests'[q] = IF q = r THEN g ELSE requests[q]
  BY <1>4 DEF CertInv, Shape
<1>6. FoundNumber'
  BY <1>2, <1>3, <1>4, <1>5 DEF FileInv, FoundNumber
<1>7. UploadsKept'
  BY <1>1, <1>2, <1>4, <1>5 DEF FileInv, UploadsKept
<1>8. RowOfFile'
  BY <1>1, <1>2 DEF FileInv, UploadsKept, RowOfFile
<1>9. HandedOutVerifies'
  <2>1. CASE handed' = handed
    BY <1>2, <1>3, <2>1 DEF FileInv, HandedOutVerifies, Verifies
  <2>2. CASE handed' = Printed(r)
    BY <1>2, <2>2, PrintedFields DEF HandedOutVerifies, Verifies
  <2>3. QED
    BY <2>1, <2>2 DEF Persist
<1>10. QED
  BY <1>6, <1>7, <1>8, <1>9 DEF FileInv

LEMMA StepKeepsFileInv ==
  ASSUME CertInv, FileInv, {"one_file", "whole_uploads"} \subseteq Habits, [Next]_vars
  PROVE  FileInv'
<1>1. CASE Serve
  <2>1. /\ UNCHANGED <<row, file, requests>> /\ handed' = file
        /\ row # Nothing /\ row.stored
    BY <1>1 DEF Serve, Stored
  <2>2. QED
    BY <2>1 DEF FileInv, FoundNumber, UploadsKept, RowOfFile, HandedOutVerifies, Verifies
<1>2. ASSUME NEW r \in Request, LastApproval(r) \/ Download(r) \/ Conflict(r) \/ Die(r)
      PROVE  FileInv'
  <2>1. /\ \E g \in Generation \cup {Idle} :
             ~g.found /\ ~g.stored /\ requests' = [requests EXCEPT ![r] = g]
        /\ UNCHANGED <<row, file, handed>>
    BY <1>2, FreshRequests DEF LastApproval, Download, Conflict, Die, Done
  <2>2. QED
    BY <2>1, RestartKeepsFileInv
<1>3. ASSUME NEW r \in Request, Lookup(r)
      PROVE  FileInv'
  BY <1>3, LookupKeepsFileInv
<1>4. ASSUME NEW r \in Request, Upload(r)
      PROVE  FileInv'
  BY <1>4, UploadKeepsFileInv
<1>5. ASSUME NEW r \in Request, UploadFails(r)
      PROVE  FileInv'
  BY <1>5, UploadFailsKeepsFileInv
<1>6. ASSUME NEW r \in Request, RenderFails(r)
      PROVE  FileInv'
  BY <1>6, ContinueKeepsFileInv DEF RenderFails, AfterFailure
<1>7. ASSUME NEW r \in Request, Persist(r)
      PROVE  FileInv'
  BY <1>7, PersistKeepsFileInv
<1>8. CASE UNCHANGED vars
  BY <1>8 DEF vars, FileInv, FoundNumber, UploadsKept, RowOfFile, HandedOutVerifies, Verifies
<1>9. QED
  BY <1>1, <1>2, <1>3, <1>4, <1>5, <1>6, <1>7, <1>8 DEF Next

(* If a failed upload leaves the old file, and first generations do not    *)
(* overlap in the storage, every certificate that was ever handed out is   *)
(* complete and found valid from then on, whatever fails or dies.          *)
THEOREM HandedOutStaysValid ==
  ASSUME {"one_file", "whole_uploads"} \subseteq Habits
  PROVE  Spec => []HandedOutVerifies
<1>1. Init => CertInv
  BY InitCertInv
<1>2. CertInv /\ [Next]_vars => CertInv'
  BY StepKeepsCertInv
<1>3. Init => FileInv
  BY FreshRequests DEF Init, FileInv, FoundNumber, UploadsKept, RowOfFile, HandedOutVerifies
<1>4. CertInv /\ FileInv /\ [Next]_vars => FileInv'
  BY StepKeepsFileInv
<1>5. FileInv => HandedOutVerifies
  BY DEF FileInv
<1>6. QED
  BY <1>1, <1>2, <1>3, <1>4, <1>5, PTL DEF Spec

------------------------------------------------------------------------------
(* One last approval is under way at most, and until it is committed there *)
(* is no certificate, if nobody downloads early.                           *)
OneApproval ==
  /\ \A q, r \in Request : requests[q].kind = "approve" /\ requests[r].kind = "approve" => q = r
  /\ \A r \in Request : requests[r].kind = "approve" => ~completed
  /\ ~completed => row = Nothing

(* A step of request r that keeps the kind of its generation.              *)
LEMMA SameKindKeepsOneApproval ==
  ASSUME CertInv, OneApproval, NEW r \in Request, NEW g,
         requests' = [requests EXCEPT ![r] = g],
         g.kind = "approve" => requests[r].kind = "approve",
         UNCHANGED <<completed, row>>
  PROVE  OneApproval'
<1>1. \A q \in Request : requests'[q] = IF q = r THEN g ELSE requests[q]
  BY DEF CertInv, Shape
<1>2. QED
  BY <1>1 DEF OneApproval

LEMMA FreshKinds ==
  /\ Idle.kind = "none"
  /\ \A kind \in {"approve", "endpoint", "download"} : Begin(kind).kind = kind
BY DEF Begin, Idle

LEMMA ContinueKeepsOneApproval ==
  ASSUME CertInv, OneApproval, Patient, NEW r \in Request, Continue(r),
         requests[r].at # "idle", row' = row \/ requests[r].at = "persist"
  PROVE  OneApproval'
<1>1. CASE requests[r].kind = "approve"
  <2>1. completed' = TRUE /\ requests' = [requests EXCEPT ![r] = Begin("endpoint")]
    BY <1>1 DEF Continue
  <2>2. \A q \in Request : requests'[q] = IF q = r THEN Begin("endpoint") ELSE requests[q]
    BY <2>1 DEF CertInv, Shape
  <2>3. \A q \in Request : requests'[q].kind # "approve"
    BY <1>1, <2>2, FreshKinds DEF OneApproval
  <2>4. QED
    BY <2>1, <2>3 DEF OneApproval
<1>2. CASE requests[r].kind # "approve"
  <2>1. completed' = completed /\ requests' = [requests EXCEPT ![r] = Idle]
    BY <1>2 DEF Continue, Done
  <2>2. \A q \in Request : requests'[q] = IF q = r THEN Idle ELSE requests[q]
    BY <2>1 DEF CertInv, Shape
  <2>3. completed
    BY <1>2, CertInvFacts DEF Generation
  <2>4. QED
    BY <2>1, <2>2, <2>3, FreshKinds DEF OneApproval
<1>3. QED
  BY <1>1, <1>2

(* While a generation is under way, its kind stays.                        *)
LEMMA WorkKeepsKind ==
  ASSUME CertInv, NEW r \in Request, Lookup(r) \/ Upload(r) \/ UploadFails(r)
  PROVE  /\ requests[r] \in Generation
         /\ \E g : requests' = [requests EXCEPT ![r] = g] /\ g.kind = requests[r].kind
         /\ UNCHANGED <<completed, row>>
<1> DEFINE old == requests[r]
<1>1. old \in Generation /\ UNCHANGED <<completed, row>>
  BY CertInvFacts DEF Lookup, Upload, UploadFails
<1>2. CASE Lookup(r)
  <2>1. PICK n \in Numbers :
          requests' = [requests EXCEPT
            ![r] = [old EXCEPT !.at = "upload", !.number = n, !.found = row # Nothing,
                               !.final = AllApproved(old.kind)]]
    BY <1>2 DEF Lookup
  <2> DEFINE g == [old EXCEPT !.at = "upload", !.number = n, !.found = row # Nothing,
                              !.final = AllApproved(old.kind)]
  <2>2. g.kind = old.kind
    BY <1>1 DEF Generation
  <2>3. requests' = [requests EXCEPT ![r] = g]
    BY <2>1
  <2> HIDE DEF g
  <2>4. QED
    BY <1>1, <2>2, <2>3
<1>3. ASSUME NEW stored, Uploaded(r, stored)
      PROVE  \E g : requests' = [requests EXCEPT ![r] = g] /\ g.kind = old.kind
  <2> DEFINE g == [old EXCEPT !.at = "persist", !.stored = stored]
  <2>1. g.kind = old.kind
    BY <1>1 DEF Generation
  <2>2. requests' = [requests EXCEPT ![r] = g]
    BY <1>3 DEF Uploaded
  <2> HIDE DEF g
  <2>3. QED
    BY <2>1, <2>2
<1>4. CASE Upload(r) \/ UploadFails(r)
  BY <1>1, <1>3, <1>4 DEF Upload, UploadFails
<1>5. QED
  BY <1>2, <1>4

LEMMA StepKeepsOneApproval ==
  ASSUME CertInv, OneApproval, Patient, [Next]_vars
  PROVE  OneApproval'
<1>1. CASE UNCHANGED <<completed, row, requests>>
  BY <1>1 DEF OneApproval
<1>2. CASE Serve
  BY <1>1, <1>2 DEF Serve
<1>3. ASSUME NEW r \in Request, LastApproval(r)
      PROVE  OneApproval'
  <2>1. /\ requests' = [requests EXCEPT ![r] = Begin("approve")] /\ UNCHANGED <<completed, row>>
        /\ ~completed /\ \A q \in Request : requests[q].kind # "approve"
    BY <1>3 DEF LastApproval
  <2>2. \A q \in Request : requests'[q] = IF q = r THEN Begin("approve") ELSE requests[q]
    BY <2>1 DEF CertInv, Shape
  <2>3. QED
    BY <2>1, <2>2 DEF OneApproval
<1>4. ASSUME NEW r \in Request, Download(r) \/ Conflict(r) \/ Die(r)
      PROVE  OneApproval'
  BY <1>4, FreshKinds, SameKindKeepsOneApproval DEF Download, Conflict, Die, Done
<1>5. ASSUME NEW r \in Request, Lookup(r) \/ Upload(r) \/ UploadFails(r)
      PROVE  OneApproval'
  BY <1>5, WorkKeepsKind, SameKindKeepsOneApproval
<1>6. ASSUME NEW r \in Request, RenderFails(r) \/ Persist(r)
      PROVE  OneApproval'
  BY <1>6, ContinueKeepsOneApproval DEF RenderFails, AfterFailure, Persist
<1>7. CASE UNCHANGED vars
  BY <1>1, <1>7 DEF vars
<1>8. QED
  BY <1>2, <1>3, <1>4, <1>5, <1>6, <1>7 DEF Next

(* The last approval ends without completing the application only if its  *)
(* request dies, or its commit clashes.                                    *)
LEMMA ApprovalEnds ==
  ASSUME CertInv, Next, NEW r \in Request,
         requests[r].kind = "approve", requests'[r] = Idle, deaths' = deaths
  PROVE  requests[r].at = "persist" /\ Clashes(r)
<1>1. requests[r] # Idle
  BY FreshKinds
<1>2. ASSUME NEW q \in Request, NEW g, requests' = [requests EXCEPT ![q] = g], g # Idle
      PROVE  FALSE
  BY <1>1, <1>2 DEF CertInv, Shape
<1>3. ASSUME NEW q \in Request, Done(q)
      PROVE  q = r
  BY <1>1, <1>3 DEF CertInv, Shape, Done
<1>4. \A kind \in {"approve", "endpoint", "download"} : Begin(kind) # Idle
  BY FreshKinds
<1>5. ASSUME NEW q \in Request, LastApproval(q) \/ Download(q)
      PROVE  FALSE
  BY <1>2, <1>4, <1>5 DEF LastApproval, Download
<1>6. ASSUME NEW q \in Request, Lookup(q) \/ Upload(q) \/ UploadFails(q)
      PROVE  FALSE
  <2>1. PICK g : requests' = [requests EXCEPT ![q] = g] /\ g.kind = requests[q].kind
    BY <1>6, WorkKeepsKind
  <2>2. requests[q].kind # "none"
    BY <1>6, WorkKeepsKind DEF Generation
  <2>3. QED
    BY <1>2, <2>1, <2>2, FreshKinds
<1>7. ASSUME NEW q \in Request, RenderFails(q) \/ Persist(q)
      PROVE  FALSE
  <2>1. Continue(q)
    BY <1>7 DEF RenderFails, AfterFailure, Persist
  <2>2. CASE requests[q].kind = "approve"
    BY <1>2, <1>4, <2>1, <2>2 DEF Continue
  <2>3. CASE requests[q].kind # "approve"
    BY <1>3, <2>1, <2>3 DEF Continue
  <2>4. QED
    BY <2>2, <2>3
<1>8. ASSUME NEW q \in Request, Conflict(q)
      PROVE  requests[r].at = "persist" /\ Clashes(r)
  BY <1>3, <1>8 DEF Conflict
<1>9. ASSUME NEW q \in Request, Die(q)
      PROVE  FALSE
  BY <1>9, CertInvFacts, CertificateAssumption DEF Die
<1>10. CASE Serve
  BY <1>1, <1>10 DEF Serve
<1>11. QED
  BY <1>5, <1>6, <1>7, <1>8, <1>9, <1>10 DEF Next

(* Whatever fails while the certificate is made and whoever downloads in   *)
(* the meantime, the request of the last approval ends with the            *)
(* application completed, dies, or commits a certificate that clashes with *)
(* one there is.                                                           *)
THEOREM ApprovalStands == Spec => OnlyClashesUndoApproval
<1> DEFINE Ends == \A r \in Request :
             requests[r].kind = "approve" /\ requests'[r] = Idle /\ deaths' = deaths
               => completed' \/ (requests[r].at = "persist" /\ Clashes(r))
<1>1. CertInv /\ [Next]_vars => [Ends]_vars
  BY ApprovalEnds
<1>2. CertInv /\ [Next]_vars => CertInv'
  BY StepKeepsCertInv
<1>3. QED
  BY <1>1, <1>2, InitCertInv, PTL DEF Spec, OnlyClashesUndoApproval

(* If nobody downloads before completion, the clash is one of numbers: of  *)
(* the application itself there is no certificate to clash with.           *)
THEOREM OnlyNumbersUndoApproval ==
  ASSUME "wait" \in Habits
  PROVE  Spec => [][\A r \in Request :
                      requests[r].kind = "approve" /\ requests'[r] = Idle /\ deaths' = deaths
                        => requests[r].number \in Others]_vars
<1> DEFINE Ends == \A r \in Request :
             requests[r].kind = "approve" /\ requests'[r] = Idle /\ deaths' = deaths
               => requests[r].number \in Others
<1>1. Patient
  BY DEF Patient
<1>2. Init => CertInv /\ OneApproval
  BY InitCertInv, FreshKinds DEF Init, OneApproval
<1>3. CertInv /\ OneApproval /\ [Next]_vars => (CertInv /\ OneApproval)'
  BY <1>1, StepKeepsCertInv, StepKeepsOneApproval
<1>4. CertInv /\ OneApproval /\ [Next]_vars => [Ends]_vars
  BY ApprovalEnds DEF OneApproval, Clashes
<1>5. QED
  BY <1>2, <1>3, <1>4, PTL DEF Spec
==============================================================================
