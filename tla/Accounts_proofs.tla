---------------------------- MODULE Accounts_proofs ----------------------------
(***************************************************************************)
(* The account of Accounts for any number of requests, codes, minutes and  *)
(* lost tasks: whoever decided can be told as long as the log has heard of *)
(* the account, fresh codes stay, and a code works once if no second reset *)
(* runs beside the first.                                                  *)
(***************************************************************************)
EXTENDS Accounts, TLAPS

------------------------------------------------------------------------------
(* Decisions.                                                              *)

(* An account the log has heard of is there; and the row its decision is   *)
(* on is signed while the account is there.                                *)
TraceInv ==
  /\ trail # {} => exists
  /\ decided /\ exists => verified_by

LEMMA StepKeepsTraceInv ==
  ASSUME TraceInv, [Next]_vars
  PROVE  TraceInv'
<1> USE DEF TraceInv
<1>1. CASE UNCHANGED <<exists, decided, verified_by, trail>>
  BY <1>1
<1>2. CASE Login \/ StudentLogin \/ Apply
  BY <1>1, <1>2 DEF Login, StudentLogin, Apply, logs
<1>3. CASE Decide \/ Superseded
  BY <1>3 DEF Decide, Superseded, logs
<1>4. ASSUME NEW t \in Entry, Log(t)
      PROVE  TraceInv'
  BY <1>4 DEF Log, work
<1>5. ASSUME NEW t \in Entry, LoseEntry(t)
      PROVE  TraceInv'
  BY <1>1, <1>5 DEF LoseEntry, work
<1>6. ASSUME NEW c \in Code, Send(c) \/ LoseMail(c)
      PROVE  TraceInv'
  BY <1>1, <1>6 DEF Send, LoseMail, work, logs
<1>7. CASE DeleteById \/ DeleteStandard
  BY <1>7 DEF DeleteById, DeleteStandard, Removed, Kept, logs
<1>8. CASE Forgot \/ Tick
  BY <1>1, <1>8 DEF Forgot, Tick, work, logs
<1>9. ASSUME NEW r \in Request, Commit(r) \/ BeginChange(r) \/ \E c \in Code : BeginReset(r, c)
      PROVE  TraceInv'
  BY <1>1, <1>9 DEF Commit, BeginChange, BeginReset, work, logs
<1>10. CASE UNCHANGED vars
  BY <1>1, <1>10 DEF vars, work, logs
<1>11. QED
  BY <1>2, <1>3, <1>4, <1>5, <1>6, <1>7, <1>8, <1>9, <1>10 DEF Next

(* Whoever decided a row can be told from it, however many background      *)
(* tasks wait or are lost, unless the account was deleted before a single  *)
(* entry of it was in the log.                                             *)
THEOREM DecisionsTraceable == Spec => []DecisionsStayTraceable
<1>1. Init => TraceInv
  BY DEF Init, TraceInv
<1>2. TraceInv /\ [Next]_vars => TraceInv'
  BY StepKeepsTraceInv
<1>3. TraceInv => DecisionsStayTraceable
  BY DEF TraceInv, DecisionsStayTraceable
<1>4. QED
  BY <1>1, <1>2, <1>3, PTL DEF Spec

------------------------------------------------------------------------------
(* One-time codes.                                                         *)

Otp == [code : Nat, expires : Nat]
Flight == [op : {"idle", "reset", "change"}, otp : Otp]

CodeTypes ==
  /\ otp \in Otp
  /\ inflight \in [Request -> Flight]
  /\ now \in Nat
  /\ issued \in [count : Nat, at : Nat]
  /\ spent \subseteq 1..issued.count

(* The code of the account is the newest there is and has not been used.   *)
Newest == otp.code # 0 => otp.code = issued.count /\ otp.code \notin spent

(* A reset carries a code that was drawn.                                  *)
DrawnCodes == \A r \in Request : inflight[r].op = "reset" => inflight[r].otp.code \in 1..issued.count

CodeInv == CodeTypes /\ Newest /\ DrawnCodes

(* A reset in flight is the only one, and its code has not been used.      *)
OneReset ==
  \A r \in Request : inflight[r].op = "reset" =>
    /\ \A q \in Request : inflight[q].op = "reset" => q = r
    /\ inflight[r].otp.code \notin spent

(* What a step does to the requests: one of them becomes f.                *)
LEMMA FlightChanges ==
  ASSUME CodeTypes, NEW r \in Request, NEW f \in Flight,
         inflight' = [inflight EXCEPT ![r] = f]
  PROVE  /\ inflight' \in [Request -> Flight]
         /\ \A q \in Request : inflight'[q] = IF q = r THEN f ELSE inflight[q]
BY DEF CodeTypes

LEMMA Idles == /\ Idle \in Flight /\ Idle.op = "idle" /\ NoCode \in Otp /\ NoCode.code = 0
               /\ Idle.otp = NoCode
BY DEF Idle, Flight, NoCode, Otp

LEMMA BeginKeeps ==
  ASSUME CodeInv, NEW r \in Request, BeginChange(r) \/ \E c \in Code : BeginReset(r, c)
  PROVE  /\ CodeInv'
         /\ "reset" \notin Beside /\ OneReset => OneReset'
<1>1. UNCHANGED <<now, otp, issued, spent>>
  BY DEF BeginChange, BeginReset
<1>2. CASE BeginChange(r)
  <2> DEFINE f == [op |-> "change", otp |-> otp]
  <2>1. f \in Flight /\ f.op = "change" /\ inflight' = [inflight EXCEPT ![r] = f]
    BY <1>2 DEF BeginChange, Flight, CodeInv, CodeTypes
  <2> HIDE DEF f
  <2>2. /\ inflight' \in [Request -> Flight]
        /\ \A q \in Request : inflight'[q] = IF q = r THEN f ELSE inflight[q]
    BY <2>1, FlightChanges DEF CodeInv
  <2>3. QED
    BY <1>1, <2>1, <2>2 DEF CodeInv, CodeTypes, Newest, DrawnCodes, OneReset
<1>3. ASSUME NEW c \in Code, BeginReset(r, c)
      PROVE  /\ CodeInv'
             /\ "reset" \notin Beside /\ OneReset => OneReset'
  <2> DEFINE f == [op |-> "reset", otp |-> otp]
  <2>1. /\ f \in Flight /\ f.op = "reset" /\ f.otp = otp
        /\ inflight' = [inflight EXCEPT ![r] = f]
    BY <1>3 DEF BeginReset, Flight, CodeInv, CodeTypes
  <2> HIDE DEF f
  <2>2. /\ inflight' \in [Request -> Flight]
        /\ \A q \in Request : inflight'[q] = IF q = r THEN f ELSE inflight[q]
    BY <2>1, FlightChanges DEF CodeInv
  <2>3. otp.code = c /\ c \in 1..MaxCodes
    BY <1>3 DEF BeginReset, Valid, Code
  <2>4. otp.code # 0 /\ otp.code = issued.count /\ otp.code \in 1..issued.count
        /\ otp.code \notin spent
    BY <2>3, AccountsAssumption DEF CodeInv, CodeTypes, Newest, Otp
  <2>5. CodeInv'
    BY <1>1, <2>1, <2>2, <2>4 DEF CodeInv, CodeTypes, Newest, DrawnCodes
  <2>6. "reset" \notin Beside => \A q \in Request : inflight[q].op = "idle"
    BY <1>3 DEF BeginReset, May, InFlight, CodeInv, CodeTypes, Flight
  <2>7. QED
    BY <1>1, <2>1, <2>2, <2>4, <2>5, <2>6 DEF OneReset
<1>4. QED
  BY <1>2, <1>3

LEMMA CommitKeeps ==
  ASSUME CodeInv, NEW r \in Request, Commit(r)
  PROVE  CodeInv' /\ (OneReset => OneReset')
<1>1. inflight' = [inflight EXCEPT ![r] = Idle] /\ UNCHANGED <<now, issued>>
  BY DEF Commit
<1>2. /\ inflight' \in [Request -> Flight]
      /\ \A q \in Request : inflight'[q] = IF q = r THEN Idle ELSE inflight[q]
  BY <1>1, Idles, FlightChanges DEF CodeInv
<1>3. DrawnCodes'
  BY <1>1, <1>2, Idles DEF CodeInv, DrawnCodes
<1>4. CASE exists /\ inflight[r].op = "reset"
  <2>1. otp' = NoCode /\ spent' = spent \cup {inflight[r].otp.code}
    BY <1>4 DEF Commit, Written
  <2>2. inflight[r].otp.code \in 1..issued.count
    BY <1>4 DEF CodeInv, DrawnCodes
  <2>3. CodeTypes' /\ Newest'
    BY <1>1, <1>2, <2>1, <2>2, Idles DEF CodeInv, CodeTypes, Newest
  <2>4. OneReset => OneReset'
    BY <1>2, <1>4, Idles DEF OneReset
  <2>5. QED
    BY <1>3, <2>3, <2>4 DEF CodeInv
<1>5. CASE ~(exists /\ inflight[r].op = "reset")
  <2>1. otp' = otp /\ spent' = spent
    BY <1>5 DEF Commit, Written
  <2>2. CodeTypes' /\ Newest'
    BY <1>1, <1>2, <2>1 DEF CodeInv, CodeTypes, Newest
  <2>3. OneReset => OneReset'
    BY <1>2, <2>1, Idles DEF OneReset
  <2>4. QED
    BY <1>3, <2>2, <2>3 DEF CodeInv
<1>6. QED
  BY <1>4, <1>5

LEMMA ForgotKeeps ==
  ASSUME CodeInv, Forgot
  PROVE  CodeInv' /\ (OneReset => OneReset')
<1> DEFINE c == issued.count + 1
<1>1. /\ otp' = [code |-> c, expires |-> now + CodeLife]
      /\ issued' = [count |-> c, at |-> now]
      /\ UNCHANGED <<now, inflight, spent>>
  BY DEF Forgot
<1>2. /\ issued.count \in Nat /\ now \in Nat /\ CodeLife \in Nat
      /\ spent \subseteq 1..issued.count
  BY AccountsAssumption DEF CodeInv, CodeTypes
<1>3. CodeTypes'
  BY <1>1, <1>2 DEF CodeInv, CodeTypes, Otp
<1>4. Newest'
  BY <1>1, <1>2 DEF Newest
<1>5. DrawnCodes'
  BY <1>1, <1>2 DEF CodeInv, DrawnCodes
<1>6. OneReset => OneReset'
  BY <1>1 DEF OneReset
<1>7. QED
  BY <1>3, <1>4, <1>5, <1>6 DEF CodeInv

LEMMA DeleteKeeps ==
  ASSUME CodeInv, DeleteById \/ DeleteStandard
  PROVE  CodeInv' /\ (OneReset => OneReset')
<1>1. otp' = NoCode /\ UNCHANGED <<now, inflight, issued, spent>>
  BY DEF DeleteById, DeleteStandard, Removed
<1>2. QED
  BY <1>1, Idles DEF CodeInv, CodeTypes, Newest, DrawnCodes, OneReset

LEMMA StepKeepsCodeInv ==
  ASSUME CodeInv, [Next]_vars
  PROVE  /\ CodeInv'
         /\ "reset" \notin Beside /\ OneReset => OneReset'
<1>1. CASE UNCHANGED <<now, otp, inflight, issued, spent>>
  BY <1>1 DEF CodeInv, CodeTypes, Newest, DrawnCodes, OneReset
<1>2. CASE Login \/ StudentLogin \/ Decide \/ Superseded \/ Apply
  BY <1>1, <1>2, Zenon DEF Login, StudentLogin, Decide, Superseded, Apply, reset
<1>3. ASSUME NEW t \in Entry, Log(t) \/ LoseEntry(t)
      PROVE  UNCHANGED <<now, otp, inflight, issued, spent>>
  BY <1>3, Zenon DEF Log, LoseEntry, reset
<1>4. ASSUME NEW c \in Code, Send(c) \/ LoseMail(c)
      PROVE  UNCHANGED <<now, otp, inflight, issued, spent>>
  BY <1>4, Zenon DEF Send, LoseMail
<1>5. CASE Forgot
  BY <1>5, ForgotKeeps
<1>6. ASSUME NEW r \in Request, BeginChange(r) \/ \E c \in Code : BeginReset(r, c)
      PROVE  /\ CodeInv'
             /\ "reset" \notin Beside /\ OneReset => OneReset'
  BY <1>6, BeginKeeps
<1>7. ASSUME NEW r \in Request, Commit(r)
      PROVE  CodeInv' /\ (OneReset => OneReset')
  BY <1>7, CommitKeeps
<1>8. CASE Tick
  <2>1. now' = now + 1 /\ UNCHANGED <<otp, inflight, issued, spent>>
    BY <1>8 DEF Tick, reset
  <2>2. QED
    BY <2>1 DEF CodeInv, CodeTypes, Newest, DrawnCodes, OneReset
<1>9. CASE DeleteById \/ DeleteStandard
  BY <1>9, DeleteKeeps
<1>10. CASE UNCHANGED vars
  BY <1>1, <1>10, Zenon DEF vars, reset
<1>11. QED
  BY <1>1, <1>2, <1>3, <1>4, <1>5, <1>6, <1>7, <1>8, <1>9, <1>10 DEF Next

LEMMA InitCodeInv == Init => CodeInv /\ OneReset
BY Idles DEF Init, CodeInv, CodeTypes, Newest, DrawnCodes, OneReset

(* A code changes the password once, whatever changes of the password,     *)
(* new codes and deletions come between the check and the commit of its    *)
(* reset, if no second reset does.                                         *)
THEOREM CodesWorkOnce ==
  ASSUME "reset" \notin Beside
  PROVE  Spec => CodesAreSingleUse
<1> DEFINE Once == \A r \in Request :
             Commit(r) /\ exists /\ inflight[r].op = "reset" => inflight[r].otp.code \notin spent
<1>1. OneReset => [Once]_vars
  BY DEF OneReset
<1>2. Init => CodeInv /\ OneReset
  BY InitCodeInv
<1>3. CodeInv /\ OneReset /\ [Next]_vars => (CodeInv /\ OneReset)'
  BY StepKeepsCodeInv
<1>4. QED
  BY <1>1, <1>2, <1>3, PTL DEF Spec, CodesAreSingleUse

(* The steps that write the code.                                          *)
LEMMA WhoTakesTheCode ==
  ASSUME CodeInv, Next, otp # NoCode, otp'.code # otp.code
  PROVE  \/ otp.code \in spent'
         \/ issued'.count > issued.count
         \/ ~exists'
         \/ \E r \in Request : LateReset(r)
<1>1. otp' # otp
  OBVIOUS
<1>2. ~(Login \/ StudentLogin \/ Decide \/ Superseded \/ Apply \/ Tick)
  BY <1>1, Zenon DEF Login, StudentLogin, Decide, Superseded, Apply, Tick, reset
<1>3. \A t \in Entry : ~(Log(t) \/ LoseEntry(t))
  BY <1>1, Zenon DEF Log, LoseEntry, reset
<1>4. \A c \in Code : ~(Send(c) \/ LoseMail(c))
  BY <1>1, Zenon DEF Send, LoseMail
<1>5. \A r \in Request : ~(BeginChange(r) \/ \E c \in Code : BeginReset(r, c))
  BY <1>1, Zenon DEF BeginChange, BeginReset
<1>6. CASE Forgot
  <2>1. issued'.count = issued.count + 1 /\ issued.count \in Nat
    BY <1>6 DEF Forgot, CodeInv, CodeTypes
  <2>2. QED
    BY <2>1
<1>7. CASE DeleteById \/ DeleteStandard
  BY <1>7 DEF DeleteById, DeleteStandard, Removed
<1>8. ASSUME NEW r \in Request, Commit(r)
      PROVE  otp.code \in spent' \/ LateReset(r)
  <2>1. exists /\ inflight[r].op = "reset"
    BY <1>1, <1>8 DEF Commit, Written
  <2>2. otp' = NoCode /\ spent' = spent \cup {inflight[r].otp.code}
    BY <1>8, <2>1 DEF Commit, Written
  <2>3. otp.code # 0
    BY <2>2, Idles
  <2>4. inflight[r].otp.code \in 1..issued.count /\ otp.code = issued.count /\ issued.count \in Nat
    BY <2>1, <2>3 DEF CodeInv, CodeTypes, Newest, DrawnCodes
  <2>5. QED
    BY <1>8, <2>1, <2>2, <2>4 DEF LateReset
<1>9. QED
  BY <1>2, <1>3, <1>4, <1>5, <1>6, <1>7, <1>8 DEF Next

(* Whatever runs beside whatever: a code is taken away by its own reset,   *)
(* by a newer code, by a reset with an older one that commits late, or     *)
(* with the account.                                                       *)
THEOREM FreshCodesStay == Spec => FreshCodesSurvive
<1> DEFINE Stays == otp # NoCode /\ otp'.code # otp.code =>
             \/ otp.code \in spent'
             \/ issued'.count > issued.count
             \/ ~exists'
             \/ \E r \in Request : LateReset(r)
<1>1. CodeInv /\ [Next]_vars => [Stays]_vars
  BY WhoTakesTheCode
<1>2. Init => CodeInv
  BY InitCodeInv
<1>3. CodeInv /\ [Next]_vars => CodeInv'
  BY StepKeepsCodeInv
<1>4. QED
  BY <1>1, <1>2, <1>3, PTL DEF Spec, FreshCodesSurvive
==============================================================================
