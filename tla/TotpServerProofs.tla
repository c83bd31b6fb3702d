---------------------------- MODULE TotpServerProofs ----------------------------
(* For any number of requests, subjects and keys: whose secret a PIN is made from,  *)
(* what the rows hold, what the audit trail says and who has paid.                  *)
EXTENDS TotpServer, TLAPS

(* The inductive invariant *)

Unlimited == {"new", "auth", "limit"}
Handling == {"request", "touch", "provision", "upsert"}

\* Where a request is tells how far its record is filled in.
PlaceMatchesRecord(r) ==
  /\ req[r].pc \in {"new", "auth"} => req[r].caller = None
  /\ req[r].pc \in Unlimited => charged[r] = None
  /\ req[r].pc \in Unlimited \cup {"request", "provision"} => req[r].held = None
  /\ req[r].pc \in Unlimited \cup {"request", "provision", "touch"} => req[r].target = None
  /\ req[r].pc \in {"auth", "limit"} => req[r].path \in {"request", "provision"}
  /\ req[r].pc \in {"request", "touch"} => req[r].path = "request"
  /\ req[r].pc \in {"provision", "upsert"} => req[r].path = "provision"
  /\ req[r].pc \in Handling \cup {"limit"} => req[r].caller \in Subjects
  /\ req[r].pc \in Handling => charged[r] = req[r].caller
  /\ req[r].pc = "touch" => req[r].held # None
  /\ req[r].pc = "upsert" => req[r].caller \in Admins /\ req[r].target \in Subjects
  /\ req[r].pc \in Unlimited \cup Handling => req[r].status = None

\* What a request has in hand, wherever it is by now, it came by in the right way.
HandsAreClean(r) ==
  /\ req[r].held # None => req[r].caller \in Subjects /\ charged[r] = req[r].caller
  /\ req[r].target # None => /\ req[r].caller \in Admins
                             /\ req[r].path = "provision"
                             /\ charged[r] = req[r].caller
  /\ req[r].status = 200 /\ req[r].path = "provision" => req[r].target \in Subjects

\* The books of a request: what it has paid, and the part of PaidFor that is its own.
Paid(r) ==
  /\ charged[r] \in {None, req[r].caller}
  /\ req[r].held # None \/ AnsweredByHandler(r) => charged[r] # None
  /\ req[r].status # None /\ ~AnsweredByHandler(r) => charged[r] = None

\* A row is written for an answer that is ready, and is the one the answer calls for.
Audited(r) ==
  /\ req[r].status = None => log[r] = None
  /\ req[r].pc = "log" => req[r].entry = ExpectedEntry(r) /\ log[r] = None
  /\ req[r].pc \in {"reply", "done"} /\ r \notin lost => log[r] = ExpectedEntry(r)
  /\ log[r] \in {None, ExpectedEntry(r)}

\* The history misses nothing: the caller's present secret is among those seen, and so is
\* what the PIN was made from, and the gap that a 404 speaks of.
HistoryIsComplete(r) ==
  /\ r \in InProgress /\ req[r].caller \in Subjects => Stored(req[r].caller) \in seen[r]
  /\ req[r].path = "request" /\ req[r].held # None => req[r].held \in seen[r]
  /\ req[r].status = 404 => None \in seen[r]

RequestSound(r) == /\ PlaceMatchesRecord(r)
                   /\ HandsAreClean(r)
                   /\ Paid(r)
                   /\ Audited(r)
                   /\ HistoryIsComplete(r)

ServerInv == /\ TypeOK
             /\ \A r \in Requests : RequestSound(r)
             /\ PinOfOwnSecret
             /\ RowsAreProvisioned
             /\ LastUsedIsRecent
             /\ AnsweredSecretIsStored

---------------------------------------------------------------------------------
(* Records *)

\* None is nobody, no secret and no status.
LEMMA NoneIsNothing ==
  /\ None \notin Subjects /\ None \notin Requests /\ None \notin Secrets /\ None \notin Statuses
  /\ None \notin {200, 401, 403, 404, 422, 429, 500, 503}
  /\ Admins \subseteq Subjects /\ Requests \subseteq Secrets /\ Earlier \notin Requests
BY ServerAssumption DEF Secrets, Statuses

\* Who calls, what for, with whom in mind, with what in hand and with which answer: once a
\* request's record says so, it goes on saying so.
TakesNothingBack(q) ==
  /\ req[q].caller # None => /\ req'[q].caller = req[q].caller
                             /\ req'[q].path = req[q].path
                             /\ seen[q] \subseteq seen'[q]
  /\ req[q].target # None => req'[q].target = req[q].target
  /\ req[q].held # None => req'[q].held = req[q].held
  /\ charged[q] # None => charged'[q] = charged[q]

\* A step of request r alone: the other records, and the secrets in the rows, stay.
OwnStep(r) ==
  /\ \A q \in Requests \ {r} : /\ req'[q] = req[q]
                               /\ log'[q] = log[q]
                               /\ charged'[q] = charged[q]
                               /\ seen'[q] = seen[q]
                               /\ q \in lost' <=> q \in lost
  /\ stored' = stored
  /\ \A s \in Subjects : row'[s].sealed = row[s].sealed

\* What is left to show of a step of one request: that it leaves its own record sound, takes
\* nothing back, holds a secret only from its caller's row or its own, marks a row only
\* as a PIN request does, and does not claim to have registered anything.
LEMMA OwnStepKeepsInv ==
  ASSUME ServerInv, NEW r \in Requests, OwnStep(r), TypeOK',
         RequestSound(r)', TakesNothingBack(r),
         req'[r].path = "request" /\ req'[r].held # None =>
           \/ req'[r].held = req[r].held
           \/ req[r].caller \in Subjects /\ req'[r].held = Stored(req[r].caller),
         \A s \in Subjects : row'[s].used => row[s].used \/ (req[r].pc = "touch" /\ s = req[r].caller),
         req'[r].status = 200 /\ req'[r].path = "provision" =>
           req[r].status = 200 /\ req[r].path = "provision" /\ req[r].target = req'[r].target
  PROVE  ServerInv'
<1>1. TypeOK /\ \A q \in Requests : RequestSound(q)
  BY DEF ServerInv
<1>2. \A q \in Requests : TakesNothingBack(q)
  BY DEF OwnStep, TakesNothingBack
<1>3. \A s \in Subjects : Stored(s)' = Stored(s)
  BY DEF OwnStep, Stored
<1>4. \A q \in Requests : RequestSound(q)'
  <2> SUFFICES ASSUME NEW q \in Requests, q # r PROVE RequestSound(q)'
    OBVIOUS
  <2>1. /\ req'[q] = req[q] /\ log'[q] = log[q] /\ charged'[q] = charged[q] /\ seen'[q] = seen[q]
        /\ q \in lost' <=> q \in lost
    BY DEF OwnStep
  <2>2. PlaceMatchesRecord(q)' /\ HandsAreClean(q)' /\ Paid(q)'
    BY <1>1, <2>1 DEF RequestSound, PlaceMatchesRecord, HandsAreClean, Paid, AnsweredByHandler
  <2>3. ExpectedEntry(q)' = ExpectedEntry(q)
    BY <2>1 DEF ExpectedEntry
  <2>4. Audited(q)'
    BY <1>1, <2>1, <2>3 DEF RequestSound, Audited
  <2>5. HistoryIsComplete(q)'
    BY <1>1, <1>3, <2>1 DEF RequestSound, HistoryIsComplete, InProgress
  <2> QED BY <2>2, <2>4, <2>5 DEF RequestSound
<1>5. RowsAreProvisioned'
  <2> SUFFICES ASSUME NEW s \in Subjects, Stored(s)' \in Requests
               PROVE  /\ req'[Stored(s)'].caller \in Admins
                      /\ req'[Stored(s)'].target = s
                      /\ charged'[Stored(s)'] = req'[Stored(s)'].caller
    BY DEF RowsAreProvisioned
  <2> DEFINE q == Stored(s)
  <2>1. q \in Requests /\ q = Stored(s)' /\ req[q].caller \in Admins /\ req[q].target = s /\ charged[q] = req[q].caller
    BY <1>3 DEF ServerInv, RowsAreProvisioned
  <2> HIDE DEF q
  <2> QED BY <1>2, <2>1, NoneIsNothing DEF TakesNothingBack
<1>6. PinOfOwnSecret'
  <2> SUFFICES ASSUME NEW q \in Requests, req'[q].path = "request", req'[q].held # None
               PROVE  /\ req'[q].held \in seen'[q]
                      /\ req'[q].held \in Requests => req'[req'[q].held].target = req'[q].caller
    BY DEF PinOfOwnSecret
  <2> DEFINE h == req'[q].held
  <2>1. h \in seen'[q] /\ req'[q].caller \in Subjects
    BY <1>4 DEF RequestSound, HistoryIsComplete, HandsAreClean
  <2>2. h \in Requests => req[h].target = req'[q].caller
    <3>1. CASE q # r \/ h = req[q].held
      <4>1. req[q].held = h /\ req[q].caller = req'[q].caller /\ req[q].path = "request"
        <5>1. CASE q # r
          BY <5>1 DEF OwnStep
        <5>2. CASE q = r /\ h = req[q].held
          BY <1>1, <5>2, NoneIsNothing DEF RequestSound, HandsAreClean, TakesNothingBack
        <5> QED BY <3>1, <5>1, <5>2
      <4> QED BY <4>1 DEF ServerInv, PinOfOwnSecret
    <3>2. CASE q = r /\ req[r].caller \in Subjects /\ h = Stored(req[r].caller) /\ h \in Requests
      BY <3>2, NoneIsNothing DEF ServerInv, RowsAreProvisioned, TakesNothingBack
    <3> QED BY <3>1, <3>2
  <2>3. h \in Requests => req'[h].target = req[h].target
    BY <1>2, <2>1, <2>2, NoneIsNothing DEF TakesNothingBack
  <2> QED BY <2>1, <2>2, <2>3
<1>7. LastUsedIsRecent'
  <2> SUFFICES ASSUME NEW s \in Subjects, row'[s].used
               PROVE  \E q \in Requests : /\ req'[q].caller = s
                                          /\ req'[q].path = "request"
                                          /\ req'[q].held # None
                                          /\ Stored(s)' \in seen'[q]
    BY DEF LastUsedIsRecent
  <2>1. PICK q \in Requests : /\ req[q].caller = s
                              /\ req[q].path = "request"
                              /\ req[q].held # None
                              /\ Stored(s) \in seen[q]
    <3>1. CASE row[s].used
      BY <3>1 DEF ServerInv, LastUsedIsRecent
    <3>2. CASE req[r].pc = "touch" /\ s = req[r].caller
      BY <1>1, <3>2 DEF RequestSound, PlaceMatchesRecord, HistoryIsComplete, InProgress
    <3> QED BY <3>1, <3>2
  <2> QED BY <1>2, <1>3, <2>1, NoneIsNothing DEF TakesNothingBack
<1>8. AnsweredSecretIsStored'
  <2> SUFFICES ASSUME NEW p \in Requests, req'[p].status = 200, req'[p].path = "provision"
               PROVE  /\ p \in stored'[p]
                      /\ row'[req'[p].target].sealed.secret \in stored'[p]
    BY DEF AnsweredSecretIsStored, Stored
  <2>1. req[p].status = 200 /\ req[p].path = "provision" /\ req[p].target = req'[p].target
    BY DEF OwnStep
  <2>2. req[p].target \in Subjects
    BY <1>1, <2>1 DEF RequestSound, HandsAreClean
  <2>3. p \in stored[p] /\ Stored(req[p].target) \in stored[p]
    BY <2>1 DEF ServerInv, AnsweredSecretIsStored
  <2> QED BY <1>3, <2>1, <2>2, <2>3 DEF Stored, OwnStep
<1> QED BY <1>4, <1>5, <1>6, <1>7, <1>8 DEF ServerInv

---------------------------------------------------------------------------------
(* The answer is ready *)

\* Everything but the record of the request and the marks on rows stays.
OnlyMarks(r) ==
  /\ UNCHANGED <<tokens, key, log, lost, seen, stored, charged>>
  /\ row' = row \/ (req[r].pc = "touch" /\ SetLastUsed(r))

\* A step that stores no secret may still mark a row as used, and only the caller's own, at the touch.
LEMMA MarksKeepTypes ==
  ASSUME TypeOK, NEW r \in Requests, OnlyMarks(r), req' \in [Requests -> Records]
  PROVE  /\ TypeOK'
         /\ \A s \in Subjects : row'[s].sealed = row[s].sealed
         /\ \A s \in Subjects : row'[s].used => row[s].used \/ (req[r].pc = "touch" /\ s = req[r].caller)
<1>1. CASE row' = row
  BY <1>1 DEF OnlyMarks, TypeOK
<1>2. CASE req[r].pc = "touch" /\ SetLastUsed(r)
  <2>1. row' = [row EXCEPT ![req[r].caller] = [@ EXCEPT !.used = (Stored(req[r].caller) # None)]]
    BY <1>2 DEF SetLastUsed
  <2> DEFINE mark == (Stored(req[r].caller) # None)
  <2>2. mark \in BOOLEAN /\ row' = [row EXCEPT ![req[r].caller] = [@ EXCEPT !.used = mark]]
    BY <2>1
  <2> HIDE DEF mark
  <2> QED BY <1>2, <2>2 DEF OnlyMarks, TypeOK
<1> QED BY <1>1, <1>2 DEF OnlyMarks

\* What an answer without a row in the log does to the request's record.
LEMMA RespondRecord ==
  ASSUME TypeOK, NEW r \in Requests, NEW status \in Statuses, Respond(r, status)
  PROVE  /\ req' \in [Requests -> Records]
         /\ \A q \in Requests \ {r} : req'[q] = req[q]
         /\ req'[r].pc = "reply" /\ req'[r].status = status
         /\ req'[r].path = req[r].path /\ req'[r].caller = req[r].caller
         /\ req'[r].target = req[r].target /\ req'[r].held = req[r].held
<1> DEFINE new == [req[r] EXCEPT !.pc = "reply", !.status = status]
<1>1. req \in [Requests -> Records] /\ req' = [req EXCEPT ![r] = new]
  BY DEF TypeOK, Respond
<1>2. /\ new \in Records /\ new.pc = "reply" /\ new.status = status /\ new.path = req[r].path
      /\ new.caller = req[r].caller /\ new.target = req[r].target /\ new.held = req[r].held
  BY <1>1 DEF Records, Places
<1> HIDE DEF new
<1> QED BY <1>1, <1>2

\* Such an answer keeps the invariant, from any place where the code gives one.
LEMMA RespondKeepsInv ==
  ASSUME ServerInv, NEW r \in Requests, NEW status \in {403, 422, 500, 503},
         req[r].pc \in Handling \cup {"auth"}, Respond(r, status), OnlyMarks(r),
         IF status = 503 THEN req[r].pc = "auth" ELSE req[r].pc # "auth"
  PROVE  ServerInv'
<1> USE NoneIsNothing
<1>1. TypeOK /\ RequestSound(r) /\ status \in Statuses /\ req[r] \in Records
  BY DEF ServerInv, Statuses, TypeOK
<1>2. /\ req' \in [Requests -> Records]
      /\ \A q \in Requests \ {r} : req'[q] = req[q]
  BY <1>1, RespondRecord
<1>3. /\ req'[r].pc = "reply" /\ req'[r].status = status /\ req'[r].path = req[r].path
      /\ req'[r].caller = req[r].caller /\ req'[r].target = req[r].target /\ req'[r].held = req[r].held
  BY <1>1, RespondRecord
<1>4. /\ TypeOK'
      /\ \A s \in Subjects : row'[s].sealed = row[s].sealed
      /\ \A s \in Subjects : row'[s].used => row[s].used \/ (req[r].pc = "touch" /\ s = req[r].caller)
  BY <1>1, <1>2, MarksKeepTypes
<1>5. UNCHANGED <<log, lost, seen, stored, charged>>
  BY DEF OnlyMarks
<1>6. OwnStep(r) /\ TakesNothingBack(r)
  BY <1>2, <1>3, <1>4, <1>5 DEF OwnStep, TakesNothingBack
<1>7. PlaceMatchesRecord(r)' /\ HandsAreClean(r)' /\ Paid(r)'
  BY <1>1, <1>3, <1>5 DEF RequestSound, PlaceMatchesRecord, HandsAreClean, Paid, AnsweredByHandler, Unlimited, Handling
<1>8. Audited(r)'
  <2>1. ExpectedEntry(r)' = None
    BY <1>1, <1>3 DEF ExpectedEntry, RequestSound, PlaceMatchesRecord, Handling, Unlimited
  <2> QED BY <1>1, <1>3, <1>5, <2>1 DEF RequestSound, Audited, PlaceMatchesRecord, Unlimited, Handling
<1>9. HistoryIsComplete(r)'
  BY <1>1, <1>3, <1>4, <1>5 DEF RequestSound, HistoryIsComplete, InProgress, Stored, Handling
<1> QED BY <1>3, <1>4, <1>6, <1>7, <1>8, <1>9, OwnStepKeepsInv DEF RequestSound

\* What an answer that is logged first does to the request's record.
LEMMA AuditRecord ==
  ASSUME TypeOK, NEW r \in Requests, NEW status \in Statuses, NEW entry \in Entries,
         Audit(r, status, entry)
  PROVE  /\ req' \in [Requests -> Records]
         /\ \A q \in Requests \ {r} : req'[q] = req[q]
         /\ req'[r].pc = "log" /\ req'[r].status = status /\ req'[r].entry = entry
         /\ req'[r].path = req[r].path /\ req'[r].caller = req[r].caller
         /\ req'[r].target = req[r].target /\ req'[r].held = req[r].held
<1> DEFINE new == [req[r] EXCEPT !.pc = "log", !.status = status, !.entry = entry]
<1>1. req \in [Requests -> Records] /\ req' = [req EXCEPT ![r] = new]
  BY DEF TypeOK, Audit
<1>2. /\ new \in Records /\ new.pc = "log" /\ new.status = status /\ new.entry = entry
      /\ new.path = req[r].path /\ new.caller = req[r].caller /\ new.target = req[r].target
      /\ new.held = req[r].held
  BY <1>1 DEF Records, Places
<1> HIDE DEF new
<1> QED BY <1>1, <1>2

\* An answer that calls for a row, on any way but that of a provisioning.
LEMMA AuditKeepsInv ==
  ASSUME ServerInv, NEW r \in Requests, NEW status \in {200, 401, 403, 404, 429}, NEW entry \in Entries,
         req[r].pc \in Unlimited \cup {"request", "touch"}, Audit(r, status, entry), OnlyMarks(r),
         entry = ExpectedEntry(r)',
         status \in {200, 404} => charged[r] # None,
         status \in {401, 403, 429} => charged[r] = None,
         status = 403 => req[r].caller = None,
         status = 404 => None \in seen[r],
         status = 200 => req[r].path = "request"
  PROVE  ServerInv'
<1> USE NoneIsNothing
<1>1. TypeOK /\ RequestSound(r) /\ status \in Statuses
  BY DEF ServerInv, Statuses
<1>2. /\ req' \in [Requests -> Records]
      /\ \A q \in Requests \ {r} : req'[q] = req[q]
  BY <1>1, AuditRecord
<1>3. /\ req'[r].pc = "log" /\ req'[r].status = status /\ req'[r].entry = entry
      /\ req'[r].path = req[r].path /\ req'[r].caller = req[r].caller
      /\ req'[r].target = req[r].target /\ req'[r].held = req[r].held
  BY <1>1, AuditRecord
<1>4. /\ TypeOK'
      /\ \A s \in Subjects : row'[s].sealed = row[s].sealed
      /\ \A s \in Subjects : row'[s].used => row[s].used \/ (req[r].pc = "touch" /\ s = req[r].caller)
  BY <1>1, <1>2, MarksKeepTypes
<1>5. UNCHANGED <<log, lost, seen, stored, charged>>
  BY DEF OnlyMarks
<1>6. OwnStep(r) /\ TakesNothingBack(r)
  BY <1>2, <1>3, <1>4, <1>5 DEF OwnStep, TakesNothingBack
<1>7. PlaceMatchesRecord(r)' /\ HandsAreClean(r)' /\ Paid(r)'
  BY <1>1, <1>3, <1>5 DEF RequestSound, PlaceMatchesRecord, HandsAreClean, Paid, AnsweredByHandler, Unlimited, Handling
<1>8. Audited(r)'
  BY <1>1, <1>3, <1>5 DEF RequestSound, Audited, PlaceMatchesRecord, Unlimited, Handling
<1>9. HistoryIsComplete(r)'
  BY <1>1, <1>3, <1>4, <1>5 DEF RequestSound, PlaceMatchesRecord, HistoryIsComplete, InProgress, Stored, Unlimited
<1> QED BY <1>3, <1>4, <1>6, <1>7, <1>8, <1>9, OwnStepKeepsInv DEF RequestSound

---------------------------------------------------------------------------------
(* The steps of a request, one by one *)

\* A missing header, a denied token and a silent Keycloak.
LEMMA RefusedAtTheDoorKeepsInv ==
  ASSUME ServerInv, NEW r \in Requests,
         ArriveWithoutToken(r) \/ TokenDenied(r) \/ KeycloakUnavailable(r)
  PROVE  ServerInv'
<1> USE NoneIsNothing
<1>1. TypeOK /\ RequestSound(r)
  BY DEF ServerInv
<1>2. /\ OnlyMarks(r) /\ req[r].pc \in {"new", "auth"}
      /\ KeycloakUnavailable(r) => Respond(r, 503) /\ req[r].pc = "auth"
  BY DEF ArriveWithoutToken, TokenDenied, KeycloakUnavailable, OnlyMarks, serverVars, databaseVars, historyVars
<1>3. CASE KeycloakUnavailable(r)
  BY <1>2, <1>3, RespondKeepsInv
<1>4. CASE ArriveWithoutToken(r) \/ TokenDenied(r)
  <2>1. PICK status \in {401, 403} : Audit(r, status, Entry(None, "denied_inactive_token"))
    BY <1>4 DEF ArriveWithoutToken, TokenDenied, DenialStatuses
  <2>2. /\ Entry(None, "denied_inactive_token") \in Entries
        /\ status \in Statuses
        /\ req[r].caller = None /\ charged[r] = None
    BY <1>1, <1>2 DEF Entry, Entries, Statuses, RequestSound, PlaceMatchesRecord, Unlimited
  <2>3. ExpectedEntry(r)' = Entry(None, "denied_inactive_token")
    <3>1. req'[r].status = status /\ req'[r].caller = None
      BY <1>1, <2>1, <2>2, AuditRecord
    <3> QED BY <3>1 DEF ExpectedEntry
  <2> QED BY <1>2, <2>1, <2>2, <2>3, AuditKeepsInv DEF Unlimited
<1> QED BY <1>3, <1>4

\* The limiter refuses, and the audit layer writes it down.
LEMMA TooManyRequestsKeepsInv ==
  ASSUME ServerInv, NEW r \in Requests, TooManyRequests(r)
  PROVE  ServerInv'
<1> USE NoneIsNothing
<1>1. TypeOK /\ RequestSound(r) /\ OnlyMarks(r) /\ req[r].pc = "limit"
  BY DEF ServerInv, TooManyRequests, OnlyMarks, serverVars, databaseVars, historyVars
<1> DEFINE entry == Entry(req[r].caller, "rate_limited")
<1>2. /\ Audit(r, 429, entry) /\ entry \in Entries /\ 429 \in Statuses
      /\ req[r].caller \in Subjects /\ charged[r] = None
  BY <1>1 DEF TooManyRequests, Entry, Entries, Statuses, RequestSound, PlaceMatchesRecord, Unlimited
<1>3. ExpectedEntry(r)' = entry
  <2>1. req'[r].status = 429 /\ req'[r].caller = req[r].caller
    BY <1>1, <1>2, AuditRecord
  <2> QED BY <2>1 DEF ExpectedEntry
<1> HIDE DEF entry
<1> QED BY <1>1, <1>2, <1>3, AuditKeepsInv DEF Unlimited

\* A PIN request of somebody without a secret.
LEMMA NoSecretKeepsInv ==
  ASSUME ServerInv, NEW r \in Requests, NoSecret(r)
  PROVE  ServerInv'
<1> USE NoneIsNothing
<1>1. TypeOK /\ RequestSound(r) /\ OnlyMarks(r) /\ req[r].pc = "request"
  BY DEF ServerInv, NoSecret, OnlyMarks, serverVars, databaseVars, historyVars
<1> DEFINE entry == Entry(req[r].caller, "denied_no_secret")
<1>2. /\ Audit(r, 404, entry) /\ entry \in Entries /\ 404 \in Statuses
      /\ req[r].caller \in Subjects /\ charged[r] # None
  BY <1>1 DEF NoSecret, Entry, Entries, Statuses, RequestSound, PlaceMatchesRecord, Handling
<1>3. None \in seen[r]
  BY <1>1, <1>2 DEF NoSecret, Unregistered, RequestSound, HistoryIsComplete, InProgress
<1>4. ExpectedEntry(r)' = entry
  <2>1. req'[r].status = 404 /\ req'[r].caller = req[r].caller
    BY <1>1, <1>2, AuditRecord
  <2> QED BY <2>1 DEF ExpectedEntry
<1> HIDE DEF entry
<1> QED BY <1>1, <1>2, <1>3, <1>4, AuditKeepsInv

\* The row of the secret just used is marked.
LEMMA TouchKeepsInv ==
  ASSUME ServerInv, NEW r \in Requests, Touch(r)
  PROVE  ServerInv'
<1> USE NoneIsNothing
<1>1. TypeOK /\ RequestSound(r) /\ OnlyMarks(r) /\ req[r].pc = "touch"
  BY DEF ServerInv, Touch, OnlyMarks, serverVars, historyVars
<1> DEFINE entry == Entry(req[r].caller, "issued")
<1>2. /\ Audit(r, 200, entry) /\ entry \in Entries /\ 200 \in Statuses
      /\ req[r].caller \in Subjects /\ charged[r] # None /\ req[r].path = "request"
  BY <1>1 DEF Touch, Issued, Entry, Entries, Statuses, RequestSound, PlaceMatchesRecord, Handling
<1>3. ExpectedEntry(r)' = entry
  <2>1. req'[r].status = 200 /\ req'[r].caller = req[r].caller /\ req'[r].path = "request"
    BY <1>1, <1>2, AuditRecord
  <2> QED BY <2>1 DEF ExpectedEntry
<1> HIDE DEF entry
<1> QED BY <1>1, <1>2, <1>3, AuditKeepsInv

\* A database call or the role fails the request.
LEMMA FailureKeepsInv ==
  ASSUME ServerInv, NEW r \in Requests, GetFails(r) \/ TouchFails(r) \/ RefuseProvision(r)
  PROVE  ServerInv'
<1>1. /\ OnlyMarks(r) /\ req[r].pc \in Handling
      /\ \E status \in {403, 422, 500} : Respond(r, status)
  BY DEF GetFails, TouchFails, RefuseProvision, OnlyMarks, serverVars, databaseVars, historyVars, Handling
<1> QED BY <1>1, RespondKeepsInv DEF Handling

\* A request comes in with a token.
LEMMA ArriveWithTokenKeepsInv ==
  ASSUME ServerInv, NEW r \in Requests, ArriveWithToken(r)
  PROVE  ServerInv'
<1>0. req[r] \in Records
  BY DEF ServerInv, TypeOK
<1>1. /\ TypeOK /\ RequestSound(r) /\ req[r].pc = "new" /\ req \in [Requests -> Records]
      /\ UNCHANGED <<tokens, key, row, log, lost, seen, stored, charged>>
  BY DEF ServerInv, TypeOK, ArriveWithToken, serverVars, databaseVars, historyVars
<1>2. PICK path \in {"request", "provision"} : req' = [req EXCEPT ![r] = [@ EXCEPT !.pc = "auth", !.path = path]]
  BY DEF ArriveWithToken
<1> DEFINE new == [req[r] EXCEPT !.pc = "auth", !.path = path]
<1>3. /\ new \in Records /\ new.pc = "auth" /\ new.path = path /\ new.caller = req[r].caller
      /\ new.target = req[r].target /\ new.held = req[r].held /\ new.status = req[r].status
  BY <1>0 DEF Records, Places
<1>4. req' = [req EXCEPT ![r] = new]
  BY <1>2
<1> HIDE DEF new
<1> USE NoneIsNothing
<1>5. TypeOK' /\ OwnStep(r) /\ TakesNothingBack(r)
  BY <1>1, <1>3, <1>4 DEF TypeOK, OwnStep, TakesNothingBack, RequestSound, PlaceMatchesRecord
<1>6. PlaceMatchesRecord(r)' /\ HandsAreClean(r)' /\ Paid(r)' /\ HistoryIsComplete(r)'
  BY <1>1, <1>3, <1>4 DEF RequestSound, PlaceMatchesRecord, HandsAreClean, Paid, AnsweredByHandler, HistoryIsComplete,
                          Unlimited, Handling
<1>7. Audited(r)'
  BY <1>1, <1>3, <1>4 DEF RequestSound, Audited, PlaceMatchesRecord, Unlimited
<1> QED BY <1>1, <1>3, <1>4, <1>5, <1>6, <1>7, OwnStepKeepsInv
    DEF RequestSound, PlaceMatchesRecord, Unlimited

\* Introspection named the caller: from here on the request watches what its caller's row holds.
LEMMA AuthenticatedKeepsInv ==
  ASSUME ServerInv, NEW r \in Requests, Authenticated(r)
  PROVE  ServerInv'
<1>0. req[r] \in Records
  BY DEF ServerInv, TypeOK
<1>1. /\ TypeOK /\ RequestSound(r) /\ req[r].pc = "auth" /\ req \in [Requests -> Records]
      /\ UNCHANGED <<tokens, key, row, log, lost, stored, charged>>
  BY DEF ServerInv, TypeOK, Authenticated, serverVars, databaseVars
<1>2. PICK s \in Subjects : /\ req' = [req EXCEPT ![r] = [@ EXCEPT !.pc = "limit", !.caller = s]]
                            /\ seen' = [seen EXCEPT ![r] = {Stored(s)}]
  BY DEF Authenticated
<1> DEFINE new == [req[r] EXCEPT !.pc = "limit", !.caller = s]
<1>3. /\ new \in Records /\ new.pc = "limit" /\ new.path = req[r].path /\ new.caller = s
      /\ new.target = req[r].target /\ new.held = req[r].held /\ new.status = req[r].status
  BY <1>0 DEF Records, Places
<1>4. req' = [req EXCEPT ![r] = new]
  BY <1>2
<1> HIDE DEF new
<1> USE NoneIsNothing
<1>5. Stored(s) \in Secrets \cup {None} /\ Stored(s)' = Stored(s)
  BY <1>1 DEF Stored, TypeOK
<1>6. TypeOK' /\ OwnStep(r) /\ TakesNothingBack(r)
  BY <1>1, <1>2, <1>3, <1>4, <1>5 DEF TypeOK, OwnStep, TakesNothingBack, RequestSound, PlaceMatchesRecord
<1>7. PlaceMatchesRecord(r)' /\ HandsAreClean(r)' /\ Paid(r)'
  BY <1>1, <1>3, <1>4 DEF RequestSound, PlaceMatchesRecord, HandsAreClean, Paid, AnsweredByHandler, Unlimited, Handling
<1>8. HistoryIsComplete(r)'
  BY <1>1, <1>2, <1>3, <1>4, <1>5 DEF RequestSound, PlaceMatchesRecord, HistoryIsComplete, Unlimited, TypeOK
<1>9. Audited(r)'
  BY <1>1, <1>3, <1>4 DEF RequestSound, Audited, PlaceMatchesRecord, Unlimited
<1> QED BY <1>1, <1>3, <1>4, <1>6, <1>7, <1>8, <1>9, OwnStepKeepsInv
    DEF RequestSound, PlaceMatchesRecord, Unlimited

\* The record moves to another place and is otherwise as it was.
LEMMA ProceedRecord ==
  ASSUME TypeOK, NEW r \in Requests, NEW place \in Places, Proceed(r, place)
  PROVE  /\ req' \in [Requests -> Records]
         /\ \A q \in Requests \ {r} : req'[q] = req[q]
         /\ req'[r].pc = place /\ req'[r].status = req[r].status /\ req'[r].entry = req[r].entry
         /\ req'[r].path = req[r].path /\ req'[r].caller = req[r].caller
         /\ req'[r].target = req[r].target /\ req'[r].held = req[r].held
         /\ ExpectedEntry(r)' = ExpectedEntry(r)
<1>1. /\ req' \in [Requests -> Records]
      /\ \A q \in Requests \ {r} : req'[q] = req[q]
      /\ req'[r].pc = place /\ req'[r].status = req[r].status /\ req'[r].entry = req[r].entry
      /\ req'[r].path = req[r].path /\ req'[r].caller = req[r].caller
      /\ req'[r].target = req[r].target /\ req'[r].held = req[r].held
  <2> DEFINE new == [req[r] EXCEPT !.pc = place]
  <2>1. req \in [Requests -> Records] /\ req[r] \in Records /\ req' = [req EXCEPT ![r] = new]
    BY DEF TypeOK, Proceed
  <2>2. /\ new \in Records /\ new.pc = place /\ new.status = req[r].status /\ new.entry = req[r].entry
        /\ new.path = req[r].path /\ new.caller = req[r].caller /\ new.target = req[r].target
        /\ new.held = req[r].held
    BY <2>1 DEF Records
  <2> HIDE DEF new
  <2> QED BY <2>1, <2>2
<1>2. ExpectedEntry(r)' = ExpectedEntry(r)
  BY <1>1 DEF ExpectedEntry
<1> QED BY <1>1, <1>2

\* The limiter lets the request through and takes a token from its caller's bucket.
LEMMA LimitKeepsInv ==
  ASSUME ServerInv, NEW r \in Requests, Limit(r)
  PROVE  ServerInv'
<1> USE NoneIsNothing
<1>1. /\ TypeOK /\ RequestSound(r) /\ req[r].pc = "limit" /\ req[r].caller \in Subjects
      /\ req[r].path \in {"request", "provision"} /\ req[r].path \in Places
      /\ UNCHANGED <<key, row, log, lost, seen, stored>>
      /\ charged' = [charged EXCEPT ![r] = req[r].caller]
      /\ Proceed(r, req[r].path)
  BY DEF ServerInv, RequestSound, PlaceMatchesRecord, Limit, Charge, databaseVars, Places, Handling
<1>2. tokens' \in [Subjects -> 0 .. RATE_LIMIT_MAX_REQUESTS]
  BY <1>1, BucketAssumption DEF Limit, Charge, Take, TypeOK
<1>3. TypeOK' /\ OwnStep(r) /\ TakesNothingBack(r)
  BY <1>1, <1>2, ProceedRecord DEF TypeOK, OwnStep, TakesNothingBack, RequestSound, PlaceMatchesRecord, Unlimited
<1>4. PlaceMatchesRecord(r)' /\ HandsAreClean(r)' /\ Paid(r)'
  BY <1>1, ProceedRecord DEF RequestSound, PlaceMatchesRecord, HandsAreClean, Paid, AnsweredByHandler, Unlimited, Handling, TypeOK
<1>5. Audited(r)'
  BY <1>1, ProceedRecord DEF RequestSound, Audited, PlaceMatchesRecord, Unlimited
<1>6. HistoryIsComplete(r)'
  BY <1>1, ProceedRecord DEF RequestSound, HistoryIsComplete, InProgress, Stored
<1> QED BY <1>1, <1>3, <1>4, <1>5, <1>6, ProceedRecord, OwnStepKeepsInv
    DEF RequestSound, PlaceMatchesRecord, Unlimited

\* The PIN is made from what the caller's row holds at this moment.
LEMMA GetSecretKeepsInv ==
  ASSUME ServerInv, NEW r \in Requests, GetSecret(r)
  PROVE  ServerInv'
<1> DEFINE h == row[req[r].caller].sealed.secret
           new == [req[r] EXCEPT !.pc = "touch", !.held = h]
<1>1. /\ TypeOK /\ RequestSound(r) /\ req[r].pc = "request" /\ req[r].caller \in Subjects
      /\ UNCHANGED <<tokens, key, row, log, lost, seen, stored, charged>>
      /\ req' = [req EXCEPT ![r] = new]
  BY DEF ServerInv, RequestSound, PlaceMatchesRecord, GetSecret, RowOf, Handling,
         serverVars, databaseVars, historyVars
<1>2. h \in Secrets \cup {None} /\ h # None /\ h = Stored(req[r].caller)
  BY <1>1 DEF TypeOK, GetSecret, Unregistered, Stored
<1>3. req \in [Requests -> Records] /\ req[r] \in Records
  BY <1>1 DEF TypeOK
<1> HIDE DEF h
<1>4. /\ new \in Records /\ new.pc = "touch" /\ new.path = req[r].path /\ new.caller = req[r].caller
      /\ new.target = req[r].target /\ new.held = h /\ new.status = req[r].status
  BY <1>2, <1>3 DEF Records, Places
<1> HIDE DEF new
<1> USE NoneIsNothing
<1>5. TypeOK' /\ OwnStep(r) /\ TakesNothingBack(r)
  BY <1>1, <1>3, <1>4 DEF TypeOK, OwnStep, TakesNothingBack, RequestSound, PlaceMatchesRecord, Unlimited
<1>6. PlaceMatchesRecord(r)' /\ HandsAreClean(r)' /\ Paid(r)'
  BY <1>1, <1>2, <1>3, <1>4 DEF RequestSound, PlaceMatchesRecord, HandsAreClean, Paid, AnsweredByHandler, Unlimited, Handling
<1>7. Audited(r)'
  BY <1>1, <1>3, <1>4 DEF RequestSound, Audited, PlaceMatchesRecord, Handling
<1>8. HistoryIsComplete(r)'
  BY <1>1, <1>2, <1>3, <1>4 DEF RequestSound, HistoryIsComplete, InProgress, Stored
<1> QED BY <1>1, <1>2, <1>3, <1>4, <1>5, <1>6, <1>7, <1>8, OwnStepKeepsInv
    DEF RequestSound, PlaceMatchesRecord, Handling

\* An admin's request mints a secret for its target.
LEMMA AcceptProvisionKeepsInv ==
  ASSUME ServerInv, NEW r \in Requests, AcceptProvision(r)
  PROVE  ServerInv'
<1>1. /\ TypeOK /\ RequestSound(r) /\ req[r].pc = "provision" /\ req[r].caller \in Admins
      /\ UNCHANGED <<tokens, key, row, log, lost, seen, stored, charged>>
  BY DEF ServerInv, AcceptProvision, HasAdminRole, serverVars, databaseVars, historyVars
<1>2. PICK s \in Subjects :
        req' = [req EXCEPT ![r] = [@ EXCEPT !.pc = "upsert", !.target = s, !.held = r]]
  BY DEF AcceptProvision
<1> DEFINE new == [req[r] EXCEPT !.pc = "upsert", !.target = s, !.held = r]
<1>3. req \in [Requests -> Records] /\ req[r] \in Records /\ r \in Secrets
  BY <1>1, NoneIsNothing DEF TypeOK
<1>4. /\ new \in Records /\ new.pc = "upsert" /\ new.path = req[r].path /\ new.caller = req[r].caller
      /\ new.target = s /\ new.held = r /\ new.status = req[r].status
  BY <1>3 DEF Records, Places
<1>5. req' = [req EXCEPT ![r] = new]
  BY <1>2
<1> HIDE DEF new
<1> USE NoneIsNothing
<1>6. TypeOK' /\ OwnStep(r) /\ TakesNothingBack(r)
  BY <1>1, <1>3, <1>4, <1>5 DEF TypeOK, OwnStep, TakesNothingBack, RequestSound, PlaceMatchesRecord, Unlimited
<1>7. PlaceMatchesRecord(r)' /\ HandsAreClean(r)' /\ Paid(r)'
  BY <1>1, <1>3, <1>4, <1>5 DEF RequestSound, PlaceMatchesRecord, HandsAreClean, Paid, AnsweredByHandler, Unlimited, Handling
<1>8. Audited(r)'
  BY <1>1, <1>3, <1>4, <1>5 DEF RequestSound, Audited, PlaceMatchesRecord, Handling
<1>9. HistoryIsComplete(r)'
  BY <1>1, <1>3, <1>4, <1>5 DEF RequestSound, PlaceMatchesRecord, HistoryIsComplete, InProgress, Stored, Handling
<1> QED BY <1>1, <1>3, <1>4, <1>5, <1>6, <1>7, <1>8, <1>9, OwnStepKeepsInv
    DEF RequestSound, PlaceMatchesRecord, Handling

\* The row is written, or the insert fails with or without effect.
LEMMA LogKeepsInv ==
  ASSUME ServerInv, NEW r \in Requests, LogRequest(r) \/ LogFails(r)
  PROVE  ServerInv'
<1> USE NoneIsNothing
<1>1. /\ TypeOK /\ RequestSound(r) /\ req[r].pc = "log" /\ "reply" \in Places
      /\ UNCHANGED <<tokens, key, row, seen, stored, charged>>
      /\ log' = log \/ log' = [log EXCEPT ![r] = req[r].entry]
      /\ lost' = lost \/ lost' = lost \cup {r}
      /\ r \in lost' \/ log' = [log EXCEPT ![r] = req[r].entry]
      /\ Proceed(r, "reply")
  BY DEF ServerInv, LogRequest, LogFails, serverVars, historyVars, Places
<1>2. req[r] \in Records /\ req[r].entry \in Entries \cup {None}
  BY <1>1 DEF TypeOK, Records
<1>3. TypeOK' /\ OwnStep(r) /\ TakesNothingBack(r)
  BY <1>1, <1>2, ProceedRecord DEF TypeOK, OwnStep, TakesNothingBack
<1>4. PlaceMatchesRecord(r)' /\ HandsAreClean(r)' /\ Paid(r)'
  BY <1>1, ProceedRecord DEF RequestSound, PlaceMatchesRecord, HandsAreClean, Paid, AnsweredByHandler, Unlimited, Handling
<1>5. req[r].entry = ExpectedEntry(r) /\ log[r] = None
  BY <1>1 DEF RequestSound, Audited
<1>6. req[r].status = None => ExpectedEntry(r) = None
  BY DEF ExpectedEntry
<1>7. Audited(r)'
  BY <1>1, <1>5, <1>6, ProceedRecord DEF Audited, TypeOK
<1>8. HistoryIsComplete(r)'
  BY <1>1, ProceedRecord DEF RequestSound, HistoryIsComplete, InProgress, Stored
<1> QED BY <1>1, <1>3, <1>4, <1>7, <1>8, ProceedRecord, OwnStepKeepsInv DEF RequestSound

\* The response leaves, or the client does.
LEMMA EndKeepsInv ==
  ASSUME ServerInv, NEW r \in Requests, Reply(r) \/ Cancel(r)
  PROVE  ServerInv'
<1> USE NoneIsNothing
<1>1. PICK place \in {"done", "gone"} : /\ Proceed(r, place)
                                        /\ place = "done" => req[r].pc = "reply"
  BY DEF Reply, Cancel
<1>2. /\ TypeOK /\ RequestSound(r) /\ place \in Places
      /\ UNCHANGED <<tokens, key, row, log, lost, seen, stored, charged>>
  BY DEF ServerInv, Reply, Cancel, serverVars, databaseVars, historyVars, Places
<1>3. TypeOK' /\ OwnStep(r) /\ TakesNothingBack(r)
  BY <1>1, <1>2, ProceedRecord DEF TypeOK, OwnStep, TakesNothingBack
<1>4. PlaceMatchesRecord(r)' /\ HandsAreClean(r)' /\ Paid(r)'
  BY <1>1, <1>2, ProceedRecord DEF RequestSound, PlaceMatchesRecord, HandsAreClean, Paid, AnsweredByHandler, Unlimited, Handling
<1>5. Audited(r)'
  BY <1>1, <1>2, ProceedRecord DEF RequestSound, Audited
<1>6. HistoryIsComplete(r)'
  BY <1>1, <1>2, ProceedRecord DEF RequestSound, HistoryIsComplete, InProgress
<1> QED BY <1>1, <1>2, <1>3, <1>4, <1>5, <1>6, ProceedRecord, OwnStepKeepsInv DEF RequestSound

\* The upsert: the row of the named subject is replaced, whatever becomes of the response.
LEMMA StoreKeepsInv ==
  ASSUME ServerInv, NEW r \in Requests, req[r].pc = "upsert", StoreSecret(r),
         UNCHANGED <<tokens, key, log, lost, charged>>,
         Audit(r, 200, Entry(req[r].target, "provisioned")) \/ Respond(r, 500)
  PROVE  ServerInv'
<1> USE NoneIsNothing
<1> DEFINE s == req[r].target
<1>1. /\ TypeOK /\ \A q \in Requests : RequestSound(q)
      /\ s \in Subjects /\ req[r].path = "provision" /\ req[r].caller \in Admins
      /\ charged[r] = req[r].caller /\ req[r].status = None
  BY DEF ServerInv, RequestSound, PlaceMatchesRecord, Handling
<1>2. PICK status \in {200, 500} :
        /\ req' \in [Requests -> Records]
        /\ \A q \in Requests \ {r} : req'[q] = req[q]
        /\ req'[r].status = status
        /\ \/ status = 200 /\ req'[r].pc = "log" /\ req'[r].entry = Entry(s, "provisioned")
           \/ status = 500 /\ req'[r].pc = "reply"
        /\ req'[r].path = req[r].path /\ req'[r].caller = req[r].caller
        /\ req'[r].target = s /\ req'[r].held = req[r].held
  <2>1. 200 \in Statuses /\ 500 \in Statuses /\ Entry(s, "provisioned") \in Entries
    BY <1>1 DEF Statuses, Entry, Entries
  <2>2. CASE Audit(r, 200, Entry(s, "provisioned"))
    BY <1>1, <2>1, <2>2, AuditRecord
  <2>3. CASE Respond(r, 500)
    BY <1>1, <2>1, <2>3, RespondRecord
  <2> QED BY <2>2, <2>3
<1> DEFINE new == [sealed |-> [secret |-> r, key |-> key], used |-> FALSE]
<1>3. /\ row' = [row EXCEPT ![s] = new]
      /\ seen' = [q \in Requests |-> IF q \in InProgress /\ req[q].caller = s THEN seen[q] \cup {r} ELSE seen[q]]
      /\ stored' = [q \in Requests |-> IF q = r \/ (stored[q] # {} /\ req[q].target = s) THEN stored[q] \cup {r}
                                                                                      ELSE stored[q]]
  BY DEF StoreSecret, NewRow, Encrypt
<1>4. new \in [sealed : [secret : Secrets \cup {None}, key : Keys \cup {None}], used : BOOLEAN]
  BY <1>1 DEF TypeOK
<1>5. new.sealed.secret = r /\ new.used = FALSE
  OBVIOUS
<1> HIDE DEF s, new
<1>6. seen' \in [Requests -> SUBSET (Secrets \cup {None})] /\ stored' \in [Requests -> SUBSET Requests]
  BY <1>1, <1>3 DEF TypeOK
<1>7. TypeOK'
  BY <1>1, <1>2, <1>3, <1>4, <1>6 DEF TypeOK
<1>8. /\ row'[s].sealed.secret = r /\ row'[s].used = FALSE
      /\ \A u \in Subjects \ {s} : row'[u] = row[u]
      /\ \A q \in Requests : seen[q] \subseteq seen'[q]
      /\ \A q \in InProgress : req[q].caller = s => r \in seen'[q]
      /\ r \in stored'[r]
      /\ \A q \in Requests : /\ stored[q] \subseteq stored'[q]
                             /\ stored[q] # {} /\ req[q].target = s => r \in stored'[q]
  BY <1>1, <1>3, <1>5 DEF TypeOK, InProgress
<1>9. \A q \in Requests : /\ req'[q].path = req[q].path /\ req'[q].caller = req[q].caller
                          /\ req'[q].target = req[q].target /\ req'[q].held = req[q].held
                          /\ charged'[q] = charged[q]
  BY <1>2 DEF s
<1>10. \A q \in Requests : RequestSound(q)'
  <2> SUFFICES ASSUME NEW q \in Requests PROVE RequestSound(q)'
    OBVIOUS
  <2>1. HistoryIsComplete(q)'
    <3>1. q \in InProgress' => q \in InProgress
      BY <1>2, <1>9 DEF InProgress
    <3>2. req'[q].status = 404 => req[q].status = 404
      BY <1>2
    <3> QED BY <1>1, <1>8, <1>9, <3>1, <3>2 DEF RequestSound, HistoryIsComplete, Stored
  <2>2. CASE q = r
    <3>1. PlaceMatchesRecord(q)' /\ HandsAreClean(q)' /\ Paid(q)'
      BY <1>1, <1>2, <1>9, <2>2 DEF RequestSound, PlaceMatchesRecord, HandsAreClean, Paid, AnsweredByHandler, Unlimited, Handling
    <3>2. ExpectedEntry(q)' = IF status = 200 THEN Entry(s, "provisioned") ELSE None
      BY <1>1, <1>2, <2>2 DEF ExpectedEntry
    <3>3. Audited(q)'
      BY <1>1, <1>2, <2>2, <3>2 DEF RequestSound, Audited
    <3> QED BY <2>1, <3>1, <3>3 DEF RequestSound
  <2>3. CASE q # r
    <3>1. req'[q] = req[q] /\ log'[q] = log[q] /\ charged'[q] = charged[q] /\ lost' = lost
      BY <1>2, <2>3
    <3>2. PlaceMatchesRecord(q)' /\ HandsAreClean(q)' /\ Paid(q)'
      BY <1>1, <3>1 DEF RequestSound, PlaceMatchesRecord, HandsAreClean, Paid, AnsweredByHandler
    <3>3. ExpectedEntry(q)' = ExpectedEntry(q)
      BY <3>1 DEF ExpectedEntry
    <3>4. Audited(q)'
      BY <1>1, <3>1, <3>3 DEF RequestSound, Audited
    <3> QED BY <2>1, <3>2, <3>4 DEF RequestSound
  <2> QED BY <2>2, <2>3
<1>11. RowsAreProvisioned'
  BY <1>1, <1>8, <1>9 DEF ServerInv, RowsAreProvisioned, Stored, s
<1>12. PinOfOwnSecret'
  BY <1>8, <1>9 DEF ServerInv, PinOfOwnSecret
<1>13. LastUsedIsRecent'
  BY <1>8, <1>9 DEF ServerInv, LastUsedIsRecent, Stored
<1>14. AnsweredSecretIsStored'
  <2> SUFFICES ASSUME NEW p \in Requests, req'[p].status = 200, req'[p].path = "provision"
               PROVE  /\ p \in stored'[p]
                      /\ row'[req'[p].target].sealed.secret \in stored'[p]
    BY DEF AnsweredSecretIsStored, Stored
  <2>1. CASE p = r
    BY <1>2, <1>8, <2>1
  <2>2. CASE p # r
    <3>1. /\ req[p].status = 200 /\ req[p].path = "provision" /\ req[p].target \in Subjects
          /\ req'[p].target = req[p].target
      BY <1>1, <1>2, <1>9, <2>2 DEF RequestSound, HandsAreClean
    <3>2. p \in stored[p] /\ row[req[p].target].sealed.secret \in stored[p]
      BY <3>1 DEF ServerInv, AnsweredSecretIsStored, Stored
    <3>3. /\ \A x \in stored[p] : x \in stored'[p]
          /\ req[p].target = s => r \in stored'[p]
      <4>1. stored[p] \subseteq stored'[p] /\ (stored[p] # {} /\ req[p].target = s => r \in stored'[p])
        BY <1>8
      <4>2. stored[p] # {}
        BY <3>2
      <4> QED BY <4>1, <4>2
    <3>4. CASE req[p].target = s
      <4>1. row'[req'[p].target].sealed.secret = r
        BY <1>8, <3>1, <3>4
      <4> QED BY <3>2, <3>3, <3>4, <4>1
    <3>5. CASE req[p].target # s
      <4>1. row'[req'[p].target] = row[req[p].target]
        BY <1>8, <3>1, <3>5
      <4> QED BY <3>2, <3>3, <4>1
    <3> QED BY <3>4, <3>5
  <2> QED BY <2>1, <2>2
<1> QED BY <1>7, <1>10, <1>11, <1>12, <1>13, <1>14 DEF ServerInv

\* The secret is stored, or the statement fails, before or after it took effect.
LEMMA UpsertKeepsInv ==
  ASSUME ServerInv, NEW r \in Requests, Upsert(r) \/ UpsertFails(r)
  PROVE  ServerInv'
<1>1. req[r].pc = "upsert" /\ UNCHANGED <<tokens, key, log, lost, charged>>
  BY DEF Upsert, UpsertFails, serverVars
<1>2. CASE StoreSecret(r)
  BY <1>1, <1>2, StoreKeepsInv DEF Upsert, UpsertFails
<1>3. CASE UNCHANGED <<row, seen, stored>> /\ Respond(r, 500)
  BY <1>1, <1>3, RespondKeepsInv DEF OnlyMarks, Handling
<1> QED BY <1>2, <1>3 DEF Upsert, UpsertFails

---------------------------------------------------------------------------------
(* Time, crashes and restarts *)

\* Requests that a crash interrupts keep all they had but their place.
LEMMA CrashKeepsInv ==
  ASSUME ServerInv, Crash
  PROVE  ServerInv'
<1> USE NoneIsNothing
<1>1. /\ TypeOK /\ \A q \in Requests : RequestSound(q)
      /\ UNCHANGED <<tokens, row, log, lost, seen, stored, charged>>
      /\ key' = None
  BY DEF ServerInv, Crash, databaseVars, historyVars
<1>2. \A q \in Requests :
        /\ req'[q] \in Records
        /\ req'[q].pc = (IF q \in InProgress THEN "gone" ELSE req[q].pc)
        /\ req'[q].path = req[q].path /\ req'[q].caller = req[q].caller
        /\ req'[q].target = req[q].target /\ req'[q].held = req[q].held
        /\ req'[q].status = req[q].status /\ req'[q].entry = req[q].entry
  <2> SUFFICES ASSUME NEW q \in Requests
               PROVE  /\ req'[q] \in Records
                      /\ req'[q].pc = (IF q \in InProgress THEN "gone" ELSE req[q].pc)
                      /\ req'[q].path = req[q].path /\ req'[q].caller = req[q].caller
                      /\ req'[q].target = req[q].target /\ req'[q].held = req[q].held
                      /\ req'[q].status = req[q].status /\ req'[q].entry = req[q].entry
    OBVIOUS
  <2>1. req[q] \in Records
    BY <1>1 DEF TypeOK
  <2>2. req'[q] = IF q \in InProgress THEN [req[q] EXCEPT !.pc = "gone"] ELSE req[q]
    BY DEF Crash
  <2> QED BY <2>1, <2>2 DEF Records, Places
<1>3. TypeOK'
  BY <1>1, <1>2 DEF TypeOK, Crash
<1>4. \A q \in Requests : RequestSound(q)'
  <2> SUFFICES ASSUME NEW q \in Requests PROVE RequestSound(q)'
    OBVIOUS
  <2>1. ExpectedEntry(q)' = ExpectedEntry(q)
    BY <1>2 DEF ExpectedEntry
  <2>2. req'[q].pc \in {req[q].pc, "gone"}
    BY <1>2
  <2>3. PlaceMatchesRecord(q)' /\ HandsAreClean(q)' /\ Paid(q)'
    BY <1>1, <1>2, <2>2 DEF RequestSound, PlaceMatchesRecord, HandsAreClean, Paid, AnsweredByHandler, Unlimited, Handling
  <2>4. Audited(q)'
    BY <1>1, <1>2, <2>1, <2>2 DEF RequestSound, Audited
  <2>5. HistoryIsComplete(q)'
    BY <1>1, <1>2 DEF RequestSound, HistoryIsComplete, InProgress
  <2> QED BY <2>3, <2>4, <2>5 DEF RequestSound
<1>5. PinOfOwnSecret' /\ RowsAreProvisioned' /\ LastUsedIsRecent' /\ AnsweredSecretIsStored'
  BY <1>1, <1>2 DEF ServerInv, PinOfOwnSecret, RowsAreProvisioned, LastUsedIsRecent, AnsweredSecretIsStored, Stored
<1> QED BY <1>3, <1>4, <1>5 DEF ServerInv

\* Buckets and keys come and go without touching a request or a row.
LEMMA MachineKeepsInv ==
  ASSUME ServerInv, TokensComeBack \/ StartUp \/ UNCHANGED vars
  PROVE  ServerInv'
<1>1. TypeOK /\ UNCHANGED <<req, row, log, lost, seen, stored, charged>>
  BY DEF ServerInv, TokensComeBack, StartUp, vars, databaseVars, historyVars
<1>2. tokens' \in [Subjects -> 0 .. RATE_LIMIT_MAX_REQUESTS] /\ key' \in Keys \cup {None}
  BY <1>1, BucketAssumption DEF TypeOK, TokensComeBack, Replenish, StartUp, BucketRestart, Full, vars,
                                FromEnv, ParseEncryptionKey
<1>3. TypeOK'
  BY <1>1, <1>2 DEF TypeOK
<1>4. \A q \in Requests : ExpectedEntry(q)' = ExpectedEntry(q)
  BY <1>1 DEF ExpectedEntry
<1>5. \A q \in Requests : RequestSound(q)'
  BY <1>1, <1>4 DEF ServerInv, RequestSound, PlaceMatchesRecord, HandsAreClean, Paid, AnsweredByHandler, Audited,
                    HistoryIsComplete, InProgress, Stored
<1>6. PinOfOwnSecret' /\ RowsAreProvisioned' /\ LastUsedIsRecent' /\ AnsweredSecretIsStored'
  BY <1>1 DEF ServerInv, PinOfOwnSecret, RowsAreProvisioned, LastUsedIsRecent, AnsweredSecretIsStored, Stored
<1> QED BY <1>3, <1>5, <1>6 DEF ServerInv

---------------------------------------------------------------------------------
(* The theorems *)

\* At first there is nobody, and the rows hold what was there before.
LEMMA ServerInvInit == Init => ServerInv
<1> SUFFICES ASSUME Init PROVE ServerInv
  OBVIOUS
<1> USE NoneIsNothing
<1>1. Fresh \in Records
  BY DEF Fresh, Records, Places
<1>2. \A s \in Subjects :
        /\ row[s] \in [sealed : [secret : Secrets \cup {None}, key : Keys \cup {None}], used : BOOLEAN]
        /\ Stored(s) \in {Earlier, None} /\ row[s].used = FALSE
  <2> SUFFICES ASSUME NEW s \in Subjects
               PROVE  /\ row[s] \in [sealed : [secret : Secrets \cup {None}, key : Keys \cup {None}], used : BOOLEAN]
                      /\ Stored(s) \in {Earlier, None} /\ row[s].used = FALSE
    OBVIOUS
  <2>1. row[s] \in {NoRow} \cup [sealed : {Encrypt(k, Earlier) : k \in Keys}, used : {FALSE}]
    BY DEF Init
  <2>2. CASE row[s] = NoRow
    BY <2>2 DEF NoRow, Encrypt, Stored
  <2>3. CASE row[s] \in [sealed : {Encrypt(k, Earlier) : k \in Keys}, used : {FALSE}]
    <3>0. row[s].sealed \in {Encrypt(k, Earlier) : k \in Keys}
      BY <2>3
    <3>1. PICK k \in Keys : row[s].sealed = Encrypt(k, Earlier)
      BY <3>0, Zenon
    <3>2. row[s].sealed \in [secret : Secrets \cup {None}, key : Keys \cup {None}]
      BY <3>1 DEF Encrypt, Secrets
    <3>3. row[s].sealed.secret = Earlier
      BY <3>1 DEF Encrypt
    <3>4. row[s] \in [sealed : [secret : Secrets \cup {None}, key : Keys \cup {None}], used : BOOLEAN]
      BY <2>3, <3>2
    <3> QED BY <2>3, <3>3, <3>4 DEF Stored
  <2> QED BY <2>1, <2>2, <2>3
<1>3. TypeOK
  <2>1. row \in [Subjects -> [sealed : [secret : Secrets \cup {None}, key : Keys \cup {None}], used : BOOLEAN]]
    BY <1>2 DEF Init
  <2> QED BY <1>1, <2>1, BucketAssumption DEF Init, TypeOK, BucketInit, Full
<1>4. \A r \in Requests : RequestSound(r)
  <2> SUFFICES ASSUME NEW r \in Requests PROVE RequestSound(r)
    OBVIOUS
  <2>1. /\ req[r].pc = "new" /\ req[r].caller = None /\ req[r].target = None
        /\ req[r].held = None /\ req[r].status = None
        /\ log[r] = None /\ charged[r] = None
    BY DEF Init, Fresh
  <2>2. PlaceMatchesRecord(r) /\ HandsAreClean(r) /\ Paid(r) /\ HistoryIsComplete(r)
    BY <2>1 DEF PlaceMatchesRecord, HandsAreClean, Paid, AnsweredByHandler, HistoryIsComplete, Unlimited, Handling
  <2>3. Audited(r)
    BY <2>1 DEF Audited
  <2> QED BY <2>2, <2>3 DEF RequestSound
<1>5. PinOfOwnSecret /\ RowsAreProvisioned /\ LastUsedIsRecent /\ AnsweredSecretIsStored
  BY <1>2 DEF Init, Fresh, PinOfOwnSecret, RowsAreProvisioned, LastUsedIsRecent, AnsweredSecretIsStored
<1> QED BY <1>3, <1>4, <1>5 DEF ServerInv

\* Every step keeps the invariant.
LEMMA ServerInvStep == ServerInv /\ [Next]_vars => ServerInv'
<1> SUFFICES ASSUME ServerInv, [Next]_vars PROVE ServerInv'
  OBVIOUS
<1>1. ASSUME NEW r \in Requests, Middleware(r)
      PROVE  ServerInv'
  BY <1>1, ArriveWithTokenKeepsInv, RefusedAtTheDoorKeepsInv, AuthenticatedKeepsInv, LimitKeepsInv,
     TooManyRequestsKeepsInv DEF Middleware
<1>2. ASSUME NEW r \in Requests, Handlers(r)
      PROVE  ServerInv'
  BY <1>2, NoSecretKeepsInv, GetSecretKeepsInv, TouchKeepsInv, FailureKeepsInv, AcceptProvisionKeepsInv,
     UpsertKeepsInv DEF Handlers
<1>3. ASSUME NEW r \in Requests, LogRequest(r) \/ LogFails(r) \/ Reply(r) \/ Cancel(r)
      PROVE  ServerInv'
  BY <1>3, LogKeepsInv, EndKeepsInv
<1> QED BY <1>1, <1>2, <1>3, CrashKeepsInv, MachineKeepsInv DEF Next

\* The invariant holds in every reachable state, for any number of requests, subjects and keys.
THEOREM ServerInvariant == Spec => []ServerInv
BY ServerInvInit, ServerInvStep, PTL DEF Spec

\* Type correctness.
THEOREM ServerTypeCorrect == Spec => []TypeOK
<1>1. ServerInv => TypeOK
  BY DEF ServerInv
<1> QED BY <1>1, ServerInvariant, PTL

\* However many provisionings fall into a PIN request: the PIN is made from a secret that the
\* caller's own row held while the request was under way (routes/totp.rs:26-34).
THEOREM ServerPinOfOwnSecret == Spec => []PinOfOwnSecret
<1>1. ServerInv => PinOfOwnSecret
  BY DEF ServerInv
<1> QED BY <1>1, ServerInvariant, PTL

\* Only authenticated, rate-limited admins put secrets into rows, each into the row it named
\* (routes/provision.rs:33-47).
THEOREM ServerRowsAreProvisioned == Spec => []RowsAreProvisioned
<1>1. ServerInv => RowsAreProvisioned
  BY DEF ServerInv
<1> QED BY <1>1, ServerInvariant, PTL

\* The audit trail neither lies nor lags, whatever statements fail and whenever the server
\* crashes (middleware.rs:23-45, 68-79).
THEOREM ServerAuditTrail == Spec => []AuditTrail
<1>1. ServerInv => AuditTrail
  BY DEF ServerInv, RequestSound, Audited, AuditTrail
<1> QED BY <1>1, ServerInvariant, PTL

\* Every request that reaches a handler has paid with a token of its own subject, and none
\* that was refused before it has (routes/mod.rs:23-40).
THEOREM ServerPaidFor == Spec => []PaidFor
<1>1. ServerInv => PaidFor
  BY DEF ServerInv, RequestSound, Paid, AnsweredByHandler, PaidFor
<1> QED BY <1>1, ServerInvariant, PTL

\* A mark of use on a row is that of a PIN request that overlapped with the row's present
\* secret (secret_store.rs:61-91).
THEOREM ServerLastUsedIsRecent == Spec => []LastUsedIsRecent
<1>1. ServerInv => LastUsedIsRecent
  BY DEF ServerInv
<1> QED BY <1>1, ServerInvariant, PTL

\* A secret that an admin was told is registered was stored, and its subject's row holds it or
\* one stored after it, through races of any number of admins, failures and restarts
\* (provision.rs:46-63, secret_store.rs:64-82).
THEOREM ServerAnsweredSecretIsStored == Spec => []AnsweredSecretIsStored
<1>1. ServerInv => AnsweredSecretIsStored
  BY DEF ServerInv
<1> QED BY <1>1, ServerInvariant, PTL

\* "No secret registered" is only said of a row that was missing while the request was under
\* way, never of one that another key sealed (secret_store.rs:45-58).
THEOREM ServerNotFoundMeansUnregistered == Spec => []NotFoundMeansUnregistered
<1>1. ServerInv => NotFoundMeansUnregistered
  BY DEF ServerInv, RequestSound, HistoryIsComplete, NotFoundMeansUnregistered
<1> QED BY <1>1, ServerInvariant, PTL
=================================================================================
