------------------------------- MODULE TotpServer -------------------------------
(* The way of a request through the server: authentication, the audit layer, the   *)
(* limiter, the two handlers and the database (totp-server/src/routes,             *)
(* auth/middleware.rs, totp/secret_store.rs, crypto.rs).  Requests interleave at   *)
(* every await.  A database call may fail, before or after its statement took      *)
(* effect; a request may be dropped wherever it awaits; the server may crash, and  *)
(* be started again with another encryption key.                                   *)
(*                                                                                 *)
(* Introspection models how a token is verified; here it is one step with any of   *)
(* its outcomes.  A secret is named by the request that minted it.                 *)
EXTENDS TokenBucket

CONSTANTS
  Requests,
  Admins,     \* subjects with the admin role
  Keys,       \* AES keys
  Malformed,  \* a TOTP_ENCRYPTION_KEY that is no key
  Earlier,    \* the secret of a row that was there before
  None

ASSUME ServerAssumption == /\ Admins \subseteq Subjects
                           /\ Earlier \notin Requests
                           /\ None \notin Subjects \cup Requests \cup Keys \cup {Earlier}
                           /\ Malformed \notin Keys \cup {None}
                           /\ None \notin Nat

VARIABLES
  key,      \* Config.encryption_key of the running server, or None while it is down
  req,      \* per request: where it is and what it has in hand
  row,      \* totp_secrets: per subject the sealed secret and whether last_used_at is set
  log,      \* request_log: the row each request left, or None
  lost,     \* history: requests whose audit row could not be written
  seen,     \* history: the secrets the caller's row held since the request arrived
  stored,   \* history: per request whose upsert took effect, its secret and the secrets
            \* stored for the same subject after it
  charged   \* history: whose bucket each request took a token from, or None

vars == <<tokens, key, req, row, log, lost, seen, stored, charged>>

serverVars == <<tokens, key>>
databaseVars == <<row, log>>
historyVars == <<lost, seen, stored, charged>>

Fresh == [pc |-> "new", path |-> None, caller |-> None, target |-> None,
          held |-> None, status |-> None, entry |-> None]

Entry(subject, result) == [subject |-> subject, result |-> result]

(* crypto.rs: a ciphertext opens under the key that sealed it, and under no other. *)

Encrypt(k, secret) == [secret |-> secret, key |-> k]

CanDecrypt(k, sealed) == sealed.key = k

NoRow == [sealed |-> Encrypt(None, None), used |-> FALSE]

\* The secret that a subject's row holds, whether or not it can be opened, or None.
Stored(s) == row[s].sealed.secret

Init == /\ BucketInit
        /\ key \in Keys
        /\ req = [r \in Requests |-> Fresh]
        /\ row \in [Subjects -> {NoRow} \cup [sealed : {Encrypt(k, Earlier) : k \in Keys},
                                              used : {FALSE}]]
        /\ log = [r \in Requests |-> None]
        /\ lost = {}
        /\ seen = [r \in Requests |-> {}]
        /\ stored = [r \in Requests |-> {}]
        /\ charged = [r \in Requests |-> None]

---------------------------------------------------------------------------------
(* What a step does to its own request *)

InProgress == {r \in Requests : req[r].pc \notin {"new", "done", "gone"}}

Proceed(r, place) == req' = [req EXCEPT ![r].pc = place]

\* The response is ready, with no row to write first.
Respond(r, status) == req' = [req EXCEPT ![r] = [@ EXCEPT !.pc = "reply", !.status = status]]

\* The response is ready, and log_request comes before it.
Audit(r, status, entry) ==
  req' = [req EXCEPT ![r] = [@ EXCEPT !.pc = "log", !.status = status, !.entry = entry]]

---------------------------------------------------------------------------------
(* require_authentication *)

ArriveWithoutToken(r) ==
  /\ key # None
  /\ req[r].pc = "new"
  /\ Audit(r, 401, Entry(None, "denied_inactive_token"))
  /\ UNCHANGED <<serverVars, databaseVars, historyVars>>

ArriveWithToken(r) ==
  /\ key # None
  /\ req[r].pc = "new"
  /\ \E path \in {"request", "provision"} :
       req' = [req EXCEPT ![r] = [@ EXCEPT !.pc = "auth", !.path = path]]
  /\ UNCHANGED <<serverVars, databaseVars, historyVars>>

Authenticated(r) ==
  /\ req[r].pc = "auth"
  /\ \E s \in Subjects :
       /\ req' = [req EXCEPT ![r] = [@ EXCEPT !.pc = "limit", !.caller = s]]
       /\ seen' = [seen EXCEPT ![r] = {Stored(s)}]
  /\ UNCHANGED <<serverVars, databaseVars, lost, stored, charged>>

\* Unauthorized: inactive or expired.  Forbidden: meant for another audience.
DenialStatuses == {401, 403}

TokenDenied(r) ==
  /\ req[r].pc = "auth"
  /\ \E status \in DenialStatuses : Audit(r, status, Entry(None, "denied_inactive_token"))
  /\ UNCHANGED <<serverVars, databaseVars, historyVars>>

\* Keycloak's failures are not the caller's: no row.
KeycloakUnavailable(r) ==
  /\ req[r].pc = "auth"
  /\ Respond(r, 503)
  /\ UNCHANGED <<serverVars, databaseVars, historyVars>>

---------------------------------------------------------------------------------
(* audit_rate_limited around the limiter *)

\* Mutant of Charge: the provisioning route was added outside the limiter's layer.
ChargeRequestsOnly(r) ==
  IF req[r].path = "request" THEN /\ Take(req[r].caller)
                                  /\ charged' = [charged EXCEPT ![r] = req[r].caller]
                             ELSE UNCHANGED <<tokens, charged>>

\* SubjectKeyExtractor names the bucket.
Charge(r) ==
  /\ Take(req[r].caller)
  /\ charged' = [charged EXCEPT ![r] = req[r].caller]

Limit(r) ==
  /\ req[r].pc = "limit"
  /\ Charge(r)
  /\ Proceed(r, req[r].path)
  /\ UNCHANGED <<key, databaseVars, lost, seen, stored>>

TooManyRequests(r) ==
  /\ req[r].pc = "limit"
  /\ Refused(req[r].caller)
  /\ Audit(r, 429, Entry(req[r].caller, "rate_limited"))
  /\ UNCHANGED <<serverVars, databaseVars, historyVars>>

---------------------------------------------------------------------------------
(* request_pin *)

\* Mutant of Unregistered: a row that cannot be opened counts as none.
Unreadable(r) == ~CanDecrypt(key, row[req[r].caller].sealed)

\* SecretStore::get finds no row.
Unregistered(r) == Stored(req[r].caller) = None

NoSecret(r) ==
  /\ req[r].pc = "request"
  /\ Unregistered(r)
  /\ Audit(r, 404, Entry(req[r].caller, "denied_no_secret"))
  /\ UNCHANGED <<serverVars, databaseVars, historyVars>>

\* Mutant of RowOf: the row of some subject, not of the caller.
RowOfAnyone(r) == row[CHOOSE s \in Subjects : Stored(s) # None]

RowOf(r) == row[req[r].caller]

\* SecretStore::get decrypts the row, and the PIN is made from it before the next await.
GetSecret(r) ==
  /\ req[r].pc = "request"
  /\ ~Unregistered(r)
  /\ CanDecrypt(key, RowOf(r).sealed)
  /\ req' = [req EXCEPT ![r] = [@ EXCEPT !.pc = "touch", !.held = RowOf(r).sealed.secret]]
  /\ UNCHANGED <<serverVars, databaseVars, historyVars>>

\* The query, the decryption or the generator fails.
GetFails(r) ==
  /\ req[r].pc = "request"
  /\ Respond(r, 500)
  /\ UNCHANGED <<serverVars, databaseVars, historyVars>>

\* The update of touch_last_used: whatever secret the caller's row holds by now.
SetLastUsed(r) ==
  row' = [row EXCEPT ![req[r].caller].used = (Stored(req[r].caller) # None)]

\* Mutant of Issued: the PIN is handed out without a row.
IssuedUnaudited(r) == Respond(r, 200)

Issued(r) == Audit(r, 200, Entry(req[r].caller, "issued"))

Touch(r) ==
  /\ req[r].pc = "touch"
  /\ SetLastUsed(r)
  /\ Issued(r)
  /\ UNCHANGED <<serverVars, log, historyVars>>

\* The PIN is thrown away; the update may have taken effect all the same.
TouchFails(r) ==
  /\ req[r].pc = "touch"
  /\ SetLastUsed(r) \/ UNCHANGED row
  /\ Respond(r, 500)
  /\ UNCHANGED <<serverVars, log, historyVars>>

---------------------------------------------------------------------------------
(* provision *)

\* Mutant of HasAdminRole: the role is not looked at.
HasAnyRole(r) == TRUE

HasAdminRole(r) == req[r].caller \in Admins

\* A body that does not parse (whoever sent it), a caller without the role or an admin who
\* names nobody; for an admin also a secret that no otpauth URL can be built for.  422 stands
\* for every rejection of the Json extractor (400, 413 and 415 too).
RefuseProvision(r) ==
  /\ req[r].pc = "provision"
  /\ \/ \E status \in {422, 403} : Respond(r, status)
     \/ HasAdminRole(r) /\ Respond(r, 500)
  /\ UNCHANGED <<serverVars, databaseVars, historyVars>>

\* An admin names a subject, and totp::provision mints a secret for it.
AcceptProvision(r) ==
  /\ req[r].pc = "provision"
  /\ HasAdminRole(r)
  /\ \E s \in Subjects :
       req' = [req EXCEPT ![r] = [@ EXCEPT !.pc = "upsert", !.target = s, !.held = r]]
  /\ UNCHANGED <<serverVars, databaseVars, historyVars>>

\* Mutants of NewRow: last_used_at of the replaced secret is kept; "on conflict do nothing".
NewRowKeepsLastUsed(r) ==
  [sealed |-> Encrypt(key, r), used |-> row[req[r].target].used]
NewRowUnlessOneIsThere(r) ==
  IF Stored(req[r].target) = None THEN [sealed |-> Encrypt(key, r), used |-> FALSE]
                                  ELSE row[req[r].target]

NewRow(r) == [sealed |-> Encrypt(key, r), used |-> FALSE]

\* SecretStore::upsert's statement.  The histories follow the rows of the requests under
\* way, and what became of the secrets that were stored.
StoreSecret(r) ==
  LET s == req[r].target
  IN  /\ row' = [row EXCEPT ![s] = NewRow(r)]
      /\ seen' = [q \in Requests |-> IF q \in InProgress /\ req[q].caller = s THEN seen[q] \cup {r}
                                                                            ELSE seen[q]]
      /\ stored' = [q \in Requests |-> IF q = r \/ (stored[q] # {} /\ req[q].target = s)
                                       THEN stored[q] \cup {r}
                                       ELSE stored[q]]

Upsert(r) ==
  /\ req[r].pc = "upsert"
  /\ StoreSecret(r)
  /\ Audit(r, 200, Entry(req[r].target, "provisioned"))
  /\ UNCHANGED <<serverVars, log, lost, charged>>

UpsertFails(r) ==
  /\ req[r].pc = "upsert"
  /\ StoreSecret(r) \/ UNCHANGED <<row, seen, stored>>
  /\ Respond(r, 500)
  /\ UNCHANGED <<serverVars, log, lost, charged>>

---------------------------------------------------------------------------------
(* log_request and the response *)

LogRequest(r) ==
  /\ req[r].pc = "log"
  /\ log' = [log EXCEPT ![r] = req[r].entry]
  /\ Proceed(r, "reply")
  /\ UNCHANGED <<serverVars, row, historyVars>>

\* The error is logged and swallowed.
LogFails(r) ==
  /\ req[r].pc = "log"
  /\ \/ log' = [log EXCEPT ![r] = req[r].entry]
     \/ UNCHANGED log
  /\ lost' = lost \cup {r}
  /\ Proceed(r, "reply")
  /\ UNCHANGED <<serverVars, row, seen, stored, charged>>

Reply(r) ==
  /\ req[r].pc = "reply"
  /\ Proceed(r, "done")
  /\ UNCHANGED <<serverVars, databaseVars, historyVars>>

---------------------------------------------------------------------------------
(* The client, time and the machine *)

\* The client goes away.  A statement that was under way and took effect is the step
\* before this one.
Cancel(r) ==
  /\ r \in InProgress
  /\ Proceed(r, "gone")
  /\ UNCHANGED <<serverVars, databaseVars, historyVars>>

TokensComeBack == /\ key # None
                  /\ Replenish
                  /\ UNCHANGED <<key, req, databaseVars, historyVars>>

\* The server goes down: its tasks are gone, the database stays.
Crash == /\ key # None
         /\ key' = None
         /\ req' = [r \in Requests |-> IF r \in InProgress THEN [req[r] EXCEPT !.pc = "gone"]
                                                           ELSE req[r]]
         /\ UNCHANGED <<tokens, databaseVars, historyVars>>

\* Mutant of ParseEncryptionKey: what is not a key is only found out when it is used.
AnyEncryptionKey(raw) == raw

\* Whatever TOTP_ENCRYPTION_KEY holds, only 32 bytes make a key.
ParseEncryptionKey(raw) == IF raw \in Keys THEN raw ELSE None

\* What the process finds in its environment: the key, whether every required variable is
\* there and every optional one that is set parses, and the limiter's settings.
Environments == [key : Keys \cup {Malformed}, required : BOOLEAN,
                 max_requests : {0, RATE_LIMIT_MAX_REQUESTS}, window_seconds : {0, 1}]

\* Config::from_env: the key to run with, or None if the configuration is refused.
FromEnv(env) == IF env.required /\ env.max_requests # 0 /\ env.window_seconds # 0
                THEN ParseEncryptionKey(env.key)
                ELSE None

\* main, with the key that the environment holds by now and full buckets.  A start that
\* fails (configuration, database, migrations, address) leaves the server down.
StartUp == /\ key = None
           /\ \E env \in Environments : key' = FromEnv(env)
           /\ BucketRestart
           /\ UNCHANGED <<req, databaseVars, historyVars>>

Middleware(r) == \/ ArriveWithoutToken(r) \/ ArriveWithToken(r)
                 \/ Authenticated(r) \/ TokenDenied(r) \/ KeycloakUnavailable(r)
                 \/ Limit(r) \/ TooManyRequests(r)

Handlers(r) == \/ NoSecret(r) \/ GetSecret(r) \/ GetFails(r)
               \/ Touch(r) \/ TouchFails(r)
               \/ RefuseProvision(r) \/ AcceptProvision(r)
               \/ Upsert(r) \/ UpsertFails(r)

Next == \/ \E r \in Requests : \/ Middleware(r) \/ Handlers(r)
                               \/ LogRequest(r) \/ LogFails(r) \/ Reply(r) \/ Cancel(r)
        \/ TokensComeBack
        \/ Crash
        \/ StartUp

Spec == Init /\ [][Next]_vars

---------------------------------------------------------------------------------
(* Properties *)

Secrets == Requests \cup {Earlier}
Statuses == {200, 401, 403, 404, 422, 429, 500, 503}
Entries == [subject : Subjects \cup {None},
            result : {"issued", "denied_inactive_token", "denied_no_secret", "rate_limited",
                      "provisioned"}]

Places == {"new", "auth", "limit", "request", "touch", "provision", "upsert", "log",
           "reply", "done", "gone"}

Records == [pc : Places,
            path : {"request", "provision", None},
            caller : Subjects \cup {None},
            target : Subjects \cup {None},
            held : Secrets \cup {None},
            status : Statuses \cup {None},
            entry : Entries \cup {None}]

\* Type invariant.
TypeOK ==
  /\ tokens \in [Subjects -> 0 .. RATE_LIMIT_MAX_REQUESTS]
  /\ key \in Keys \cup {None}
  /\ req \in [Requests -> Records]
  /\ row \in [Subjects -> [sealed : [secret : Secrets \cup {None}, key : Keys \cup {None}],
                       used : BOOLEAN]]
  /\ log \in [Requests -> Entries \cup {None}]
  /\ lost \subseteq Requests
  /\ seen \in [Requests -> SUBSET (Secrets \cup {None})]
  /\ stored \in [Requests -> SUBSET Requests]
  /\ charged \in [Requests -> Subjects \cup {None}]

\* A PIN is only ever made from a secret that the caller's own row held at some moment since
\* the caller was authenticated, however provisioning interleaves with it, and never from
\* one that was minted for somebody else (routes/totp.rs:26-34).
PinOfOwnSecret ==
  \A r \in Requests :
    req[r].path = "request" /\ req[r].held # None =>
      /\ req[r].held \in seen[r]
      /\ req[r].held \in Requests => req[req[r].held].target = req[r].caller

\* Whoever's request is refused or dropped half-way, a row of totp_secrets only ever holds a
\* secret that an authenticated, rate-limited admin asked for that very subject
\* (routes/provision.rs:33-47).
RowsAreProvisioned ==
  \A s \in Subjects :
    LET q == Stored(s)
    IN  q \in Requests => /\ req[q].caller \in Admins
                          /\ req[q].target = s
                          /\ charged[q] = req[q].caller

\* The row that a response calls for, if any.
ExpectedEntry(r) ==
  CASE req[r].status \in {401, 403} /\ req[r].caller = None -> Entry(None, "denied_inactive_token")
    [] req[r].status = 429 -> Entry(req[r].caller, "rate_limited")
    [] req[r].status = 404 -> Entry(req[r].caller, "denied_no_secret")
    [] req[r].status = 200 /\ req[r].path = "request" -> Entry(req[r].caller, "issued")
    [] req[r].status = 200 /\ req[r].path = "provision" -> Entry(req[r].target, "provisioned")
    [] OTHER -> None

\* The audit trail neither lies nor lags: no response leaves before the row it calls for is
\* written, unless that very insert failed, and a request that ends otherwise has left
\* that row or none (middleware.rs:23-45, 68-79, secret_store.rs:98-115).
AuditTrail ==
  \A r \in Requests :
    /\ req[r].pc \in {"reply", "done"} /\ r \notin lost => log[r] = ExpectedEntry(r)
    /\ log[r] \in {None, ExpectedEntry(r)}

\* A 403 of a caller that is known is the handler's own; one of a caller that is not, and
\* the statuses 401, 429 and 503, come from the layers around it.
AnsweredByHandler(r) == \/ req[r].status \in {200, 404, 422, 500}
                        \/ req[r].status = 403 /\ req[r].caller # None

\* Every request that reaches a handler has paid with a token of its own subject, on both
\* routes, and a request that is refused before has cost nobody anything: the order of the
\* layers (routes/mod.rs:23-40).
PaidFor ==
  \A r \in Requests :
    /\ charged[r] \in {None, req[r].caller}
    /\ req[r].held # None \/ AnsweredByHandler(r) => charged[r] # None
    /\ req[r].status # None /\ ~AnsweredByHandler(r) => charged[r] = None

\* last_used_at of a row was set by a PIN request of that subject that was under way when the
\* row's secret was registered, or came after: a use of a replaced secret shows on the new
\* one only if the two overlapped (secret_store.rs:61-91).
LastUsedIsRecent ==
  \A s \in Subjects :
    row[s].used => \E r \in Requests : /\ req[r].caller = s
                                       /\ req[r].path = "request"
                                       /\ req[r].held # None
                                       /\ Stored(s) \in seen[r]

\* Whoever is told that a secret was registered can rely on it: that very secret was stored,
\* and from then on the subject's row holds it or one that was stored after it, never one
\* that it replaced and never nothing, whatever the other admins do and whatever fails or
\* restarts (provision.rs:46-63, secret_store.rs:64-82).
AnsweredSecretIsStored ==
  \A r \in Requests :
    req[r].status = 200 /\ req[r].path = "provision" =>
      /\ r \in stored[r]
      /\ Stored(req[r].target) \in stored[r]

\* "No secret registered" is said only to a caller whose row was missing while the request
\* was under way: a row that the server cannot open, as after a change of the key, is an
\* error and not an invitation to register anew (secret_store.rs:45-58, crypto.rs:46-57).
NotFoundMeansUnregistered ==
  \A r \in Requests : req[r].status = 404 => None \in seen[r]
=================================================================================
