------------------------------ MODULE Introspection ------------------------------
(* Single-flight token introspection (totp-server/src/auth/introspection.rs).      *)
(*                                                                                 *)
(* Requests run concurrently, each bearing a token.  The first to arrive for a     *)
(* token leads: it puts a broadcast sender in the `inflight' map, calls Keycloak,  *)
(* sends the outcome to whoever subscribed meanwhile, and takes the sender out     *)
(* again.  The others wait on the channel; one whose channel closes without an     *)
(* outcome calls Keycloak itself.  Each critical section of the map's mutex is one *)
(* action, and a request is cancelled (its future dropped) only where it awaits.   *)
(*                                                                                 *)
(* A request identifier stands for a connection: it is used again after its reply. *)
EXTENDS Integers, FiniteSets

CONSTANTS
  Requests, Tokens,
  OurAudience,   \* tokens whose `aud' names this server
  WithSub,       \* tokens whose introspection response has a `sub'
  WithExp,       \* tokens whose introspection response has an `exp'
  None

ASSUME TokenAssumption == /\ OurAudience \subseteq Tokens
                          /\ WithSub \subseteq Tokens
                          /\ WithExp \subseteq Tokens
                          /\ None \notin Requests \cup Tokens

VARIABLES
  pc,        \* where each request is
  token,     \* the token it bears
  answer,    \* Keycloak's answer on its way back to the request: None, TRUE or FALSE
  outcome,   \* the outcome the request has in hand
  inflight,  \* per token, the request whose sender is in the map
  subs,      \* per token, the receivers of that sender
  mailbox,   \* what a follower's receiver holds: NoOutcome, Closed or an outcome
  valid,     \* Keycloak has not revoked the token
  expired,   \* the token's `exp' has passed
  credit,    \* history: what held of the token since the request arrived
  loan       \* history: the credit others in progress for the token had when it arrived

vars == <<pc, token, answer, outcome, inflight, subs, mailbox, valid, expired, credit, loan>>

keycloakVars == <<valid, expired>>
historyVars == <<credit, loan>>

\* IntrospectionOutcome; `Active' carries the user the token's claims name.
Active(t) == [kind |-> "Active", user |-> t]
Inactive == [kind |-> "Inactive", user |-> None]
WrongAudience == [kind |-> "WrongAudience", user |-> None]
Unavailable == [kind |-> "Unavailable", user |-> None]
NoOutcome == [kind |-> "none", user |-> None]
Closed == [kind |-> "closed", user |-> None]

Outcomes == {Active(t) : t \in Tokens} \cup {Inactive, WrongAudience, Unavailable}

Calling == {"call", "fallback"}
Leading == {"call", "publish", "unguard"}

---------------------------------------------------------------------------------
Init == /\ pc = [r \in Requests |-> "idle"]
        /\ token = [r \in Requests |-> None]
        /\ answer = [r \in Requests |-> None]
        /\ outcome = [r \in Requests |-> NoOutcome]
        /\ inflight = [t \in Tokens |-> None]
        /\ subs = [t \in Tokens |-> {}]
        /\ mailbox = [r \in Requests |-> NoOutcome]
        /\ valid = [t \in Tokens |-> TRUE]
        /\ expired = [t \in Tokens |-> FALSE]
        /\ credit = [r \in Requests |-> {}]
        /\ loan = [r \in Requests |-> {}]

InProgress(t) == {q \in Requests : pc[q] # "idle" /\ token[q] = t}

\* History of an arrival: whether the token is unexpired and unrevoked now, and what is
\* known to hold since the arrivals of the requests in progress for it.
Arrive(r, t) ==
  /\ token' = [token EXCEPT ![r] = t]
  /\ credit' = [credit EXCEPT ![r] = {c \in {"unexpired", "unrevoked"} :
                                        /\ c = "unexpired" => ~expired[t]
                                        /\ c = "unrevoked" => valid[t]}]
  /\ loan' = [loan EXCEPT ![r] = UNION {credit[q] : q \in InProgress(t)}]

\* The first critical section: no sender in the map, so put one there and lead.
Lead(r, t) ==
  /\ pc[r] = "idle"
  /\ inflight[t] = None
  /\ inflight' = [inflight EXCEPT ![t] = r]
  /\ pc' = [pc EXCEPT ![r] = "call"]
  /\ Arrive(r, t)
  /\ UNCHANGED <<answer, outcome, subs, mailbox, keycloakVars>>

\* The first critical section: subscribe to the sender in the map.
Follow(r, t) ==
  /\ pc[r] = "idle"
  /\ inflight[t] # None
  /\ subs' = [subs EXCEPT ![t] = @ \cup {r}]
  /\ pc' = [pc EXCEPT ![r] = "wait"]
  /\ Arrive(r, t)
  /\ UNCHANGED <<answer, outcome, inflight, mailbox, keycloakVars>>

(* The call *)

\* External: Keycloak looks the token up.  It never calls a revoked token active; of an
\* expired one it should not either, but a stale or misconfigured endpoint may.  Inactive it
\* may call any, for reasons of its own (a session that ended, a user who was disabled).
KeycloakAnswer(r) ==
  LET t == token[r]
  IN  /\ pc[r] \in Calling
      /\ answer[r] = None
      /\ \E active \in BOOLEAN :
           /\ active => valid[t]
           /\ answer' = [answer EXCEPT ![r] = active]
           /\ credit' = [q \in Requests |->
                           IF active /\ q \in InProgress(t) THEN credit[q] \cup {"answer"}
                                                            ELSE credit[q]]
      /\ UNCHANGED <<pc, token, outcome, inflight, subs, mailbox, keycloakVars, loan>>

\* Mutant of MeantForOthers: the audience is not checked.
MeantForNoOther(t) == FALSE

MeantForOthers(t) == t \notin OurAudience

\* evaluate: the order of the checks is the code's.
Evaluate(t, active) ==
  IF ~active THEN Inactive
  ELSE IF t \in WithExp /\ expired[t] THEN Inactive
  ELSE IF MeantForOthers(t) THEN WrongAudience
  ELSE IF t \notin WithSub THEN Unavailable
  ELSE Active(t)

\* Where a request that has its outcome goes: a leader has yet to publish it.
EndCall(r, result) ==
  /\ pc[r] \in Calling
  /\ pc' = [pc EXCEPT ![r] = IF @ = "call" THEN "publish" ELSE "done"]
  /\ outcome' = [outcome EXCEPT ![r] = result]
  /\ answer' = [answer EXCEPT ![r] = None]
  /\ UNCHANGED <<token, inflight, subs, mailbox, keycloakVars, historyVars>>

ReceiveAnswer(r) == answer[r] # None /\ EndCall(r, Evaluate(token[r], answer[r]))

\* Mutant of CallFails: without an answer the request is let in.
CallFailsOpen(r) == EndCall(r, Active(token[r]))

\* No connection, the client's timeout, an error status, or a body that does not parse;
\* Keycloak may have answered by then or not.
CallFails(r) == EndCall(r, Unavailable)

(* The leader's second and third critical sections *)

Publish(r) ==
  /\ pc[r] = "publish"
  /\ mailbox' = [q \in Requests |->
                   IF q \in subs[token[r]] THEN outcome[r] ELSE mailbox[q]]
  /\ pc' = [pc EXCEPT ![r] = "unguard"]
  /\ UNCHANGED <<token, answer, outcome, inflight, subs, keycloakVars, historyVars>>

\* Mutant of CloseChannel: the channel stays open when its sender has left the map.
LeaveChannelOpen(t) == UNCHANGED mailbox

\* A receiver that holds an outcome still delivers it.
CloseChannel(t) ==
  mailbox' = [q \in Requests |->
                IF q \in subs[t] /\ mailbox[q] = NoOutcome THEN Closed ELSE mailbox[q]]

\* InflightGuard::drop: the sender leaves the map and is dropped, which closes its channel.
RemoveSender(t) ==
  /\ inflight' = [inflight EXCEPT ![t] = None]
  /\ subs' = [subs EXCEPT ![t] = {}]
  /\ CloseChannel(t)

DropGuard(r) ==
  /\ pc[r] = "unguard"
  /\ RemoveSender(token[r])
  /\ pc' = [pc EXCEPT ![r] = "done"]
  /\ UNCHANGED <<token, answer, outcome, keycloakVars, historyVars>>

(* The follower *)

\* Mutant of HasOutcome: whatever ends the wait is taken for an outcome.
HasAnything(r) == mailbox[r] # NoOutcome

HasOutcome(r) == mailbox[r] \in Outcomes

ReceiveOutcome(r) ==
  /\ pc[r] = "wait"
  /\ HasOutcome(r)
  /\ pc' = [pc EXCEPT ![r] = "done"]
  /\ outcome' = [outcome EXCEPT ![r] = mailbox[r]]
  /\ subs' = [subs EXCEPT ![token[r]] = @ \ {r}]
  /\ mailbox' = [mailbox EXCEPT ![r] = NoOutcome]
  /\ UNCHANGED <<token, answer, inflight, keycloakVars, historyVars>>

\* Fall through and do the call, without leading.
ReceiveClosed(r) ==
  /\ pc[r] = "wait"
  /\ mailbox[r] = Closed
  /\ pc' = [pc EXCEPT ![r] = "fallback"]
  /\ mailbox' = [mailbox EXCEPT ![r] = NoOutcome]
  /\ UNCHANGED <<token, answer, outcome, inflight, subs, keycloakVars, historyVars>>

(* The end of a request *)

Forget(r) ==
  /\ pc' = [pc EXCEPT ![r] = "idle"]
  /\ token' = [token EXCEPT ![r] = None]
  /\ answer' = [answer EXCEPT ![r] = None]
  /\ outcome' = [outcome EXCEPT ![r] = NoOutcome]
  /\ credit' = [credit EXCEPT ![r] = {}]
  /\ loan' = [loan EXCEPT ![r] = {}]
  /\ UNCHANGED keycloakVars

\* The outcome is returned and acted upon.
Reply(r) == /\ pc[r] = "done"
            /\ Forget(r)
            /\ UNCHANGED <<inflight, subs, mailbox>>

\* Mutant of CancelLeader: no guard, so the entry outlives the request.
CancelWithoutGuard(r) == /\ pc[r] = "call"
                         /\ Forget(r)
                         /\ UNCHANGED <<inflight, subs, mailbox>>

\* The client goes away and the future is dropped at an await: a leader's guard runs, a
\* follower's receiver is dropped.
CancelLeader(r) == /\ pc[r] = "call"
                   /\ Forget(r)
                   /\ RemoveSender(token[r])

CancelFollower(r) == /\ pc[r] = "wait"
                     /\ Forget(r)
                     /\ subs' = [subs EXCEPT ![token[r]] = @ \ {r}]
                     /\ mailbox' = [mailbox EXCEPT ![r] = NoOutcome]
                     /\ UNCHANGED inflight

CancelFallback(r) == /\ pc[r] = "fallback"
                     /\ Forget(r)
                     /\ UNCHANGED <<inflight, subs, mailbox>>

(* Keycloak and the clock *)

Revoke(t) == /\ valid[t]
             /\ valid' = [valid EXCEPT ![t] = FALSE]
             /\ UNCHANGED <<pc, token, answer, outcome, inflight, subs, mailbox, expired,
                            historyVars>>

\* A token without an `exp' never expires.
Expire(t) == /\ t \in WithExp
             /\ ~expired[t]
             /\ expired' = [expired EXCEPT ![t] = TRUE]
             /\ UNCHANGED <<pc, token, answer, outcome, inflight, subs, mailbox, valid,
                            historyVars>>

---------------------------------------------------------------------------------
EndOfCall(r) == ReceiveAnswer(r) \/ CallFails(r)

TaskStep(r) == \/ EndOfCall(r) \/ Publish(r) \/ DropGuard(r)
               \/ ReceiveOutcome(r) \/ ReceiveClosed(r) \/ Reply(r)

Cancel(r) == CancelLeader(r) \/ CancelFollower(r) \/ CancelFallback(r)

Environment(r) == (\E t \in Tokens : Lead(r, t) \/ Follow(r, t)) \/ KeycloakAnswer(r)

NextWithoutCancel == \/ \E r \in Requests : Environment(r) \/ TaskStep(r)
                     \/ \E t \in Tokens : Revoke(t) \/ Expire(t)

Next == NextWithoutCancel \/ \E r \in Requests : Cancel(r)

Spec == Init /\ [][Next]_vars

\* The runtime polls every ready task, and the HTTP client's timeout (state.rs:14) ends
\* every call; nothing is assumed of clients, of Keycloak or of revocation.
Fairness == \A r \in Requests : WF_vars(TaskStep(r))

FairSpec == Spec /\ Fairness

---------------------------------------------------------------------------------
(* Properties *)

\* Type invariant.
TypeOK ==
  /\ pc \in [Requests -> {"idle", "call", "publish", "unguard", "wait", "fallback", "done"}]
  /\ token \in [Requests -> Tokens \cup {None}]
  /\ answer \in [Requests -> BOOLEAN \cup {None}]
  /\ outcome \in [Requests -> Outcomes \cup {NoOutcome}]
  /\ inflight \in [Tokens -> Requests \cup {None}]
  /\ subs \in [Tokens -> SUBSET Requests]
  /\ mailbox \in [Requests -> Outcomes \cup {NoOutcome, Closed}]
  /\ valid \in [Tokens -> BOOLEAN]
  /\ expired \in [Tokens -> BOOLEAN]
  /\ credit \in [Requests -> SUBSET {"unexpired", "unrevoked", "answer"}]
  /\ loan \in [Requests -> SUBSET {"unexpired", "unrevoked", "answer"}]

\* The map names exactly the requests that lead: at most one per token, and no entry
\* outlives its leader, whether it finished or was cancelled at its call
\* (introspection.rs:90-103).
EntryHasLeader ==
  \A t \in Tokens, r \in Requests :
    inflight[t] = r <=> pc[r] \in Leading /\ token[r] = t

\* No follower is forgotten: as long as it holds neither an outcome nor the news that
\* its channel closed, the sender it subscribed to is still in the map, so that somebody
\* is bound to wake it (introspection.rs:127-143, 152-158).
FollowersWillHear ==
  \A r \in Requests :
    pc[r] = "wait" /\ mailbox[r] = NoOutcome =>
      /\ r \in subs[token[r]]
      /\ inflight[token[r]] # None

\* Never fail open, never cache: a request is let in only with the claims of its own
\* token, only for our audience, only if Keycloak called the token active after the
\* request arrived or after a request still in progress at that moment had arrived, and
\* for a token with an `exp' only if it had not passed by then (introspection.rs:12-17,
\* 27-28, 207-216).
AdmittedOnFreshAnswer ==
  \A r \in Requests :
    outcome[r].kind = "Active" =>
      /\ outcome[r].user = token[r]
      /\ token[r] \in OurAudience \cap WithSub
      /\ "answer" \in credit[r] \cup loan[r]
      /\ token[r] \in WithExp => "unexpired" \in credit[r] \cup loan[r]

\* The claim of introspection.rs:27-28 that a revocation "takes effect on the very next
\* request": no request that arrives after its token was revoked is let in.
RevocationHitsNextRequest ==
  \A r \in Requests : outcome[r].kind = "Active" => "unrevoked" \in credit[r]

\* The claim of introspection.rs:25-26 that concurrent requests with the same token cost
\* Keycloak one call: never are two calls for a token under way.
OneCallPerToken ==
  \A q, r \in Requests :
    pc[q] \in Calling /\ pc[r] \in Calling /\ token[q] = token[r] => q = r

\* Every request is answered, also when its leader is cancelled, when it subscribes
\* after the outcome was sent, and when Keycloak never answers.
EveryRequestEnds == \A r \in Requests : pc[r] # "idle" ~> pc[r] = "idle"
=================================================================================
