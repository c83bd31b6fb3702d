--------------------------- MODULE IntrospectionProofs ---------------------------
(* For every number of requests and tokens: the map and the channels stay           *)
(* consistent, and nobody is let in without a fresh positive answer.                *)
EXTENDS Introspection, TLAPS

(* The inductive invariant *)

\* What a request has in hand tells where it is.
HandsMatchPlace ==
  \A r \in Requests :
    /\ pc[r] # "idle" => token[r] \in Tokens
    /\ answer[r] # None => pc[r] \in Calling
    /\ outcome[r] # NoOutcome => pc[r] \in {"publish", "unguard", "done"}
    /\ mailbox[r] # NoOutcome => pc[r] = "wait"

\* The receivers of a sender in the map belong to followers with its token that wait.
ReceiversWait ==
  \A t \in Tokens : \A r \in subs[t] :
    /\ pc[r] = "wait"
    /\ token[r] = t
    /\ mailbox[r] # Closed
    /\ inflight[t] # None

\* A request that arrived before the token expired, or got a positive answer, has it on its books.
CreditIsKept ==
  \A r \in Requests :
    /\ pc[r] # "idle" /\ ~expired[token[r]] => "unexpired" \in credit[r]
    /\ answer[r] # None /\ answer[r] = TRUE => "answer" \in credit[r]

\* Whatever a leader has on its books its followers have on theirs, or borrowed on arrival.
FollowersBorrow ==
  \A t \in Tokens : \A r \in subs[t] : credit[inflight[t]] \subseteq credit[r] \cup loan[r]

\* An outcome that lets a bearer of token t in is one for t, covered by the books.
Earned(t, result, books) ==
  result.kind = "Active" =>
    /\ result.user = t
    /\ t \in OurAudience \cap WithSub
    /\ "answer" \in books
    /\ t \in WithExp => "unexpired" \in books

\* A leader earned its outcome itself; what is in a mailbox is good for its owner.
OutcomesAreEarned ==
  \A r \in Requests :
    /\ pc[r] = "publish" => Earned(token[r], outcome[r], credit[r])
    /\ Earned(token[r], mailbox[r], credit[r] \cup loan[r])

IntrospectionInv == /\ TypeOK
                    /\ HandsMatchPlace
                    /\ EntryHasLeader
                    /\ ReceiversWait
                    /\ FollowersWillHear
                    /\ CreditIsKept
                    /\ FollowersBorrow
                    /\ OutcomesAreEarned
                    /\ AdmittedOnFreshAnswer

---------------------------------------------------------------------------------
(* Outcomes *)

\* What a mailbox can hold besides an outcome is none, and lets nobody in.
LEMMA NoOutcomeFacts ==
  /\ NoOutcome \notin Outcomes
  /\ Closed \notin Outcomes
  /\ NoOutcome # Closed
  /\ NoOutcome.kind # "Active"
  /\ Closed.kind # "Active"
  /\ Unavailable \in Outcomes
BY DEF NoOutcome, Closed, Outcomes, Active, Inactive, WrongAudience, Unavailable

\* Books only grow, and with them what they cover.
LEMMA EarnedGrows ==
  ASSUME NEW t, NEW result, NEW books, NEW more, books \subseteq more,
         Earned(t, result, books)
  PROVE  Earned(t, result, more)
BY DEF Earned

\* The checks of evaluate, in the order of the code, leave nothing to chance.
LEMMA EvaluateEarns ==
  ASSUME NEW t \in Tokens, NEW active \in BOOLEAN, NEW books,
         active = TRUE => "answer" \in books,
         ~expired[t] => "unexpired" \in books
  PROVE  /\ Evaluate(t, active) \in Outcomes
         /\ Earned(t, Evaluate(t, active), books)
<1>1. Evaluate(t, active) \in Outcomes
  BY DEF Evaluate, Outcomes
<1>2. CASE Evaluate(t, active).kind = "Active"
  <2>1. /\ active = TRUE
        /\ ~(t \in WithExp /\ expired[t])
        /\ t \in OurAudience \cap WithSub
        /\ Evaluate(t, active) = Active(t)
    BY <1>2 DEF Evaluate, MeantForOthers, Inactive, WrongAudience, Unavailable
  <2> QED BY <1>1, <2>1 DEF Earned, Active
<1> QED BY <1>1, <1>2 DEF Earned

---------------------------------------------------------------------------------
(* One lemma per kind of step: Init, arrival, the call, publication, the follower, the end. *)

\* At first nobody asks and the map is empty.
LEMMA IntrospectionInvInit == Init => IntrospectionInv
<1> SUFFICES ASSUME Init PROVE IntrospectionInv
  OBVIOUS
<1>1. TypeOK
  BY DEF Init, TypeOK
<1>2. HandsMatchPlace /\ ReceiversWait /\ FollowersWillHear /\ CreditIsKept /\ FollowersBorrow
  BY DEF Init, HandsMatchPlace, ReceiversWait, FollowersWillHear, CreditIsKept, FollowersBorrow
<1>3. EntryHasLeader
  BY TokenAssumption DEF Init, EntryHasLeader, Leading
<1>4. OutcomesAreEarned /\ AdmittedOnFreshAnswer
  BY NoOutcomeFacts DEF Init, OutcomesAreEarned, AdmittedOnFreshAnswer, Earned
<1> QED BY <1>1, <1>2, <1>3, <1>4 DEF IntrospectionInv

\* A request arrives: whatever the others have on their books it may borrow.
LEMMA ArriveTypes ==
  ASSUME TypeOK, NEW r \in Requests, NEW t \in Tokens, Arrive(r, t)
  PROVE  /\ token' \in [Requests -> Tokens \cup {None}]
         /\ credit' \in [Requests -> SUBSET {"unexpired", "unrevoked", "answer"}]
         /\ loan' \in [Requests -> SUBSET {"unexpired", "unrevoked", "answer"}]
         /\ token'[r] = t
         /\ ~expired[t] => "unexpired" \in credit'[r]
         /\ \A q \in Requests \ {r} : token'[q] = token[q] /\ credit'[q] = credit[q] /\ loan'[q] = loan[q]
         /\ \A q \in InProgress(t) : credit[q] \subseteq loan'[r]
<1>1. UNION {credit[q] : q \in InProgress(t)} \in SUBSET {"unexpired", "unrevoked", "answer"}
  BY DEF TypeOK, InProgress
<1> DEFINE C == {c \in {"unexpired", "unrevoked"} : /\ c = "unexpired" => ~expired[t]
                                                    /\ c = "unrevoked" => valid[t]}
<1>2. credit' = [credit EXCEPT ![r] = C]
  BY DEF Arrive
<1>4. C \in SUBSET {"unexpired", "unrevoked", "answer"} /\ (~expired[t] => "unexpired" \in C)
  OBVIOUS
<1> HIDE DEF C
<1>3. loan'[r] = UNION {credit[q] : q \in InProgress(t)}
  BY DEF Arrive, TypeOK
<1> QED BY <1>1, <1>2, <1>3, <1>4 DEF Arrive, TypeOK

\* The first request for a token enters the map and calls.
LEMMA LeadKeepsInv ==
  ASSUME IntrospectionInv, NEW r \in Requests, NEW t \in Tokens, Lead(r, t)
  PROVE  IntrospectionInv'
<1> USE TokenAssumption
<1>1. TypeOK /\ Arrive(r, t) /\ pc[r] = "idle"
  BY DEF IntrospectionInv, Lead
<1>2. TypeOK'
  BY <1>1, ArriveTypes DEF Lead, TypeOK, keycloakVars
<1>3. HandsMatchPlace'
  BY <1>1, ArriveTypes DEF IntrospectionInv, HandsMatchPlace, Lead, TypeOK, Calling
<1>4. EntryHasLeader'
  BY <1>1, ArriveTypes DEF IntrospectionInv, EntryHasLeader, Lead, TypeOK, Leading
<1>5. subs[t] = {} /\ \A u \in Tokens : r \notin subs[u]
  BY <1>1 DEF IntrospectionInv, ReceiversWait, Lead
<1>6. ReceiversWait'
  BY <1>1, <1>5, ArriveTypes DEF IntrospectionInv, ReceiversWait, Lead, TypeOK
<1>7. FollowersWillHear'
  BY <1>1, ArriveTypes DEF IntrospectionInv, FollowersWillHear, HandsMatchPlace, Lead, TypeOK
<1>8. CreditIsKept'
  BY <1>1, ArriveTypes DEF IntrospectionInv, CreditIsKept, HandsMatchPlace, Lead, TypeOK, keycloakVars, Calling
<1>9. FollowersBorrow'
  <2> SUFFICES ASSUME NEW u \in Tokens, NEW q \in subs'[u]
               PROVE  credit'[inflight'[u]] \subseteq credit'[q] \cup loan'[q]
    BY DEF FollowersBorrow
  <2>1. q \in subs[u] /\ u # t /\ q # r /\ q \in Requests /\ inflight'[u] = inflight[u]
    BY <1>1, <1>5 DEF Lead, TypeOK
  <2>2. inflight[u] \in Requests /\ inflight[u] # r
    BY <1>1, <2>1 DEF IntrospectionInv, ReceiversWait, EntryHasLeader, Leading, TypeOK
  <2> QED BY <1>1, <2>1, <2>2, ArriveTypes DEF IntrospectionInv, FollowersBorrow
<1>10. outcome[r] = NoOutcome /\ mailbox[r] = NoOutcome
  BY <1>1 DEF IntrospectionInv, HandsMatchPlace
<1>11. OutcomesAreEarned'
  BY <1>1, <1>10, ArriveTypes, NoOutcomeFacts DEF IntrospectionInv, OutcomesAreEarned, Earned, Lead, TypeOK
<1>12. AdmittedOnFreshAnswer'
  BY <1>1, <1>10, ArriveTypes, NoOutcomeFacts DEF IntrospectionInv, AdmittedOnFreshAnswer, Lead, TypeOK
<1> QED BY <1>2, <1>3, <1>4, <1>6, <1>7, <1>8, <1>9, <1>11, <1>12 DEF IntrospectionInv

\* One that finds a sender there subscribes, and may from then on rely on what the leader has.
LEMMA FollowKeepsInv ==
  ASSUME IntrospectionInv, NEW r \in Requests, NEW t \in Tokens, Follow(r, t)
  PROVE  IntrospectionInv'
<1> USE TokenAssumption
<1>1. TypeOK /\ Arrive(r, t) /\ pc[r] = "idle"
  BY DEF IntrospectionInv, Follow
<1>2. TypeOK'
  BY <1>1, ArriveTypes DEF Follow, TypeOK, keycloakVars
<1>3. HandsMatchPlace'
  BY <1>1, ArriveTypes DEF IntrospectionInv, HandsMatchPlace, Follow, TypeOK, Calling
<1>4. EntryHasLeader'
  BY <1>1, ArriveTypes DEF IntrospectionInv, EntryHasLeader, Follow, TypeOK, Leading
<1>5. \A u \in Tokens : r \notin subs[u]
  BY <1>1 DEF IntrospectionInv, ReceiversWait
<1>6. outcome[r] = NoOutcome /\ mailbox[r] = NoOutcome
  BY <1>1 DEF IntrospectionInv, HandsMatchPlace
<1>7. ReceiversWait'
  BY <1>1, <1>5, <1>6, ArriveTypes, NoOutcomeFacts DEF IntrospectionInv, ReceiversWait, Follow, TypeOK
<1>8. FollowersWillHear'
  BY <1>1, ArriveTypes DEF IntrospectionInv, FollowersWillHear, HandsMatchPlace, Follow, TypeOK
<1>9. CreditIsKept'
  BY <1>1, ArriveTypes DEF IntrospectionInv, CreditIsKept, HandsMatchPlace, Follow, TypeOK, keycloakVars, Calling
<1>10. FollowersBorrow'
  <2> SUFFICES ASSUME NEW u \in Tokens, NEW q \in subs'[u]
               PROVE  credit'[inflight'[u]] \subseteq credit'[q] \cup loan'[q]
    BY DEF FollowersBorrow
  <2>1. /\ inflight' = inflight /\ q \in Requests
        /\ (q \in subs[u] /\ q # r) \/ (q = r /\ u = t)
    BY <1>1, <1>5 DEF Follow, TypeOK
  <2>2. inflight[u] \in Requests /\ pc[inflight[u]] # "idle" /\ token[inflight[u]] = u /\ inflight[u] # r
    BY <1>1, <2>1 DEF IntrospectionInv, ReceiversWait, EntryHasLeader, Leading, TypeOK, Follow
  <2>3. CASE q = r /\ u = t
    BY <1>1, <2>1, <2>2, <2>3, ArriveTypes DEF InProgress
  <2>4. CASE q \in subs[u] /\ q # r
    BY <1>1, <2>1, <2>2, <2>4, ArriveTypes DEF IntrospectionInv, FollowersBorrow
  <2> QED BY <2>1, <2>3, <2>4
<1>11. OutcomesAreEarned'
  BY <1>1, <1>6, ArriveTypes, NoOutcomeFacts DEF IntrospectionInv, OutcomesAreEarned, Earned, Follow, TypeOK
<1>12. AdmittedOnFreshAnswer'
  BY <1>1, <1>6, ArriveTypes, NoOutcomeFacts DEF IntrospectionInv, AdmittedOnFreshAnswer, Follow, TypeOK
<1> QED BY <1>2, <1>3, <1>4, <1>7, <1>8, <1>9, <1>10, <1>11, <1>12 DEF IntrospectionInv

\* An answer is on the books of everybody in progress for the token, leader and followers alike.
LEMMA KeycloakAnswerKeepsInv ==
  ASSUME IntrospectionInv, NEW r \in Requests, KeycloakAnswer(r)
  PROVE  IntrospectionInv'
<1>1. TypeOK /\ pc[r] \in Calling
  BY DEF IntrospectionInv, KeycloakAnswer
<1>2. PICK active \in BOOLEAN :
        /\ answer' = [answer EXCEPT ![r] = active]
        /\ credit' = [q \in Requests |->
                        IF active /\ q \in InProgress(token[r]) THEN credit[q] \cup {"answer"}
                                                                ELSE credit[q]]
  BY DEF KeycloakAnswer
<1>3. /\ UNCHANGED <<pc, token, outcome, inflight, subs, mailbox, valid, expired, loan>>
      /\ token[r] \in Tokens
      /\ r \in InProgress(token[r])
  BY <1>1 DEF IntrospectionInv, HandsMatchPlace, KeycloakAnswer, keycloakVars, InProgress, Calling
<1>4. /\ credit' \in [Requests -> SUBSET {"unexpired", "unrevoked", "answer"}]
      /\ \A q \in Requests : credit[q] \subseteq credit'[q]
      /\ \A q \in Requests : credit'[q] \subseteq credit[q] \cup {"answer"}
  BY <1>1, <1>2 DEF TypeOK
<1>5. TypeOK'
  BY <1>1, <1>2, <1>3, <1>4 DEF TypeOK
<1>6. HandsMatchPlace' /\ EntryHasLeader' /\ ReceiversWait' /\ FollowersWillHear'
  BY <1>1, <1>2, <1>3 DEF IntrospectionInv, HandsMatchPlace, EntryHasLeader, ReceiversWait,
                          FollowersWillHear, TypeOK
<1>7. CreditIsKept'
  BY <1>1, <1>2, <1>3, <1>4 DEF IntrospectionInv, CreditIsKept, TypeOK
<1>8. FollowersBorrow'
  <2> SUFFICES ASSUME NEW u \in Tokens, NEW q \in subs[u]
               PROVE  credit'[inflight[u]] \subseteq credit'[q] \cup loan[q]
    BY <1>3 DEF FollowersBorrow
  <2>1. /\ q \in Requests /\ pc[q] # "idle" /\ token[q] = u
        /\ inflight[u] \in Requests /\ token[inflight[u]] = u
        /\ credit[inflight[u]] \subseteq credit[q] \cup loan[q]
    BY <1>1 DEF IntrospectionInv, ReceiversWait, EntryHasLeader, FollowersBorrow, TypeOK
  <2>2. CASE active /\ u = token[r]
    BY <1>2, <1>4, <2>1, <2>2 DEF InProgress
  <2>3. CASE ~(active /\ u = token[r])
    BY <1>2, <1>4, <2>1, <2>3 DEF InProgress
  <2> QED BY <2>2, <2>3
<1>9. OutcomesAreEarned'
  BY <1>3, <1>4 DEF IntrospectionInv, OutcomesAreEarned, Earned
<1>10. AdmittedOnFreshAnswer'
  BY <1>3, <1>4 DEF IntrospectionInv, AdmittedOnFreshAnswer
<1> QED BY <1>5, <1>6, <1>7, <1>8, <1>9, <1>10 DEF IntrospectionInv

\* The call ends with an outcome that the books of the caller cover.
LEMMA EndCallKeepsInv ==
  ASSUME IntrospectionInv, NEW r \in Requests, NEW result \in Outcomes,
         Earned(token[r], result, credit[r]), EndCall(r, result)
  PROVE  IntrospectionInv'
<1> USE TokenAssumption
<1>1. /\ TypeOK /\ pc[r] \in Calling
      /\ UNCHANGED <<token, inflight, subs, mailbox, valid, expired, credit, loan>>
  BY DEF IntrospectionInv, EndCall, keycloakVars, historyVars
<1>2. TypeOK'
  BY <1>1 DEF TypeOK, EndCall
<1>3. HandsMatchPlace'
  BY <1>1 DEF IntrospectionInv, HandsMatchPlace, EndCall, TypeOK, Calling
<1>4. EntryHasLeader'
  BY <1>1 DEF IntrospectionInv, EntryHasLeader, EndCall, TypeOK, Leading, Calling
<1>5. ReceiversWait' /\ FollowersWillHear'
  BY <1>1 DEF IntrospectionInv, ReceiversWait, FollowersWillHear, EndCall, TypeOK, Calling
<1>6. CreditIsKept'
  BY <1>1 DEF IntrospectionInv, CreditIsKept, EndCall, TypeOK, Calling
<1>7. FollowersBorrow'
  BY <1>1 DEF IntrospectionInv, FollowersBorrow
<1>8. OutcomesAreEarned'
  BY <1>1 DEF IntrospectionInv, OutcomesAreEarned, EndCall, TypeOK, Calling
<1>9. AdmittedOnFreshAnswer'
  BY <1>1 DEF IntrospectionInv, AdmittedOnFreshAnswer, Earned, EndCall, TypeOK
<1> QED BY <1>2, <1>3, <1>4, <1>5, <1>6, <1>7, <1>8, <1>9 DEF IntrospectionInv

\* Every way a call can end, a failure or an answer, leaves an outcome that was earned.
LEMMA EndOfCallKeepsInv ==
  ASSUME IntrospectionInv, NEW r \in Requests, EndOfCall(r)
  PROVE  IntrospectionInv'
<1>1. CASE CallFails(r)
  <2>1. Earned(token[r], Unavailable, credit[r])
    BY DEF Earned, Unavailable
  <2> QED BY <1>1, <2>1, NoOutcomeFacts, EndCallKeepsInv DEF CallFails
<1>2. CASE ReceiveAnswer(r)
  <2>1. /\ token[r] \in Tokens
        /\ answer[r] \in BOOLEAN
        /\ answer[r] = TRUE => "answer" \in credit[r]
        /\ ~expired[token[r]] => "unexpired" \in credit[r]
    BY <1>2 DEF ReceiveAnswer, EndCall, IntrospectionInv, TypeOK, HandsMatchPlace, CreditIsKept, Calling
  <2>2. /\ Evaluate(token[r], answer[r]) \in Outcomes
        /\ Earned(token[r], Evaluate(token[r], answer[r]), credit[r])
    BY <2>1, EvaluateEarns
  <2> QED BY <1>2, <2>2, EndCallKeepsInv DEF ReceiveAnswer
<1> QED BY <1>1, <1>2 DEF EndOfCall

\* The leader hands its outcome to everybody who borrowed from it.
LEMMA PublishKeepsInv ==
  ASSUME IntrospectionInv, NEW r \in Requests, Publish(r)
  PROVE  IntrospectionInv'
<1> USE TokenAssumption
<1>1. /\ TypeOK /\ pc[r] = "publish" /\ token[r] \in Tokens /\ inflight[token[r]] = r
      /\ UNCHANGED <<token, answer, outcome, inflight, subs, valid, expired, credit, loan>>
  BY DEF IntrospectionInv, HandsMatchPlace, EntryHasLeader, Leading, Publish, keycloakVars, historyVars
<1>2. mailbox' = [q \in Requests |-> IF q \in subs[token[r]] THEN outcome[r] ELSE mailbox[q]]
  BY DEF Publish
<1>3. TypeOK'
  BY <1>1, <1>2 DEF TypeOK, Publish
<1>4. HandsMatchPlace'
  BY <1>1, <1>2 DEF IntrospectionInv, HandsMatchPlace, ReceiversWait, Publish, TypeOK, Calling
<1>5. EntryHasLeader'
  BY <1>1 DEF IntrospectionInv, EntryHasLeader, Publish, TypeOK, Leading
<1>6. ReceiversWait'
  BY <1>1, <1>2, NoOutcomeFacts DEF IntrospectionInv, ReceiversWait, Publish, TypeOK
<1>7. FollowersWillHear'
  BY <1>1, <1>2 DEF IntrospectionInv, FollowersWillHear, ReceiversWait, Publish, TypeOK
<1>8. CreditIsKept' /\ FollowersBorrow'
  BY <1>1 DEF IntrospectionInv, CreditIsKept, FollowersBorrow, Publish, TypeOK
<1>9. ASSUME NEW q \in subs[token[r]]
      PROVE  Earned(token[q], outcome[r], credit[q] \cup loan[q])
  <2>1. /\ token[q] = token[r]
        /\ Earned(token[r], outcome[r], credit[r])
        /\ credit[r] \subseteq credit[q] \cup loan[q]
    BY <1>1, <1>9 DEF IntrospectionInv, ReceiversWait, OutcomesAreEarned, FollowersBorrow
  <2> QED BY <2>1, EarnedGrows
<1>10. OutcomesAreEarned'
  BY <1>1, <1>2, <1>9 DEF IntrospectionInv, OutcomesAreEarned, Publish, TypeOK
<1>11. AdmittedOnFreshAnswer'
  BY <1>1 DEF IntrospectionInv, AdmittedOnFreshAnswer
<1> QED BY <1>3, <1>4, <1>5, <1>6, <1>7, <1>8, <1>10, <1>11 DEF IntrospectionInv

\* The guard closes the channel: who has no outcome yet learns that none will come.
LEMMA DropGuardKeepsInv ==
  ASSUME IntrospectionInv, NEW r \in Requests, DropGuard(r)
  PROVE  IntrospectionInv'
<1> USE TokenAssumption
<1>1. /\ TypeOK /\ pc[r] = "unguard" /\ token[r] \in Tokens /\ inflight[token[r]] = r
      /\ UNCHANGED <<token, answer, outcome, valid, expired, credit, loan>>
      /\ RemoveSender(token[r])
      /\ pc' = [pc EXCEPT ![r] = "done"]
  BY DEF IntrospectionInv, HandsMatchPlace, EntryHasLeader, Leading, DropGuard, keycloakVars, historyVars
<1>2. TypeOK'
  BY <1>1 DEF TypeOK, RemoveSender, CloseChannel
<1>3. HandsMatchPlace'
  BY <1>1 DEF IntrospectionInv, HandsMatchPlace, ReceiversWait, RemoveSender, CloseChannel, TypeOK, Calling
<1>4. EntryHasLeader'
  BY <1>1 DEF IntrospectionInv, EntryHasLeader, RemoveSender, TypeOK, Leading
<1>5. ReceiversWait'
  BY <1>1 DEF IntrospectionInv, ReceiversWait, RemoveSender, CloseChannel, TypeOK
<1>6. FollowersWillHear'
  BY <1>1, NoOutcomeFacts DEF IntrospectionInv, FollowersWillHear, HandsMatchPlace, RemoveSender, CloseChannel, TypeOK
<1>7. CreditIsKept'
  BY <1>1 DEF IntrospectionInv, CreditIsKept, TypeOK
<1>8. FollowersBorrow'
  BY <1>1 DEF IntrospectionInv, FollowersBorrow, RemoveSender, TypeOK
<1>9. OutcomesAreEarned'
  BY <1>1, NoOutcomeFacts DEF IntrospectionInv, OutcomesAreEarned, Earned, RemoveSender, CloseChannel, TypeOK
<1>10. AdmittedOnFreshAnswer'
  BY <1>1 DEF IntrospectionInv, AdmittedOnFreshAnswer
<1> QED BY <1>2, <1>3, <1>4, <1>5, <1>6, <1>7, <1>8, <1>9, <1>10 DEF IntrospectionInv

\* A follower takes the outcome out of its mailbox.
LEMMA ReceiveOutcomeKeepsInv ==
  ASSUME IntrospectionInv, NEW r \in Requests, ReceiveOutcome(r)
  PROVE  IntrospectionInv'
<1> USE TokenAssumption
<1>1. /\ TypeOK /\ pc[r] = "wait" /\ token[r] \in Tokens /\ mailbox[r] \in Outcomes
      /\ UNCHANGED <<token, answer, inflight, valid, expired, credit, loan>>
  BY DEF IntrospectionInv, HandsMatchPlace, ReceiveOutcome, HasOutcome, keycloakVars, historyVars
<1>2. TypeOK'
  BY <1>1 DEF TypeOK, ReceiveOutcome
<1>3. HandsMatchPlace'
  BY <1>1 DEF IntrospectionInv, HandsMatchPlace, ReceiveOutcome, TypeOK, Calling
<1>4. EntryHasLeader'
  BY <1>1 DEF IntrospectionInv, EntryHasLeader, ReceiveOutcome, TypeOK, Leading
<1>5. ReceiversWait'
  BY <1>1 DEF IntrospectionInv, ReceiversWait, ReceiveOutcome, TypeOK
<1>6. FollowersWillHear'
  BY <1>1 DEF IntrospectionInv, FollowersWillHear, HandsMatchPlace, ReceiveOutcome, TypeOK
<1>7. CreditIsKept' /\ FollowersBorrow'
  BY <1>1 DEF IntrospectionInv, CreditIsKept, FollowersBorrow, ReceiveOutcome, TypeOK
<1>8. OutcomesAreEarned'
  BY <1>1, NoOutcomeFacts DEF IntrospectionInv, OutcomesAreEarned, Earned, ReceiveOutcome, TypeOK
<1>9. AdmittedOnFreshAnswer'
  BY <1>1 DEF IntrospectionInv, AdmittedOnFreshAnswer, OutcomesAreEarned, Earned, ReceiveOutcome, TypeOK
<1> QED BY <1>2, <1>3, <1>4, <1>5, <1>6, <1>7, <1>8, <1>9 DEF IntrospectionInv

\* A follower whose channel closed makes the call itself; no map entry is touched.
LEMMA ReceiveClosedKeepsInv ==
  ASSUME IntrospectionInv, NEW r \in Requests, ReceiveClosed(r)
  PROVE  IntrospectionInv'
<1> USE TokenAssumption
<1>1. /\ TypeOK /\ pc[r] = "wait" /\ token[r] \in Tokens /\ mailbox[r] = Closed
      /\ UNCHANGED <<token, answer, outcome, inflight, subs, valid, expired, credit, loan>>
      /\ \A t \in Tokens : r \notin subs[t]
  BY DEF IntrospectionInv, HandsMatchPlace, ReceiversWait, ReceiveClosed, keycloakVars, historyVars
<1>2. TypeOK'
  BY <1>1 DEF TypeOK, ReceiveClosed
<1>3. HandsMatchPlace'
  BY <1>1, NoOutcomeFacts DEF IntrospectionInv, HandsMatchPlace, ReceiveClosed, TypeOK, Calling
<1>4. EntryHasLeader'
  BY <1>1 DEF IntrospectionInv, EntryHasLeader, ReceiveClosed, TypeOK, Leading
<1>5. ReceiversWait' /\ FollowersWillHear'
  BY <1>1 DEF IntrospectionInv, ReceiversWait, FollowersWillHear, ReceiveClosed, TypeOK
<1>6. CreditIsKept' /\ FollowersBorrow'
  BY <1>1 DEF IntrospectionInv, CreditIsKept, FollowersBorrow, ReceiveClosed, TypeOK
<1>7. OutcomesAreEarned'
  BY <1>1, NoOutcomeFacts DEF IntrospectionInv, OutcomesAreEarned, Earned, ReceiveClosed, TypeOK
<1>8. AdmittedOnFreshAnswer'
  BY <1>1 DEF IntrospectionInv, AdmittedOnFreshAnswer
<1> QED BY <1>2, <1>3, <1>4, <1>5, <1>6, <1>7, <1>8 DEF IntrospectionInv

\* A request that holds no sender and no receiver ends, with its reply or without one.
LEMMA ForgetKeepsInv ==
  ASSUME IntrospectionInv, NEW r \in Requests, pc[r] \in {"done", "fallback"}, Forget(r),
         UNCHANGED <<inflight, subs, mailbox>>
  PROVE  IntrospectionInv'
<1> USE TokenAssumption
<1>1. /\ TypeOK
      /\ UNCHANGED <<valid, expired, inflight, subs, mailbox>>
      /\ mailbox[r] = NoOutcome
      /\ \A t \in Tokens : r \notin subs[t] /\ inflight[t] # r
  BY DEF IntrospectionInv, HandsMatchPlace, ReceiversWait, EntryHasLeader, Leading, Forget, keycloakVars
<1>2. TypeOK'
  BY <1>1 DEF TypeOK, Forget
<1>3. HandsMatchPlace'
  BY <1>1 DEF IntrospectionInv, HandsMatchPlace, Forget, TypeOK, Calling
<1>4. EntryHasLeader'
  BY <1>1 DEF IntrospectionInv, EntryHasLeader, Forget, TypeOK, Leading
<1>5. ReceiversWait' /\ FollowersWillHear'
  BY <1>1 DEF IntrospectionInv, ReceiversWait, FollowersWillHear, Forget, TypeOK
<1>6. CreditIsKept'
  BY <1>1 DEF IntrospectionInv, CreditIsKept, Forget, TypeOK
<1>7. FollowersBorrow'
  BY <1>1 DEF IntrospectionInv, FollowersBorrow, ReceiversWait, Forget, TypeOK
<1>8. OutcomesAreEarned'
  BY <1>1, NoOutcomeFacts DEF IntrospectionInv, OutcomesAreEarned, Earned, Forget, TypeOK
<1>9. AdmittedOnFreshAnswer'
  BY <1>1, NoOutcomeFacts DEF IntrospectionInv, AdmittedOnFreshAnswer, Forget, TypeOK
<1> QED BY <1>2, <1>3, <1>4, <1>5, <1>6, <1>7, <1>8, <1>9 DEF IntrospectionInv

\* A leader is dropped at its call: the guard takes the entry out and wakes its followers.
LEMMA CancelLeaderKeepsInv ==
  ASSUME IntrospectionInv, NEW r \in Requests, CancelLeader(r)
  PROVE  IntrospectionInv'
<1> USE TokenAssumption
<1>1. /\ TypeOK /\ pc[r] = "call" /\ token[r] \in Tokens /\ inflight[token[r]] = r
      /\ UNCHANGED <<valid, expired>>
      /\ mailbox[r] = NoOutcome
      /\ \A t \in Tokens : r \notin subs[t]
      /\ \A t \in Tokens : inflight[t] = r => t = token[r]
      /\ RemoveSender(token[r])
      /\ Forget(r)
  BY DEF IntrospectionInv, HandsMatchPlace, ReceiversWait, EntryHasLeader, Leading, CancelLeader,
         Forget, keycloakVars
<1>2. TypeOK'
  BY <1>1 DEF TypeOK, Forget, RemoveSender, CloseChannel
<1>3. HandsMatchPlace'
  BY <1>1 DEF IntrospectionInv, HandsMatchPlace, ReceiversWait, Forget, RemoveSender, CloseChannel, TypeOK, Calling
<1>4. EntryHasLeader'
  BY <1>1 DEF IntrospectionInv, EntryHasLeader, Forget, RemoveSender, TypeOK, Leading
<1>5. ReceiversWait'
  BY <1>1 DEF IntrospectionInv, ReceiversWait, Forget, RemoveSender, CloseChannel, TypeOK
<1>6. FollowersWillHear'
  BY <1>1, NoOutcomeFacts DEF IntrospectionInv, FollowersWillHear, HandsMatchPlace, Forget, RemoveSender,
                              CloseChannel, TypeOK
<1>7. CreditIsKept'
  BY <1>1 DEF IntrospectionInv, CreditIsKept, Forget, TypeOK
<1>8. FollowersBorrow'
  BY <1>1 DEF IntrospectionInv, FollowersBorrow, ReceiversWait, Forget, RemoveSender, TypeOK
<1>9. OutcomesAreEarned'
  BY <1>1, NoOutcomeFacts DEF IntrospectionInv, OutcomesAreEarned, Earned, Forget, RemoveSender, CloseChannel, TypeOK
<1>10. AdmittedOnFreshAnswer'
  BY <1>1, NoOutcomeFacts DEF IntrospectionInv, AdmittedOnFreshAnswer, Forget, TypeOK
<1> QED BY <1>2, <1>3, <1>4, <1>5, <1>6, <1>7, <1>8, <1>9, <1>10 DEF IntrospectionInv

\* A follower is dropped, and its receiver with it.
LEMMA CancelFollowerKeepsInv ==
  ASSUME IntrospectionInv, NEW r \in Requests, CancelFollower(r)
  PROVE  IntrospectionInv'
<1> USE TokenAssumption
<1>1. /\ TypeOK /\ pc[r] = "wait" /\ token[r] \in Tokens
      /\ UNCHANGED <<valid, expired, inflight>>
      /\ \A t \in Tokens : inflight[t] # r
      /\ \A t \in Tokens : r \in subs[t] => t = token[r]
      /\ subs' = [subs EXCEPT ![token[r]] = @ \ {r}]
      /\ mailbox' = [mailbox EXCEPT ![r] = NoOutcome]
      /\ Forget(r)
  BY DEF IntrospectionInv, HandsMatchPlace, ReceiversWait, EntryHasLeader, Leading, CancelFollower,
         Forget, keycloakVars
<1>2. TypeOK'
  BY <1>1 DEF TypeOK, Forget
<1>3. HandsMatchPlace'
  BY <1>1 DEF IntrospectionInv, HandsMatchPlace, Forget, TypeOK, Calling
<1>4. EntryHasLeader'
  BY <1>1 DEF IntrospectionInv, EntryHasLeader, Forget, TypeOK, Leading
<1>5. \A t \in Tokens : subs'[t] \subseteq subs[t] \ {r}
  BY <1>1 DEF TypeOK
<1>6. ReceiversWait'
  BY <1>1, <1>5 DEF IntrospectionInv, ReceiversWait, Forget, TypeOK
<1>7. FollowersWillHear'
  BY <1>1 DEF IntrospectionInv, FollowersWillHear, HandsMatchPlace, Forget, TypeOK
<1>8. CreditIsKept'
  BY <1>1 DEF IntrospectionInv, CreditIsKept, Forget, TypeOK
<1>9. FollowersBorrow'
  BY <1>1, <1>5 DEF IntrospectionInv, FollowersBorrow, ReceiversWait, Forget, TypeOK
<1>10. OutcomesAreEarned'
  BY <1>1, NoOutcomeFacts DEF IntrospectionInv, OutcomesAreEarned, Earned, Forget, TypeOK
<1>11. AdmittedOnFreshAnswer'
  BY <1>1, NoOutcomeFacts DEF IntrospectionInv, AdmittedOnFreshAnswer, Forget, TypeOK
<1> QED BY <1>2, <1>3, <1>4, <1>6, <1>7, <1>8, <1>9, <1>10, <1>11 DEF IntrospectionInv

\* Keycloak revokes a token, or its time runs out: no books change.
LEMMA TokenStepKeepsInv ==
  ASSUME IntrospectionInv, NEW t \in Tokens, Revoke(t) \/ Expire(t)
  PROVE  IntrospectionInv'
<1>1. /\ TypeOK
      /\ UNCHANGED <<pc, token, answer, outcome, inflight, subs, mailbox, credit, loan>>
      /\ \A u \in Tokens : ~expired'[u] => ~expired[u]
  BY DEF IntrospectionInv, TypeOK, Revoke, Expire, historyVars
<1>2. TypeOK'
  BY <1>1 DEF TypeOK, Revoke, Expire
<1>3. HandsMatchPlace' /\ EntryHasLeader' /\ ReceiversWait' /\ FollowersWillHear'
  BY <1>1 DEF IntrospectionInv, HandsMatchPlace, EntryHasLeader, ReceiversWait, FollowersWillHear
<1>4. CreditIsKept'
  BY <1>1 DEF IntrospectionInv, HandsMatchPlace, CreditIsKept
<1>5. FollowersBorrow' /\ OutcomesAreEarned' /\ AdmittedOnFreshAnswer'
  BY <1>1 DEF IntrospectionInv, FollowersBorrow, OutcomesAreEarned, AdmittedOnFreshAnswer, Earned
<1> QED BY <1>2, <1>3, <1>4, <1>5 DEF IntrospectionInv

\* Every step keeps the invariant.
LEMMA IntrospectionInvStep == IntrospectionInv /\ [Next]_vars => IntrospectionInv'
<1> SUFFICES ASSUME IntrospectionInv, [Next]_vars PROVE IntrospectionInv'
  OBVIOUS
<1>1. CASE UNCHANGED vars
  BY <1>1 DEF vars, IntrospectionInv, TypeOK, HandsMatchPlace, EntryHasLeader, ReceiversWait,
              FollowersWillHear, CreditIsKept, FollowersBorrow, OutcomesAreEarned, Earned,
              AdmittedOnFreshAnswer
<1>2. ASSUME NEW r \in Requests, Environment(r)
      PROVE  IntrospectionInv'
  BY <1>2, LeadKeepsInv, FollowKeepsInv, KeycloakAnswerKeepsInv DEF Environment
<1>3. ASSUME NEW r \in Requests, TaskStep(r)
      PROVE  IntrospectionInv'
  <2>1. CASE Reply(r)
    BY <2>1, ForgetKeepsInv DEF Reply
  <2> QED BY <1>3, <2>1, EndOfCallKeepsInv, PublishKeepsInv, DropGuardKeepsInv, ReceiveOutcomeKeepsInv,
             ReceiveClosedKeepsInv DEF TaskStep
<1>4. ASSUME NEW r \in Requests, Cancel(r)
      PROVE  IntrospectionInv'
  <2>1. CASE CancelFallback(r)
    BY <2>1, ForgetKeepsInv DEF CancelFallback
  <2> QED BY <1>4, <2>1, CancelLeaderKeepsInv, CancelFollowerKeepsInv DEF Cancel
<1> QED BY <1>1, <1>2, <1>3, <1>4, TokenStepKeepsInv DEF Next, NextWithoutCancel

---------------------------------------------------------------------------------
(* The theorems *)

\* The invariant holds in every reachable state, for any number of requests and tokens.
THEOREM IntrospectionInvariant == Spec => []IntrospectionInv
BY IntrospectionInvInit, IntrospectionInvStep, PTL DEF Spec

\* Type correctness.
THEOREM IntrospectionTypeCorrect == Spec => []TypeOK
<1>1. IntrospectionInv => TypeOK
  BY DEF IntrospectionInv
<1> QED BY <1>1, IntrospectionInvariant, PTL

\* The in-flight map names exactly the requests that lead, however many requests there are
\* and wherever they are cancelled: no entry outlives its leader.
THEOREM IntrospectionEntryHasLeader == Spec => []EntryHasLeader
<1>1. IntrospectionInv => EntryHasLeader
  BY DEF IntrospectionInv
<1> QED BY <1>1, IntrospectionInvariant, PTL

\* No follower is forgotten: as long as its mailbox is empty, its sender is in the map.
THEOREM IntrospectionFollowersWillHear == Spec => []FollowersWillHear
<1>1. IntrospectionInv => FollowersWillHear
  BY DEF IntrospectionInv
<1> QED BY <1>1, IntrospectionInvariant, PTL

\* Nobody is let in without a fresh positive answer for their own token, with whatever tokens
\* and however requests share, fail and cancel each other's calls.
THEOREM IntrospectionAdmittedOnFreshAnswer == Spec => []AdmittedOnFreshAnswer
<1>1. IntrospectionInv => AdmittedOnFreshAnswer
  BY DEF IntrospectionInv
<1> QED BY <1>1, IntrospectionInvariant, PTL
=================================================================================
