--------------------------- MODULE AccountsProofs ---------------------------
(***************************************************************************)
(* What a lease and a mailed link are good for, whoever raced for them.    *)
(*                                                                         *)
(* Accounts has no ASSUME of its own (runs reach it through INSTANCE), so  *)
(* the theorems name the facts about its constants they rest on.           *)
(***************************************************************************)
EXTENDS Accounts, TLAPS

\* The durations are numbers.
Durations == Lease \in Int /\ LinkLife \in Int

LinkRows == [purpose : Purposes, consumed : BOOLEAN, created : Int, expires : Int]
Kinds == {"none", "LOGIN", "CURRENT", "UPGRADE", "RESET", "VERIFY", "FORGOT", "RESEND",
          "EMAIL", "DELETE"}
Steps == {"idle", "renew", "session", "revoke", "issue", "send", "apply", "anonymize"}

\* Every row, and what every request under way knows of it, is of its type.
AccountTypes ==
    /\ session \in [Tokens -> Int \cup {None}]
    /\ link \in [Links -> LinkRows \cup {None}]
    /\ now \in Int
    /\ drawn \subseteq Tokens
    /\ used \in [Links -> Nat]
    /\ req \in [Calls -> [kind : Kinds, step : Steps,
                          about : Tokens \cup Links \cup {None}, expires : Int]]
    /\ \A k \in Calls :
          /\ req[k].step \in {"send", "apply"} => req[k].about \in Links
          /\ req[k].step = "renew" => req[k].about \in Tokens
          /\ req[k].step = "issue" => req[k].kind \in {"FORGOT", "RESEND", "EMAIL", "UPGRADE"}

\* A link that is about to change the account, or did.
Applies(k, l) == req[k].step = "apply" /\ req[k].about = l
Spent(l) == link[l] = None \/ link[l].consumed

\* One use of a link excludes every other: it is spent as soon as a request has
\* consumed it, and neither it nor its name comes back while anything is left of
\* that use.
OneUse ==
    \A l \in Links :
        /\ used[l] >= 1 => Spent(l) /\ \A k \in Calls : ~Applies(k, l)
        /\ \A k \in Calls : Applies(k, l) => Spent(l) /\ used[l] = 0
        /\ \A j, k \in Calls : Applies(j, l) /\ Applies(k, l) => j = k

\* The inductive invariant of the links.
LinkInv == AccountTypes /\ OneUse /\ LinksWorkOnce

-----------------------------------------------------------------------------

\* Every step keeps the types.
LEMMA AccountTypesStep ==
    ASSUME Durations, AccountTypes, [Next]_vars
    PROVE  AccountTypes'
<1> DEFINE R == [kind : Kinds, step : Steps,
                 about : Tokens \cup Links \cup {None}, expires : Int]
           Good(r) == /\ r.step \in {"send", "apply"} => r.about \in Links
                      /\ r.step = "renew" => r.about \in Tokens
                      /\ r.step = "issue" => r.kind \in {"FORGOT", "RESEND", "EMAIL", "UPGRADE"}
           ReqOK == req \in [Calls -> R] /\ \A k \in Calls : Good(req[k])
<1>1. ASSUME NEW k \in Calls, NEW r \in R, Good(r),
             req' = [req EXCEPT ![k] = r]
      PROVE  ReqOK'
  BY <1>1 DEF AccountTypes
<1>2. Nothing \in R /\ Good(Nothing)
  BY DEF Nothing, Steps, Kinds
<1>3. ASSUME NEW k \in Calls, End(k) PROVE ReqOK'
  <2>1. req' = [req EXCEPT ![k] = Nothing]
    BY <1>3 DEF End
  <2> HIDE DEF R, Good
  <2> QED BY <1>1, <1>2, <2>1
<1>4. ASSUME UNCHANGED req PROVE ReqOK'
  BY <1>4 DEF AccountTypes
<1>5. ASSUME NEW k \in Calls, NEW kind \in Kinds, NEW step \in Steps,
             NEW about \in Tokens \cup Links \cup {None}, NEW expires \in Int,
             \/ Begin(k, At(kind, step, about, expires))
             \/ Go(k, At(kind, step, about, expires)),
             Good(At(kind, step, about, expires))
      PROVE  ReqOK'
  <2>1. At(kind, step, about, expires) \in R
    BY DEF At
  <2>2. req' = [req EXCEPT ![k] = At(kind, step, about, expires)]
    BY <1>5 DEF Begin, Go
  <2> HIDE DEF R, Good
  <2> QED BY <1>1, <1>5, <2>1, <2>2
<1>6. ASSUME NEW k \in Calls, NEW step \in {"session", "revoke"},
             Go(k, [req[k] EXCEPT !.step = step])
      PROVE  ReqOK'
  <2>1. /\ [req[k] EXCEPT !.step = step] \in R /\ Good([req[k] EXCEPT !.step = step])
        /\ req' = [req EXCEPT ![k] = [req[k] EXCEPT !.step = step]]
    BY <1>6 DEF Go, AccountTypes, Steps
  <2> HIDE DEF R, Good
  <2> QED BY <1>1, <2>1
<1>7. ASSUME NEW k \in Calls, AfterMail(k) PROVE ReqOK'
  <2>1. Good(At("UPGRADE", "revoke", None, 0)) /\ "UPGRADE" \in Kinds /\ "revoke" \in Steps
    BY DEF At, Kinds, Steps
  <2> HIDE DEF ReqOK, Good
  <2> QED BY <1>3, <1>5, <1>7, <2>1 DEF AfterMail
<1>8. now + Lease \in Int
  BY DEF Durations, AccountTypes
<1>9. SessionStep => AccountTypes'
  <2>1. ASSUME NEW k \in Calls, Login(k) PROVE AccountTypes'
    <3>1. ReqOK'
      <4>1. Good(At("LOGIN", "session", None, 0)) /\ "LOGIN" \in Kinds /\ "session" \in Steps
        BY DEF At, Kinds, Steps
      <4> HIDE DEF ReqOK, Good
      <4> QED BY <1>5, <2>1, <4>1 DEF Login
    <3> QED BY <2>1, <3>1 DEF Login, AccountTypes
  <2>2. ASSUME NEW k \in Calls, NEW t \in Tokens, Current(k, t) PROVE AccountTypes'
    <3>1. ReqOK'
      <4>1. Good(At("CURRENT", "renew", t, now + Lease)) /\ "CURRENT" \in Kinds /\ "renew" \in Steps
        BY DEF At, Kinds, Steps
      <4> HIDE DEF ReqOK, Good
      <4> QED BY <1>5, <1>8, <2>2, <4>1 DEF Current
    <3> QED BY <2>2, <3>1 DEF Current, AccountTypes
  <2>3. ASSUME NEW k \in Calls, Renew(k) PROVE AccountTypes'
    <3>1. ReqOK'
      BY <1>3, <2>3 DEF Renew
    <3>2. session' \in [Tokens -> Int \cup {None}]
      BY <2>3 DEF Renew, In, Renewed, AccountTypes
    <3> QED BY <2>3, <3>1, <3>2 DEF Renew, AccountTypes
  <2>4. ASSUME NEW k \in Calls, CreateSession(k) PROVE AccountTypes'
    <3>1. ReqOK'
      BY <1>3, <2>4 DEF CreateSession
    <3>2. session' \in [Tokens -> Int \cup {None}] /\ drawn' \subseteq Tokens
      BY <1>8, <2>4 DEF CreateSession, AccountTypes
    <3> QED BY <2>4, <3>1, <3>2 DEF CreateSession, AccountTypes
  <2>5. ASSUME NEW t \in Tokens, Logout(t) PROVE AccountTypes'
    BY <2>5 DEF Logout, AccountTypes
  <2>6. CASE RevokeAll
    BY <2>6 DEF RevokeAll, NoSessions, AccountTypes
  <2>7. ASSUME NEW k \in Calls, RevokeAllOf(k) PROVE AccountTypes'
    <3>1. ReqOK'
      BY <1>3, <1>6, <2>7 DEF RevokeAllOf
    <3> QED BY <2>7, <3>1 DEF RevokeAllOf, NoSessions, AccountTypes
  <2> QED BY <2>1, <2>2, <2>3, <2>4, <2>5, <2>6, <2>7 DEF SessionStep
<1>10. ASSUME NEW purpose \in Purposes PROVE Row(purpose) \in LinkRows
  BY DEF Row, LinkRows, Durations, AccountTypes
<1>11. ASSUME NEW k \in Calls, NEW kind \in Kinds, kind \in {"FORGOT", "RESEND", "EMAIL", "UPGRADE"},
              Begin(k, At(kind, "issue", None, 0))
       PROVE  ReqOK'
  <2>1. Good(At(kind, "issue", None, 0)) /\ "issue" \in Steps
    BY <1>11 DEF At, Steps
  <2> HIDE DEF ReqOK, Good
  <2> QED BY <1>5, <1>11, <2>1
<1>12. LinkStep => AccountTypes'
  <2>1. ASSUME NEW k \in Calls, Forgot(k) \/ Resend(k) \/ AddEmail(k) \/ Upgrade(k)
        PROVE  AccountTypes'
    <3>1. /\ UNCHANGED <<session, link, now, drawn, used>>
          /\ \E kind \in {"FORGOT", "RESEND", "EMAIL", "UPGRADE"} :
                Begin(k, At(kind, "issue", None, 0))
      BY <2>1 DEF Forgot, Resend, AddEmail, Upgrade
    <3>2. ReqOK'
      <4> HIDE DEF ReqOK
      <4> QED BY <1>11, <3>1 DEF Kinds
    <3> QED BY <3>1, <3>2 DEF AccountTypes
  <2>2. ASSUME NEW k \in Calls, IssueLink(k) PROVE AccountTypes'
    <3>1. /\ req[k].step = "issue" /\ UNCHANGED <<session, now, drawn, used>>
          /\ \/ AfterMail(k) /\ UNCHANGED link
             \/ \E l \in Links, replace \in BOOLEAN :
                  /\ Issue(l, PurposeOf(req[k].kind), replace)
                  /\ Go(k, [req[k] EXCEPT !.step = "send", !.about = l])
      BY <2>2 DEF IssueLink
    <3>2. CASE AfterMail(k) /\ UNCHANGED link
      BY <1>7, <3>1, <3>2 DEF AccountTypes
    <3>3. ASSUME NEW l \in Links, NEW replace \in BOOLEAN,
                 Issue(l, PurposeOf(req[k].kind), replace),
                 Go(k, [req[k] EXCEPT !.step = "send", !.about = l])
          PROVE  AccountTypes'
      <4> DEFINE r == [req[k] EXCEPT !.step = "send", !.about = l]
      <4>1. r \in R /\ Good(r) /\ req' = [req EXCEPT ![k] = r]
        <5>1. req' = [req EXCEPT ![k] = r]
          BY <3>3 DEF Go
        <5>2. req[k] \in R
          BY DEF AccountTypes
        <5>3. r \in R /\ r.step = "send" /\ r.about = l
          BY <5>2 DEF Steps
        <5> HIDE DEF r
        <5> QED BY <5>1, <5>3
      <4>2. ReqOK'
        <5> HIDE DEF r, R, Good
        <5> QED BY <1>1, <4>1
      <4>3. link' \in [Links -> LinkRows \cup {None}]
        <5>1. PurposeOf(req[k].kind) \in Purposes
          BY DEF PurposeOf, Purposes
        <5> DEFINE P == PurposeOf(req[k].kind)
        <5>2. Row(P) \in LinkRows
          BY <1>10, <5>1
        <5>3. \A m \in Links : Retires(link[m], P, replace)
                 => [link[m] EXCEPT !.consumed = TRUE] \in LinkRows
          BY DEF Retires, LinkRows, AccountTypes
        <5> QED BY <3>3, <5>2, <5>3 DEF Issue, AccountTypes
      <4> QED BY <3>1, <4>2, <4>3 DEF AccountTypes
    <3> QED BY <3>1, <3>2, <3>3
  <2>3. ASSUME NEW k \in Calls, MailSent(k) \/ MailRefused(k) PROVE AccountTypes'
    <3>1. /\ AfterMail(k) /\ UNCHANGED <<session, now, drawn, used>>
          /\ link' = link \/ \E l \in Links : link' = [link EXCEPT ![l] = None]
      BY <2>3 DEF MailSent, MailRefused, AccountTypes
    <3> QED BY <1>7, <3>1 DEF AccountTypes
  <2>4. ASSUME NEW k \in Calls, NEW l \in Links, NEW purpose \in Purposes,
               UseLink(k, l, purpose)
        PROVE  AccountTypes'
    <3>1. /\ Begin(k, At(purpose, "apply", l, 0)) /\ UNCHANGED <<session, now, drawn, used>>
          /\ link[l] # None /\ link' = [link EXCEPT ![l].consumed = TRUE]
      BY <2>4 DEF UseLink, Consumable, Consume
    <3>2. ReqOK'
      <4>1. Good(At(purpose, "apply", l, 0)) /\ purpose \in Kinds /\ "apply" \in Steps
        BY DEF At, Kinds, Steps, Purposes
      <4> HIDE DEF ReqOK, Good
      <4> QED BY <1>5, <3>1, <4>1
    <3>3. link' \in [Links -> LinkRows \cup {None}]
      BY <3>1 DEF AccountTypes, LinkRows
    <3> QED BY <3>1, <3>2, <3>3 DEF AccountTypes
  <2>5. ASSUME NEW k \in Calls, ApplyLink(k) PROVE AccountTypes'
    <3>1. /\ req[k].about \in Links /\ used' = [used EXCEPT ![req[k].about] = @ + 1]
          /\ End(k) \/ Go(k, [req[k] EXCEPT !.step = "revoke"])
          /\ UNCHANGED <<session, link, now, drawn>>
      BY <2>5 DEF ApplyLink, AccountTypes
    <3>2. ReqOK'
      BY <1>3, <1>6, <3>1
    <3> QED BY <3>1, <3>2 DEF AccountTypes
  <2> QED BY <2>1, <2>2, <2>3, <2>4, <2>5 DEF LinkStep
<1>13. ASSUME NEW k \in Calls, AskToDelete(k) PROVE AccountTypes'
  <2>1. ReqOK'
    <3>1. Good(At("DELETE", "anonymize", None, 0)) /\ "DELETE" \in Kinds /\ "anonymize" \in Steps
      BY DEF At, Kinds, Steps
    <3> HIDE DEF ReqOK, Good
    <3> QED BY <1>5, <1>13, <3>1 DEF AskToDelete
  <2> QED BY <1>13, <2>1 DEF AskToDelete, AccountTypes
<1>14. ASSUME NEW k \in Calls, Anonymize(k) \/ GiveUp(k) PROVE AccountTypes'
  <2>1. ReqOK'
    BY <1>3, <1>14 DEF Anonymize, GiveUp
  <2> QED BY <1>14, <2>1 DEF Anonymize, GiveUp, NoSessions, AccountTypes
<1>15. CASE Sweep
  BY <1>15 DEF Sweep, AccountTypes
<1>16. CASE Tick
  BY <1>16 DEF Tick, AccountTypes
<1>17. CASE UNCHANGED vars
  BY <1>17 DEF vars, AccountTypes
<1> QED BY <1>9, <1>12, <1>13, <1>14, <1>15, <1>16, <1>17 DEF Next

\* The types hold in every reachable state.
LEMMA AccountTypesHold == ASSUME Durations PROVE Spec => []AccountTypes
<1>1. Init => AccountTypes
  <2> SUFFICES ASSUME Init PROVE AccountTypes
    OBVIOUS
  <2>1. Nothing \in [kind : Kinds, step : Steps,
                     about : Tokens \cup Links \cup {None}, expires : Int]
    BY DEF Nothing, Kinds, Steps
  <2>2. /\ req = [k \in Calls |-> Nothing] /\ Nothing.step = "idle"
        /\ session \in [Tokens -> Int \cup {None}] /\ drawn \subseteq Tokens
    BY DEF Init, Nothing, Durations
  <2> QED BY <2>1, <2>2 DEF Init, AccountTypes
<1>2. AccountTypes /\ [Next]_vars => AccountTypes'
  BY AccountTypesStep
<1> QED BY <1>1, <1>2, PTL DEF Spec

\* A lease is never shortened and a session that was revoked or swept away never
\* returns, however many renewals race for it (session-repository.ts renew).
THEOREM LeasesGrow == ASSUME Durations PROVE Spec => LeasesOnlyGrow
<1>1. AccountTypes /\ [Next]_vars
        => \A t \in drawn : \/ session'[t] = None
                            \/ session[t] # None /\ session'[t] >= session[t]
  <2> SUFFICES ASSUME AccountTypes, [Next]_vars, NEW t \in drawn, session'[t] # None
               PROVE  session[t] # None /\ session'[t] >= session[t]
    OBVIOUS
  <2>1. /\ session \in [Tokens -> Int \cup {None}] /\ t \in Tokens
        /\ session[t] # None => session[t] \in Int /\ session[t] >= session[t]
    BY DEF AccountTypes
  <2>2. CASE UNCHANGED session
    BY <2>1, <2>2
  <2>3. ASSUME NEW k \in Calls, Renew(k)
        PROVE  session[t] # None /\ session'[t] >= session[t]
    <3>1. req[k].expires \in Int
      BY DEF AccountTypes
    <3> QED BY <2>1, <2>3, <3>1 DEF Renew, Live, Renewed
  <2>4. ASSUME NEW k \in Calls, CreateSession(k)
        PROVE  session[t] # None /\ session'[t] >= session[t]
    <3>1. session'[t] = session[t]
      BY <2>1, <2>4 DEF CreateSession
    <3> QED BY <2>1, <3>1
  <2>5. CASE NoSessions
    BY <2>1, <2>5 DEF NoSessions
  <2>6. CASE Sweep
    BY <2>1, <2>6 DEF Sweep
  <2>7. ASSUME NEW s \in Tokens, Logout(s)
        PROVE  session[t] # None /\ session'[t] >= session[t]
    BY <2>1, <2>7 DEF Logout
  <2> QED
    BY <2>2, <2>3, <2>4, <2>5, <2>6, <2>7
       DEF Next, SessionStep, LinkStep, vars, Login, Current, RevokeAll, RevokeAllOf,
           Forgot, Resend, AddEmail, Upgrade, IssueLink, MailSent, MailRefused, UseLink,
           ApplyLink, AskToDelete, Anonymize, GiveUp, Tick
<1> QED BY <1>1, AccountTypesHold, PTL DEF LeasesOnlyGrow, Spec

-----------------------------------------------------------------------------

\* Where no link comes (back) to life and no request comes to apply one, the links
\* stay as they are promised to be.
LEMMA LinksGoOut ==
    ASSUME LinkInv, used' = used,
           \A l \in Links : \/ link'[l] = link[l]
                            \/ link'[l] = None
                            \/ link'[l].consumed,
           \A k \in Calls, l \in Links : Applies(k, l)' => Applies(k, l)
    PROVE  OneUse' /\ LinksWorkOnce'
<1>1. \A l \in Links : Spent(l) => Spent(l)'
  BY DEF Spent
<1>2. OneUse'
  BY <1>1 DEF LinkInv, OneUse
<1>3. LinksWorkOnce'
  BY DEF LinkInv, LinksWorkOnce
<1> QED BY <1>2, <1>3

\* Every step keeps the links as they are promised to be.
LEMMA LinkStepKeeps ==
    ASSUME LinkInv, [Next]_vars
    PROVE  OneUse' /\ LinksWorkOnce'
<1>1. /\ req \in [Calls -> [kind : Kinds, step : Steps,
                            about : Tokens \cup Links \cup {None}, expires : Int]]
      /\ link \in [Links -> LinkRows \cup {None}] /\ used \in [Links -> Nat]
  BY DEF LinkInv, AccountTypes
<1>2. ASSUME UNCHANGED link PROVE \A l \in Links : link'[l] = link[l]
  BY <1>2
<1>3. ASSUME NEW k \in Calls, NEW r, req' = [req EXCEPT ![k] = r], r.step # "apply"
      PROVE  \A j \in Calls, l \in Links : Applies(j, l)' => Applies(j, l)
  BY <1>1, <1>3 DEF Applies
<1>4. ASSUME NEW k \in Calls, End(k)
      PROVE  \A j \in Calls, l \in Links : Applies(j, l)' => Applies(j, l)
  BY <1>1, <1>4 DEF Applies, End, Nothing
<1>5. ASSUME NEW k \in Calls, AfterMail(k)
      PROVE  \A j \in Calls, l \in Links : Applies(j, l)' => Applies(j, l)
  BY <1>1, <1>4, <1>5 DEF Applies, AfterMail, Go, At
<1>6. ASSUME NEW k \in Calls, Go(k, [req[k] EXCEPT !.step = "session"])
                              \/ Go(k, [req[k] EXCEPT !.step = "revoke"])
      PROVE  \A j \in Calls, l \in Links : Applies(j, l)' => Applies(j, l)
  BY <1>1, <1>6 DEF Applies, Go
<1>7. ASSUME UNCHANGED <<link, used>>,
             \A k \in Calls, l \in Links : Applies(k, l)' => Applies(k, l)
      PROVE  OneUse' /\ LinksWorkOnce'
  BY <1>2, <1>7, LinksGoOut
<1>8. ASSUME UNCHANGED req
      PROVE  \A k \in Calls, l \in Links : Applies(k, l)' => Applies(k, l)
  BY <1>8 DEF Applies
<1>9. CASE Sweep
  <2>1. /\ used' = used /\ UNCHANGED req
        /\ \A l \in Links : link'[l] = link[l] \/ link'[l] = None
    BY <1>9 DEF Sweep
  <2> QED BY <1>8, <2>1, LinksGoOut
<1>10. CASE Tick \/ UNCHANGED vars \/ RevokeAll \/ \E t \in Tokens : Logout(t)
  <2>1. UNCHANGED <<link, used>> /\ UNCHANGED req
    BY <1>10 DEF Tick, vars, RevokeAll, Logout
  <2> QED BY <1>7, <1>8, <2>1
<1>11. ASSUME NEW k \in Calls, NEW kind, NEW step, NEW about, NEW expires,
              Begin(k, At(kind, step, about, expires)), step # "apply"
       PROVE  \A j \in Calls, l \in Links : Applies(j, l)' => Applies(j, l)
  BY <1>1, <1>11 DEF Applies, Begin, At
<1>12. ASSUME NEW k \in Calls,
              \/ Login(k) \/ (\E t \in Tokens : Current(k, t))
              \/ Forgot(k) \/ Resend(k) \/ AddEmail(k) \/ Upgrade(k) \/ AskToDelete(k)
       PROVE  OneUse' /\ LinksWorkOnce'
  <2>1. /\ UNCHANGED <<link, used>>
        /\ \E kind, step, about, expires :
              Begin(k, At(kind, step, about, expires)) /\ step # "apply"
    BY <1>12 DEF Login, Current, Forgot, Resend, AddEmail, Upgrade, AskToDelete
  <2> QED BY <1>7, <1>11, <2>1
<1>13. ASSUME NEW k \in Calls,
              \/ Renew(k) \/ CreateSession(k) \/ RevokeAllOf(k) \/ MailSent(k) \/ GiveUp(k)
       PROVE  OneUse' /\ LinksWorkOnce'
  <2>1. /\ UNCHANGED <<link, used>>
        /\ \/ End(k) \/ AfterMail(k) \/ Go(k, [req[k] EXCEPT !.step = "session"])
    BY <1>13 DEF Renew, CreateSession, RevokeAllOf, MailSent, GiveUp
  <2> QED BY <1>4, <1>5, <1>6, <1>7, <2>1
<1>14. ASSUME NEW k \in Calls, MailRefused(k) \/ Anonymize(k)
       PROVE  OneUse' /\ LinksWorkOnce'
  <2>1. /\ used' = used
        /\ End(k) \/ AfterMail(k)
        /\ \A l \in Links : link'[l] = link[l] \/ link'[l] = None
    <3>1. CASE MailRefused(k)
      BY <1>1, <3>1 DEF MailRefused
    <3>2. CASE Anonymize(k)
      BY <3>2 DEF Anonymize
    <3> QED BY <1>14, <3>1, <3>2
  <2>2. \A j \in Calls, l \in Links : Applies(j, l)' => Applies(j, l)
    BY <1>4, <1>5, <2>1
  <2> QED BY <2>1, <2>2, LinksGoOut
<1>15. ASSUME NEW k \in Calls, IssueLink(k)
       PROVE  OneUse' /\ LinksWorkOnce'
  <2> DEFINE P == PurposeOf(req[k].kind)
  <2>1. /\ used' = used
        /\ \/ AfterMail(k) /\ UNCHANGED link
           \/ \E l \in Links, replace \in BOOLEAN :
                /\ ~Blocked(P, replace)
                /\ link[l] = None /\ used[l] = 0 /\ \A j \in Calls : req[j].about # l
                /\ Issue(l, P, replace)
                /\ Go(k, [req[k] EXCEPT !.step = "send", !.about = l])
    BY <1>15 DEF IssueLink
  <2>2. CASE AfterMail(k) /\ UNCHANGED link
    BY <1>5, <1>7, <2>1, <2>2
  <2>3. ASSUME NEW l \in Links, NEW replace \in BOOLEAN, ~Blocked(P, replace),
               link[l] = None, used[l] = 0, \A j \in Calls : req[j].about # l,
               Issue(l, P, replace),
               Go(k, [req[k] EXCEPT !.step = "send", !.about = l])
        PROVE  OneUse' /\ LinksWorkOnce'
    <3> HIDE DEF P
    <3>1. \A j \in Calls, m \in Links : Applies(j, m)' => Applies(j, m)
      BY <1>1, <2>3 DEF Applies, Go
    <3>2. /\ \A m \in Links \ {l} : link'[m] = link[m] \/ link'[m].consumed
          /\ link'[l] = Row(P)
      BY <1>1, <2>3 DEF Issue, Retires, LinkRows
    <3>3. \A j \in Calls : ~Applies(j, l)
      BY <2>3 DEF Applies
    <3>4. \A m \in Links \ {l} : Spent(m) => Spent(m)'
      BY <3>2 DEF Spent
    <3>5. OneUse'
      <4> SUFFICES ASSUME NEW m \in Links
                   PROVE  /\ used'[m] >= 1 => Spent(m)' /\ \A j \in Calls : ~Applies(j, m)'
                          /\ \A j \in Calls : Applies(j, m)' => Spent(m)' /\ used'[m] = 0
                          /\ \A i, j \in Calls : Applies(i, m)' /\ Applies(j, m)' => i = j
        BY DEF OneUse
      <4>1. CASE m = l
        <5>1. used'[m] = 0
          BY <2>1, <2>3, <4>1
        <5>2. \A j \in Calls : ~Applies(j, m)'
          <6>1. \A j \in Calls : ~Applies(j, l)'
            BY <3>1, <3>3
          <6> QED BY <4>1, <6>1
        <5> QED BY <5>1, <5>2
      <4>2. CASE m # l
        BY <2>1, <3>1, <3>4, <4>2 DEF LinkInv, OneUse
      <4> QED BY <4>1, <4>2
    <3>6. \A m \in Links \ {l} : link'[m] # None /\ link'[m].purpose = P => link'[m].consumed
      <4> SUFFICES ASSUME NEW m \in Links \ {l}, link'[m] # None, link'[m].purpose = P,
                          ~link'[m].consumed
                   PROVE  FALSE
        OBVIOUS
      <4>1. link'[m] = link[m] /\ ~Retires(link[m], P, replace)
        BY <1>1, <2>3, <3>2 DEF Issue, Retires, LinkRows
      <4> QED BY <2>3, <4>1 DEF Blocked
    <3>7. Row(P).purpose = P
      BY DEF Row
    <3>8. LinksWorkOnce'
      <4>1. \A m \in Links : used'[m] <= 1
        BY <2>1 DEF LinkInv, LinksWorkOnce
      <4>2. ASSUME NEW m \in Links, NEW n \in Links, m # n, link'[m] # None, link'[n] # None,
                   link'[m].purpose = link'[n].purpose
            PROVE  link'[m].consumed \/ link'[n].consumed
        <5>1. CASE m = l \/ n = l
          BY <3>2, <3>6, <3>7, <4>2, <5>1
        <5>2. CASE m # l /\ n # l
          BY <3>2, <4>2, <5>2 DEF LinkInv, LinksWorkOnce
        <5> QED BY <5>1, <5>2
      <4> QED BY <4>1, <4>2 DEF LinksWorkOnce
    <3> QED BY <3>5, <3>8
  <2> QED BY <2>1, <2>2, <2>3
<1>16. ASSUME NEW k \in Calls, NEW l \in Links, NEW purpose \in Purposes,
              UseLink(k, l, purpose)
       PROVE  OneUse' /\ LinksWorkOnce'
  <2>1. /\ req[k] = Nothing /\ req' = [req EXCEPT ![k] = At(purpose, "apply", l, 0)]
        /\ ~Spent(l) /\ used' = used /\ link[l] # None
        /\ link' = [link EXCEPT ![l] = [link[l] EXCEPT !.consumed = TRUE]]
    BY <1>16 DEF UseLink, Begin, Consumable, Consume, Spent
  <2>2. link[l] \in LinkRows
    BY <1>1, <2>1
  <2>3. link'[l].consumed /\ link'[l].purpose = link[l].purpose
    BY <1>1, <2>1, <2>2 DEF LinkRows
  <2>4. /\ \A m \in Links \ {l} : link'[m] = link[m]
        /\ \A m \in Links : Spent(m) => Spent(m)'
        /\ Spent(l)'
    BY <1>1, <2>1, <2>3 DEF Spent
  <2>5. /\ \A j \in Calls, m \in Links :
              Applies(j, m)' <=> IF j = k THEN m = l ELSE Applies(j, m)
    BY <1>1, <2>1 DEF Applies, At
  <2>6. used[l] = 0 /\ \A j \in Calls : ~Applies(j, l)
    <3>1. ~(used[l] >= 1) /\ \A j \in Calls : ~Applies(j, l)
      BY <2>1 DEF LinkInv, OneUse
    <3> QED BY <1>1, <3>1
  <2>7. OneUse'
    <3> SUFFICES ASSUME NEW m \in Links
                 PROVE  /\ used[m] >= 1 => Spent(m)' /\ \A j \in Calls : ~Applies(j, m)'
                        /\ \A j \in Calls : Applies(j, m)' => Spent(m)' /\ used[m] = 0
                        /\ \A i, j \in Calls : Applies(i, m)' /\ Applies(j, m)' => i = j
      BY <2>1 DEF OneUse
    <3>1. CASE m = l
      BY <2>4, <2>5, <2>6, <3>1
    <3>2. CASE m # l
      BY <2>4, <2>5, <3>2 DEF LinkInv, OneUse
    <3> QED BY <3>1, <3>2
  <2>8. LinksWorkOnce'
    BY <2>1, <2>3, <2>4 DEF LinkInv, LinksWorkOnce
  <2> QED BY <2>7, <2>8
<1>17. ASSUME NEW k \in Calls, ApplyLink(k)
       PROVE  OneUse' /\ LinksWorkOnce'
  <2> DEFINE l == req[k].about
  <2>1. /\ l \in Links /\ Applies(k, l) /\ UNCHANGED link
        /\ used' = [used EXCEPT ![l] = @ + 1]
        /\ End(k) \/ Go(k, [req[k] EXCEPT !.step = "revoke"])
    BY <1>17 DEF ApplyLink, LinkInv, AccountTypes, Applies
  <2>2. \A j \in Calls, m \in Links : Applies(j, m)' => Applies(j, m) /\ j # k
    BY <1>1, <2>1 DEF Applies, End, Go, Nothing
  <2>3. /\ used[l] = 0 /\ Spent(l) /\ \A j \in Calls : Applies(j, l) => j = k
    BY <2>1 DEF LinkInv, OneUse
  <2> HIDE DEF l
  <2>4. \A m \in Links : Spent(m)' <=> Spent(m)
    BY <2>1 DEF Spent
  <2>5. used'[l] = 1 /\ \A m \in Links \ {l} : used'[m] = used[m]
    BY <1>1, <2>1, <2>3
  <2>6. OneUse'
    <3> SUFFICES ASSUME NEW m \in Links
                 PROVE  /\ used'[m] >= 1 => Spent(m)' /\ \A j \in Calls : ~Applies(j, m)'
                        /\ \A j \in Calls : Applies(j, m)' => Spent(m)' /\ used'[m] = 0
                        /\ \A i, j \in Calls : Applies(i, m)' /\ Applies(j, m)' => i = j
      BY DEF OneUse
    <3>1. CASE m = l
      BY <2>2, <2>3, <2>4, <3>1
    <3>2. CASE m # l
      BY <2>2, <2>4, <2>5, <3>2 DEF LinkInv, OneUse
    <3> QED BY <3>1, <3>2
  <2>7. LinksWorkOnce'
    BY <2>1, <2>5 DEF LinkInv, LinksWorkOnce
  <2> QED BY <2>6, <2>7
<1> QED
  BY <1>9, <1>10, <1>12, <1>13, <1>14, <1>15, <1>16, <1>17
     DEF Next, SessionStep, LinkStep

\* A mailed link changes its account at most once, and of each purpose at most one
\* can still be used, however requests, resends, uses and failing mails interleave
\* (auth-token-repository.ts issue and consume).
THEOREM LinksWorkOnlyOnce == ASSUME Durations PROVE Spec => []LinksWorkOnce
<1>1. Init /\ AccountTypes => LinkInv
  <2> SUFFICES ASSUME Init, AccountTypes PROVE LinkInv
    OBVIOUS
  <2>1. /\ \A l \in Links : link[l] = None /\ used[l] = 0
        /\ \A k \in Calls, l \in Links : ~Applies(k, l)
    BY DEF Init, Applies, Nothing
  <2> QED BY <2>1 DEF LinkInv, OneUse, Spent, LinksWorkOnce
<1>2. LinkInv /\ [Next]_vars /\ AccountTypes' => LinkInv'
  <2> SUFFICES ASSUME LinkInv, [Next]_vars, AccountTypes' PROVE LinkInv'
    OBVIOUS
  <2>1. OneUse' /\ LinksWorkOnce'
    BY LinkStepKeeps
  <2> QED BY <2>1 DEF LinkInv
<1>3. LinkInv => LinksWorkOnce
  BY DEF LinkInv
<1> QED BY <1>1, <1>2, <1>3, AccountTypesHold, PTL DEF Spec
=============================================================================
