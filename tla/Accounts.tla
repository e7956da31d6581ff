------------------------------ MODULE Accounts ------------------------------
(***************************************************************************)
(* One account, its sessions and its mailed links                          *)
(* (worker/services/auth-service.ts and the repositories behind it).       *)
(*                                                                         *)
(* Requests of several devices run side by side in the Worker: between any *)
(* two awaits of one, any statement of another may run, and a request may  *)
(* end there for good.  Every statement and batch of D1 is one step.       *)
(* Hashes are their tokens; who may know a token is not modelled.          *)
(***************************************************************************)
EXTENDS Integers, FiniteSets

CONSTANTS
    Calls,          \* requests under way
    Tokens,         \* session tokens that may be drawn
    Links,          \* link tokens that may be drawn
    Lease,          \* sessionMaxAgeSeconds
    Renewal,        \* sessionRenewalIntervalMs
    LinkLife,       \* one hour
    Cooldown,       \* the ten minutes of issue()
    MaxTime,        \* bound on the clock
    None

VARIABLES
    user,           \* users row: type, has an email, is verified, deleted
    session,        \* user_sessions: expires_at of each token
    link,           \* auth_email_tokens row of each link
    req,            \* the requests under way
    now,
    \* history
    drawn,          \* session tokens ever created
    used            \* how often each link changed the account

vars == <<user, session, link, req, now, drawn, used>>

Purposes == {"VERIFY", "RESET"}
Row(purpose) == [purpose |-> purpose, consumed |-> FALSE, created |-> now,
                 expires |-> now + LinkLife]

\* A request: what it is, where it stands, the token or link it is about, the
\* expiry it computed, and what it still has to do.
Nothing == [kind |-> "none", step |-> "idle", about |-> None, expires |-> 0]
At(kind, step, about, expires) ==
    [kind |-> kind, step |-> step, about |-> about, expires |-> expires]

\* register, createGuest, and an account of before emails were asked for: one
\* session each.
Init ==
    /\ user \in [type : {"GUEST", "REGISTERED"}, email : {FALSE},
                 verified : {FALSE}, deleted : {FALSE}]
    /\ now = 0
    /\ \E t \in Tokens :
          /\ session = [s \in Tokens |-> IF s = t THEN Lease ELSE None]
          /\ drawn = {t}
    /\ link = [l \in Links |-> None]
    /\ req = [k \in Calls |-> Nothing]
    /\ used = [l \in Links |-> 0]

-----------------------------------------------------------------------------
(* Statements *)

Live(t) == session[t] # None /\ session[t] > now

\* Mutated: the expiry is set, whatever it was.
RenewedTo(t, expires) == expires

\* renew: "Never shorten a lease or recreate a revoked/expired session."
Renewed(t, expires) == IF session[t] > expires THEN session[t] ELSE expires

\* Mutated: a link that was used or has expired passes.
ConsumableOnce(l, purpose) == link[l] # None /\ link[l].purpose = purpose

Consumable(l, purpose) ==
    /\ link[l] # None
    /\ link[l].purpose = purpose /\ ~link[l].consumed /\ link[l].expires > now

Consume(l) == link' = [link EXCEPT ![l].consumed = TRUE]

\* The first statement of issue's batch retires the links it may replace.
Retires(row, purpose, replace) ==
    /\ row # None
    /\ row.purpose = purpose /\ ~row.consumed
    /\ replace \/ row.expires <= now \/ row.created <= now - Cooldown

\* The unique index: one row per purpose that is not consumed.
Blocked(purpose, replace) ==
    \E m \in Links : /\ link[m] # None
                     /\ link[m].purpose = purpose /\ ~link[m].consumed
                     /\ ~Retires(link[m], purpose, replace)

Issue(l, purpose, replace) ==
    link' = [m \in Links |->
               IF m = l THEN Row(purpose)
               ELSE IF Retires(link[m], purpose, replace)
                    THEN [link[m] EXCEPT !.consumed = TRUE]
                    ELSE link[m]]

-----------------------------------------------------------------------------
(* Requests *)

Begin(k, r) == req[k] = Nothing /\ req' = [req EXCEPT ![k] = r]
Go(k, r) == req' = [req EXCEPT ![k] = r]
End(k) == req' = [req EXCEPT ![k] = Nothing]
In(k, kind, step) == req[k].kind = kind /\ req[k].step = step

\* login: the password is checked against the row that was read.
Login(k) ==
    /\ user.type = "REGISTERED" /\ ~user.deleted
    /\ Begin(k, At("LOGIN", "session", None, 0))
    /\ UNCHANGED <<user, session, link, now, drawn, used>>

\* current: an active session, renewed at most once per interval.
Current(k, t) ==
    /\ Live(t)
    /\ session[t] <= now + Lease - Renewal
    /\ Begin(k, At("CURRENT", "renew", t, now + Lease))
    /\ UNCHANGED <<user, session, link, now, drawn, used>>

Renew(k) ==
    /\ In(k, "CURRENT", "renew")
    /\ LET t == req[k].about
       IN session' = IF Live(t)
                     THEN [session EXCEPT ![t] = Renewed(t, req[k].expires)]
                     ELSE session
    /\ End(k)
    /\ UNCHANGED <<user, link, now, drawn, used>>

\* createSession, the last step of LOGIN and UPGRADE.
CreateSession(k) ==
    /\ req[k].kind \in {"LOGIN", "UPGRADE"} /\ req[k].step = "session"
    /\ \E t \in Tokens \ drawn :
          /\ session' = [session EXCEPT ![t] = now + Lease]
          /\ drawn' = drawn \cup {t}
    /\ End(k)
    /\ UNCHANGED <<user, link, now, used>>

Logout(t) ==
    /\ session[t] # None
    /\ session' = [session EXCEPT ![t] = None]
    /\ UNCHANGED <<user, link, req, now, drawn, used>>

\* deleteAllForUser: revokeAll, and the step of UPGRADE and RESET.
NoSessions == session' = [t \in Tokens |-> None]

RevokeAll ==
    /\ NoSessions
    /\ UNCHANGED <<user, link, req, now, drawn, used>>

RevokeAllOf(k) ==
    /\ req[k].kind \in {"UPGRADE", "RESET"} /\ req[k].step = "revoke"
    /\ NoSessions
    /\ IF req[k].kind = "UPGRADE" THEN Go(k, [req[k] EXCEPT !.step = "session"])
       ELSE End(k)
    /\ UNCHANGED <<user, link, now, drawn, used>>

\* requestPasswordReset and resendVerification read the user first.
Forgot(k) ==
    /\ user.type = "REGISTERED" /\ user.email
    /\ Begin(k, At("FORGOT", "issue", None, 0))
    /\ UNCHANGED <<user, session, link, now, drawn, used>>

Resend(k) ==
    /\ user.type = "REGISTERED" /\ user.email /\ ~user.verified
    /\ Begin(k, At("RESEND", "issue", None, 0))
    /\ UNCHANGED <<user, session, link, now, drawn, used>>

\* addEmailToLegacyAccount and upgradeGuest: one guarded statement.
AddEmail(k) ==
    /\ user.type = "REGISTERED" /\ ~user.email
    /\ user' = [user EXCEPT !.email = TRUE, !.verified = FALSE]
    /\ Begin(k, At("EMAIL", "issue", None, 0))
    /\ UNCHANGED <<session, link, now, drawn, used>>

Upgrade(k) ==
    /\ user.type = "GUEST"
    /\ user' = [user EXCEPT !.type = "REGISTERED", !.email = TRUE,
                            !.verified = FALSE]
    /\ Begin(k, At("UPGRADE", "issue", None, 0))
    /\ UNCHANGED <<session, link, now, drawn, used>>

PurposeOf(kind) == IF kind = "FORGOT" THEN "RESET" ELSE "VERIFY"

\* What follows a link that was mailed, refused or given up: UPGRADE goes on,
\* since its link is sent on a best effort.
AfterMail(k) ==
    IF req[k].kind = "UPGRADE" THEN Go(k, At("UPGRADE", "revoke", None, 0))
    ELSE End(k)

IssueLink(k) ==
    /\ req[k].step = "issue"
    /\ LET purpose == PurposeOf(req[k].kind)
           replace == req[k].kind = "RESEND"
       IN \/ /\ Blocked(purpose, replace)
             /\ AfterMail(k)
             /\ UNCHANGED link
          \/ /\ ~Blocked(purpose, replace)
             /\ \E l \in Links :
                   /\ link[l] = None /\ used[l] = 0
                   /\ \A j \in Calls : req[j].about # l
                   /\ Issue(l, purpose, replace)
                   /\ Go(k, [req[k] EXCEPT !.step = "send", !.about = l])
    /\ UNCHANGED <<user, session, now, drawn, used>>

\* The provider takes the mail, or throws and the link is discarded, unless it
\* was consumed meanwhile.
MailSent(k) ==
    /\ req[k].step = "send"
    /\ AfterMail(k)
    /\ UNCHANGED <<user, session, link, now, drawn, used>>

MailRefused(k) ==
    /\ req[k].step = "send"
    /\ LET l == req[k].about
       IN link' = IF link[l] # None /\ ~link[l].consumed
                  THEN [link EXCEPT ![l] = None] ELSE link
    /\ AfterMail(k)
    /\ UNCHANGED <<user, session, now, drawn, used>>

\* verifyEmail and resetPassword consume the link, then change the row.
UseLink(k, l, purpose) ==
    /\ Consumable(l, purpose)
    /\ Consume(l)
    /\ Begin(k, At(purpose, "apply", l, 0))
    /\ UNCHANGED <<user, session, now, drawn, used>>

ApplyLink(k) ==
    /\ req[k].step = "apply"
    /\ used' = [used EXCEPT ![req[k].about] = @ + 1]
    /\ IF req[k].kind = "VERIFY"
       THEN user' = [user EXCEPT !.verified = TRUE] /\ End(k)
       ELSE UNCHANGED user /\ Go(k, [req[k] EXCEPT !.step = "revoke"])
    /\ UNCHANGED <<session, link, now, drawn>>

\* deleteAccount: refused while the user has a seat in a game under way, which
\* is the games' to say (here it may always have none); then one batch.
AskToDelete(k) ==
    /\ ~user.deleted
    /\ Begin(k, At("DELETE", "anonymize", None, 0))
    /\ UNCHANGED <<user, session, link, now, drawn, used>>

Anonymize(k) ==
    /\ In(k, "DELETE", "anonymize")
    /\ NoSessions
    /\ link' = [l \in Links |-> None]
    /\ user' = [user EXCEPT !.email = FALSE, !.verified = FALSE,
                            !.deleted = TRUE]
    /\ End(k)
    /\ UNCHANGED <<now, drawn, used>>

-----------------------------------------------------------------------------
(* Around the requests *)

\* A request ends before its next step: a call of it threw or was cut off.
GiveUp(k) ==
    /\ req[k] # Nothing
    /\ End(k)
    /\ UNCHANGED <<user, session, link, now, drawn, used>>

\* cleanupExpired, daily.
Sweep ==
    /\ session' = [t \in Tokens |-> IF Live(t) THEN session[t] ELSE None]
    /\ link' = [l \in Links |->
                  IF link[l] # None /\ link[l].expires > now THEN link[l]
                  ELSE None]
    /\ UNCHANGED <<user, req, now, drawn, used>>

Tick ==
    /\ now < MaxTime
    /\ now' = now + 1
    /\ UNCHANGED <<user, session, link, req, drawn, used>>

SessionStep ==
    \/ \E k \in Calls : Login(k)
    \/ \E k \in Calls, t \in Tokens : Current(k, t)
    \/ \E k \in Calls : Renew(k)
    \/ \E k \in Calls : CreateSession(k)
    \/ \E t \in Tokens : Logout(t)
    \/ RevokeAll
    \/ \E k \in Calls : RevokeAllOf(k)

LinkStep ==
    \/ \E k \in Calls : Forgot(k)
    \/ \E k \in Calls : Resend(k)
    \/ \E k \in Calls : AddEmail(k)
    \/ \E k \in Calls : Upgrade(k)
    \/ \E k \in Calls : IssueLink(k)
    \/ \E k \in Calls : MailSent(k)
    \/ \E k \in Calls : MailRefused(k)
    \/ \E k \in Calls, l \in Links, purpose \in Purposes : UseLink(k, l, purpose)
    \/ \E k \in Calls : ApplyLink(k)

Next ==
    \/ SessionStep
    \/ LinkStep
    \/ \E k \in Calls : AskToDelete(k)
    \/ \E k \in Calls : Anonymize(k)
    \/ \E k \in Calls : GiveUp(k)
    \/ Sweep
    \/ Tick

Spec == Init /\ [][Next]_vars

-----------------------------------------------------------------------------
(* Properties *)

\* A lease is never shortened and a session that was revoked or swept away
\* never returns, however renewals that read it earlier are overtaken by other
\* renewals, logouts, resets and the daily sweep
\* (worker/repositories/session-repository.ts: "Never shorten a lease or
\* recreate a revoked/expired session").
LeasesOnlyGrow ==
    [][ \A t \in drawn : \/ session'[t] = None
                         \/ session[t] # None /\ session'[t] >= session[t] ]_vars

\* A link changes the account at most once, and the account has at most one
\* link of each purpose that can still be used, however requests for links,
\* resends, failing mails and two uses of one link interleave
\* (auth-token-repository.ts issue and consume, and the unique index of
\* migrations/0012_account_email_and_tokens.sql:21).
LinksWorkOnce ==
    /\ \A l \in Links : used[l] <= 1
    /\ \A l, m \in Links :
          l # m /\ link[l] # None /\ link[m] # None /\ link[l].purpose = link[m].purpose
          => link[l].consumed \/ link[m].consumed
=============================================================================
