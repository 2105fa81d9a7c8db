------------------------------- MODULE HttpAuth -------------------------------
(***************************************************************************)
(* Login over HTTP (packages/auth): a service issues stateless challenges, *)
(* checks the event a signer made of one, and mints a token; a browser     *)
(* fetches the challenge, has it signed, posts it and keeps the cookie.    *)
(* Requests may be delivered again, clocks differ, users take their time.  *)
(***************************************************************************)
EXTENDS Naturals, Integers, FiniteSets

CONSTANTS Browsers, Services, ChallengeTtl, Skew, JwtTtl, LastTime, Scenes, None

VARIABLES now,
          login,   \* browser -> [at, service, chal, event]
          posts,   \* the verify requests under way or answered
          signed,  \* every event a signer made: [pub, chal, created, url, at]
          minted,  \* every token: [pub, by, iat, exp, event, checked]
          jar,     \* browser -> service -> cookie
          seen,    \* browser -> the last answer of /me: [token, at, by]
          spent
vars == <<now, login, posts, signed, minted, jar, seen, spent>>

Scene == Scenes[spent.scene]
\* A service: its secret, the URL it expects (or None), issuer and audience (or None).
Opts(v) == Scene.opts[v]
Clock(b) == now + Scene.offset[b]
Abs(n) == IF n < 0 THEN 0 - n ELSE n
Idle == [at |-> "idle"]

-----------------------------------------------------------------------------
(* The service (challenge.ts, verify.ts, jwt.ts).                          *)

IssueChallenge(v) == [secret |-> Opts(v).secret, at |-> now]
VerifyChallenge(v, c) == IF c.secret # Opts(v).secret THEN "bad_mac" ELSE IF now - c.at > ChallengeTtl THEN "expired" ELSE "ok"
VerifyAuthEvent(v, e) ==
    IF Abs(now - e.created) > Skew THEN "bad_skew"
    ELSE IF VerifyChallenge(v, e.chal) # "ok" THEN "challenge_invalid"
    ELSE IF Opts(v).url # None /\ e.url # Opts(v).url THEN "url_mismatch"
    ELSE "ok"
SignAuthJwt(v, e, checked) == [pub |-> e.pub, by |-> v, iat |-> now, exp |-> now + JwtTtl, event |-> e, checked |-> checked]
\* Slip: whom the token was made for is not looked at.
VerifyAuthJwtAnyAudience(v, t) == /\ Opts(t.by).secret = Opts(v).secret /\ now < t.exp
                                  /\ Opts(v).issuer \in {None, Opts(t.by).issuer}
VerifyAuthJwt(v, t) == /\ Opts(t.by).secret = Opts(v).secret /\ now < t.exp
                       /\ Opts(v).issuer \in {None, Opts(t.by).issuer}
                       /\ Opts(v).audience \in {None, Opts(t.by).audience}

-----------------------------------------------------------------------------
(* The browser (client/index.ts).                                          *)

FetchChallenge(b, v) ==
    /\ login[b].at = "idle" /\ spent.logins > 0 /\ spent' = [spent EXCEPT !.logins = @ - 1]
    /\ login' = [login EXCEPT ![b] = [at |-> "challenged", service |-> v, chal |-> IssueChallenge(v)]]
    /\ UNCHANGED <<now, posts, signed, minted, jar, seen>>
\* The event is dated before the signer is asked.
BuildAuthEvent(b) ==
    /\ login[b].at = "challenged" /\ UNCHANGED <<now, posts, signed, minted, jar, seen, spent>>
    /\ login' = [login EXCEPT ![b] = [at |-> "prompt", service |-> @.service, chal |-> @.chal, created |-> Clock(b)]]
SignerAnswers(b, p) ==
    LET e == [pub |-> p, chal |-> login[b].chal, created |-> login[b].created, url |-> Scene.posts[login[b].service], at |-> now]
    IN  /\ login[b].at = "prompt" /\ signed' = signed \cup {e}
        /\ login' = [login EXCEPT ![b].at = "posted"]
        /\ posts' = posts \cup {[from |-> b, to |-> login[b].service, event |-> e, step |-> "sent", checked |-> None]}
        /\ UNCHANGED <<now, minted, jar, seen, spent>>
LoginFails(b) == /\ login[b].at = "prompt" /\ login' = [login EXCEPT ![b] = Idle]
                 /\ UNCHANGED <<now, posts, signed, minted, jar, seen, spent>>

-----------------------------------------------------------------------------
(* The handlers (handlers.ts, service.ts).                                 *)

Answered(b, t) ==
    /\ login' = [login EXCEPT ![b] = Idle]
    /\ jar' = IF t = None THEN jar ELSE [jar EXCEPT ![b][t.by] = t]
\* verify(): the event is checked, the host's hook is asked and may take its time or refuse.
Verify(r) ==
    /\ r.step = "sent" /\ UNCHANGED <<now, signed, minted, seen, spent>>
    /\ IF VerifyAuthEvent(r.to, r.event) = "ok"
       THEN posts' = (posts \ {r}) \cup {[r EXCEPT !.step = "hook", !.checked = now]} /\ UNCHANGED <<login, jar>>
       ELSE posts' = posts \ {r} /\ Answered(r.from, None)
HookAccepts(r) ==
    LET t == SignAuthJwt(r.to, r.event, r.checked)
    IN  /\ r.step = "hook" /\ minted' = minted \cup {t} /\ posts' = posts \ {r}
        /\ IF login[r.from].at = "posted" THEN Answered(r.from, t) ELSE UNCHANGED <<login, jar>>
        /\ UNCHANGED <<now, signed, seen, spent>>
HookRejects(r) == /\ r.step = "hook" /\ posts' = posts \ {r}
                  /\ IF login[r.from].at = "posted" THEN Answered(r.from, None) ELSE UNCHANGED <<login, jar>>
                  /\ UNCHANGED <<now, signed, minted, seen, spent>>
\* The network delivers a request once more.
Redelivered(e, b, v) == /\ e \in signed /\ e.pub = Scene.user[b] /\ spent.again > 0 /\ spent' = [spent EXCEPT !.again = @ - 1]
                        /\ posts' = posts \cup {[from |-> b, to |-> v, event |-> e, step |-> "sent", checked |-> None]}
                        /\ UNCHANGED <<now, login, signed, minted, jar, seen>>
\* me(): a bearer token before the cookie; the token may have been minted by another service.
ReadJwt(b, v, bearer) == IF bearer # None THEN bearer ELSE jar[b][v]
Me(b, v, bearer) ==
    LET t == ReadJwt(b, v, bearer)
    IN  /\ UNCHANGED <<now, login, posts, signed, minted, jar, spent>>
        /\ seen' = [seen EXCEPT ![b] = IF t # None /\ VerifyAuthJwt(v, t) THEN [token |-> t, at |-> now, by |-> v] ELSE None]
Logout(b, v) == /\ jar[b][v] # None /\ jar' = [jar EXCEPT ![b][v] = None]
                /\ UNCHANGED <<now, login, posts, signed, minted, seen, spent>>
\* Time passes; a cookie lives as long as its token.
Tick == /\ now < LastTime /\ now' = now + 1 /\ UNCHANGED <<login, posts, signed, minted, seen, spent>>
        /\ jar' = [b \in Browsers |-> [v \in Services |-> IF jar[b][v] # None /\ jar[b][v].exp <= now + 1 THEN None ELSE jar[b][v]]]

InitOf(n) ==
    /\ spent = [scene |-> n, logins |-> Scenes[n].logins, again |-> Scenes[n].again]
    /\ now = 0 /\ login = [b \in Browsers |-> Idle] /\ posts = {} /\ signed = {} /\ minted = {}
    /\ jar = [b \in Browsers |-> [v \in Services |-> None]] /\ seen = [b \in Browsers |-> None]
Init == \E n \in DOMAIN Scenes : InitOf(n)
Next == \/ Tick
        \/ \E b \in Browsers, v \in Services : \/ FetchChallenge(b, v) \/ Logout(b, v)
                                               \/ \E t \in minted \cup {None} : Me(b, v, t)
                                               \/ \E e \in signed : Redelivered(e, b, v)
        \/ \E b \in Browsers : BuildAuthEvent(b) \/ LoginFails(b) \/ SignerAnswers(b, Scene.user[b])
        \/ \E r \in posts : Verify(r) \/ HookAccepts(r) \/ HookRejects(r)
Spec == Init /\ [][Next]_vars

-----------------------------------------------------------------------------
(* Properties.                                                             *)

TokensProven ==
    \A t \in minted : /\ t.event \in signed /\ t.pub = t.event.pub
                      /\ t.event.chal.secret = Opts(t.by).secret
                      /\ t.event.chal.at <= t.event.at /\ t.event.at <= t.checked
                      /\ t.checked - t.event.chal.at <= ChallengeTtl
                      /\ Opts(t.by).url \in {None, t.event.url}
AnswersProven ==
    \A b \in Browsers : seen[b] # None =>
         /\ seen[b].token \in minted /\ seen[b].at < seen[b].token.exp
         /\ Opts(seen[b].by).secret = Opts(seen[b].token.by).secret
         /\ Opts(seen[b].by).audience \in {None, Opts(seen[b].token.by).audience}
\* A token is for an account whose signer signed, between the issue and the check of a challenge
\* of a service with the same secret, and within the challenge's time; /me answers with a token
\* that is in time and made for the service that reads it.
SessionProven == TokensProven /\ AnswersProven

\* What keeps it: what is posted was signed, nothing signed or checked is ahead of the clock,
\* what waits for the hook was checked, and a browser keeps what was minted.
LoginsSound == /\ DOMAIN login = Browsers
               /\ \A b \in Browsers : login[b].at \in {"challenged", "prompt"} => login[b].service \in Services /\ login[b].chal.at \in 0..now
SignedSound == \A e \in signed : e.chal.at \in 0..now /\ e.at \in 0..now /\ e.chal.at <= e.at
Checked(v, e, t) == /\ e.chal.secret = Opts(v).secret /\ t \in 0..now /\ e.at <= t
                    /\ t - e.chal.at <= ChallengeTtl /\ Opts(v).url \in {None, e.url}
PostsSound ==
    /\ posts \subseteq [from : Browsers, to : Services, event : signed, step : {"sent", "hook"}, checked : Nat \cup {None}]
    /\ \A r \in posts : r.step = "hook" => Checked(r.to, r.event, r.checked)
JarsSound == jar \in [Browsers -> [Services -> minted \cup {None}]] /\ DOMAIN seen = Browsers
Inv ==
    /\ now \in Nat /\ spent \in [scene : DOMAIN Scenes, logins : Nat, again : Nat]
    /\ LoginsSound /\ SignedSound /\ PostsSound /\ JarsSound
    /\ (\A t \in minted : t.by \in Services) /\ SessionProven
=============================================================================
