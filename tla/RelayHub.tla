------------------------------ MODULE RelayHub ------------------------------
(***************************************************************************)
(* One socket of the relay hub and all it carries: the subscription        *)
(* registry with its scheduler (registry.ts, sub-scheduler.ts), the AUTH   *)
(* record (auth.ts), the leases that let it sign (auth-policy.ts), and     *)
(* the identity it belongs to (hub.ts).  Sockets share nothing but the     *)
(* budget of the table, which RelaySockets is about; what the table does   *)
(* to this one (open, drop, recycle, rebind, forget) are actions here.     *)
(*                                                                         *)
(* `hub` is the state the synchronous calls run through, and each call is  *)
(* an operator from such a state to the next; a handler is a composition.  *)
(* Every timer is a flag, and may fire whenever it is set.                 *)
(***************************************************************************)
EXTENDS Naturals, FiniteSetsExt

CONSTANTS Handles, Keys, Leases, Pubkeys, Challenges,
          Lives, Ops,   \* identities of live records and of signatures, 1..n
          Scenes, None

VARIABLES hub,     \* sock, live, subs, max, penalty, auth, ops, rides, told
          handle,  \* what a caller of subscribe() holds
          lease,   \* row: #leases; held: what callers of acquireAuthLease() hold
          ident,   \* the identity: whether it is known, its key and policy
          spent    \* the bounds; taken: (history) the handles whose record lost its place
vars == <<hub, handle, lease, ident, spent>>

Many == 4  \* an attempt count no limit of the scenes distinguishes from a larger one
\* A live record, an AUTH record, and a signature that was asked for.
LiveRecord == [key : Keys, ent : Nat, holders : SUBSET Handles, pri : {0, 1},
               status : {"pending", "open", "parked", "closed"}, issued : BOOLEAN, attempt : Nat, retry : BOOLEAN,
               dog : BOOLEAN, watch : BOOLEAN, cap : Nat, oneshot : BOOLEAN, late : BOOLEAN, told : BOOLEAN]
AuthRecord == [rec : Ops, state : {"signing", "authenticated", "refused", "failed", "stale"}, gen : Nat,
               challenge : Challenges, op : Ops \cup {0}, refused : Challenges \cup {None}]
Signature  == [at : {"asking", "sent", "dead", "over", "late"}, mine : BOOLEAN, rec : Ops, gen : Nat,
               challenge : Challenges, by : Pubkeys]

\* Of the constants; RelaySide has TLC evaluate it for its instance.
RelayHubAssumption ==
    /\ IsFiniteSet(Lives) /\ Lives = 1..Cardinality(Lives) /\ Ops \subseteq Nat \ {0}
    /\ None \notin Keys \cup Pubkeys \cup Challenges
    /\ None \notin LiveRecord /\ None \notin AuthRecord /\ None \notin Signature
    /\ \A n \in DOMAIN Scenes :
          /\ Scenes[n].spec \in [Handles -> [key : Keys, pri : {0, 1}, watch : BOOLEAN, cap : Nat, oneshot : BOOLEAN]]
          /\ Scenes[n].max \in Nat \ {0} /\ Scenes[n].key \in Pubkeys /\ Scenes[n].answers \in BOOLEAN
          /\ Scenes[n].bounds \in [scene : Nat, priorities : Nat, identities : Nat, removals : Nat, drops : Nat,
                                   forgets : Nat, closes : Nat, silences : Nat, frames : Nat, disposed : {FALSE},
                                   taken : {{}}]

Scene == Scenes[spent.scene]

-----------------------------------------------------------------------------
(* One live record (live-sub.ts).                                          *)

NewLive(ent, spec) ==
    [key |-> spec.key, ent |-> ent, holders |-> {}, pri |-> 0, status |-> "pending", issued |-> FALSE, attempt |-> 0,
     retry |-> FALSE, dog |-> FALSE, watch |-> FALSE, cap |-> spec.cap, oneshot |-> spec.oneshot,
     late |-> FALSE, told |-> FALSE]

Is(s, i)     == s.live[i] # None
InBucket(s)  == {i \in Lives : Is(s, i) /\ s.subs[s.live[i].key] = i}
Issued(s)    == {i \in InBucket(s) : s.live[i].issued}
Higher(s, i, j) == s.live[i].pri > s.live[j].pri \/ (s.live[i].pri = s.live[j].pri /\ i < j)
LowestOf(s, I)  == CHOOSE i \in I : \A j \in I \ {i} : Higher(s, j, i)
HighestOf(s, I) == CHOOSE i \in I : \A j \in I \ {i} : Higher(s, i, j)

\* A step for each of I: in the order of their ids, or by priority as s has it.
Each(op(_, _), s, I)   == MapThenFoldSet(LAMBDA i, t : op(t, i), s, LAMBDA i : i, LAMBDA J : Max(J), I)
Ranked(op(_, _), s, I) == MapThenFoldSet(LAMBDA i, t : op(t, i), s, LAMBDA i : i, LAMBDA J : LowestOf(s, J), I)

\* adoptHolderSettings, recomputePriority
Top(H, pri) == IF \E h \in H : pri[h] = 1 THEN 1 ELSE 0
Adopt(l, h, spec, pri) ==
    LET H == l.holders \cup {h}
    IN  [l EXCEPT !.holders = H, !.pri = Top(H, pri), !.watch = @ \/ spec.watch,
                  !.cap = IF Cardinality(H) = 1 \/ spec.cap > l.cap THEN spec.cap ELSE l.cap]

Quiet(l) == [l EXCEPT !.issued = FALSE, !.retry = FALSE, !.dog = FALSE]
SetLive(s, i, l) == [s EXCEPT !.live[i] = l]
Park(s, i) == SetLive(s, i, [Quiet(s.live[i]) EXCEPT !.status = "parked"])

-----------------------------------------------------------------------------
(* The scheduler (sub-scheduler.ts).                                       *)

More(n)  == IF n < Many THEN n + 1 ELSE n
Fewer(n) == IF n > 1 THEN n - 1 ELSE 1

Issue(s, i) ==
    SetLive(s, i, [s.live[i] EXCEPT !.issued = TRUE, !.status = "open", !.dog = s.live[i].watch, !.attempt = More(@)])

Lowest(s) == LowestOf(s, Issued(s))

Place(s, i) ==
    IF ~s.sock.up THEN SetLive(s, i, [s.live[i] EXCEPT !.status = "pending"])
    ELSE IF s.penalty THEN SetLive(s, i, [s.live[i] EXCEPT !.status = "parked"])
    ELSE IF Cardinality(Issued(s)) < s.max THEN Issue(s, i)
    ELSE IF s.live[Lowest(s)].pri < s.live[i].pri THEN Issue(Park(s, Lowest(s)), i)
    ELSE SetLive(s, i, [s.live[i] EXCEPT !.status = "parked"])

Dormant(s, i) == s.live[i].told \/ s.live[i].issued \/ s.live[i].holders = {}

\* What terminate() does before it looks for a record to unpark.
End(s, i) ==
    IF s.live[i].told THEN s
    ELSE [SetLive(s, i, [Quiet(s.live[i]) EXCEPT !.status = "closed", !.told = TRUE])
             EXCEPT !.told = @ \cup s.live[i].holders]

\* unparkOne: expired queries are ended on the way to the first record that can be placed.
Unpark(s) ==
    LET parked == {i \in InBucket(s) : s.live[i].status = "parked" /\ ~s.live[i].told /\ ~s.live[i].issued}
        fit    == {i \in parked : ~s.live[i].late}
        over   == {i \in parked : s.live[i].late /\ \A j \in fit : Higher(s, i, j)}
        ended  == Ranked(End, s, over)
        i      == HighestOf(s, fit)
    IN  IF fit = {} THEN ended ELSE IF Dormant(ended, i) THEN ended ELSE Place(ended, i)

\* Slip: the slot of a subscription that ended is not offered to the parked ones.
TerminateQuietly(s, i) == End(s, i)
Terminate(s, i) == IF s.live[i].told THEN s ELSE Unpark(End(s, i))

TryIssue(s, i) ==
    IF Dormant(s, i) THEN s ELSE IF s.live[i].late THEN Terminate(s, i) ELSE Place(s, i)

ScheduleRetry(s, i) ==
    IF s.live[i].attempt >= s.live[i].cap THEN Terminate([s EXCEPT !.live[i].retry = FALSE], i)
    ELSE SetLive(s, i, [s.live[i] EXCEPT !.retry = TRUE, !.status = "pending"])

QuotaHit(s, i) ==
    LET p == Park([s EXCEPT !.max = Fewer(@), !.penalty = TRUE], i)
    IN  IF Cardinality(Issued(p)) > p.max THEN Park(p, Lowest(p)) ELSE p

-----------------------------------------------------------------------------
(* The AUTH record (auth.ts).  An operation outlives its record: `mine`    *)
(* says that record.signed is still this operation.                        *)

NoAuth == [rec |-> 0, state |-> "none", gen |-> 0, challenge |-> None, op |-> 0, refused |-> None]
Disown(s) == IF s.auth = None \/ s.auth.op = 0 THEN s.ops ELSE [s.ops EXCEPT ![s.auth.op].mine = FALSE]

Staled(state) == IF state \in {"authenticated", "signing"} THEN "stale" ELSE state
AuthDrop(s) ==
    IF s.auth = None THEN s
    ELSE [s EXCEPT !.auth = [s.auth EXCEPT !.state = Staled(@), !.op = 0], !.ops = Disown(s)]

FreshOp(s) == IF \E o \in Ops : s.ops[o] = None
              THEN CHOOSE o \in Ops : s.ops[o] = None /\ \A p \in Ops : p < o => s.ops[p] # None ELSE 0

\* Slip: a refused challenge is signed again.
MemoOfSigned(s) ==
    s.auth # None /\ s.auth.op # 0 /\ s.auth.challenge = s.sock.challenge /\ s.auth.gen = s.sock.gen
    /\ s.auth.state # "refused"
\* The challenge was signed, or refused, on this socket generation.
Memo(s) ==
    /\ s.auth # None /\ s.auth.gen = s.sock.gen
    /\ s.sock.challenge = s.auth.refused \/ (s.auth.op # 0 /\ s.auth.challenge = s.sock.challenge)

\* ensureRecord(); a record is named by its first signature.
Record(s) == IF s.auth = None THEN [NoAuth EXCEPT !.rec = FreshOp(s)] ELSE s.auth
\* sign() by the transport, for the challenge it holds.
Sign(s) ==
    IF ~ident.answers \/ Memo(s) THEN s
    ELSE [s EXCEPT !.auth = [Record(s) EXCEPT !.state = "signing", !.gen = s.sock.gen,
                                 !.challenge = s.sock.challenge, !.op = FreshOp(s)],
                   !.sock.promise = FreshOp(s),
                   !.ops = [Disown(s) EXCEPT ![FreshOp(s)] =
                               [at |-> "asking", mine |-> TRUE, rec |-> Record(s).rec, gen |-> s.sock.gen,
                                challenge |-> s.sock.challenge, by |-> ident.key]]]
\* relay.auth(): one promise per connection.
RelayAuth(s) == IF s.sock.challenge = None \/ s.sock.promise # 0 THEN s ELSE Sign(s)

Signing(s) == s.auth # None /\ s.auth.state = "signing"

\* onAuthClosed: refused for good, riding the open prompt, or again.
AuthClosed(s, i) ==
    IF ~s.sock.onauth \/ (s.auth # None /\ s.auth.state = "refused") THEN Terminate(s, i)
    ELSE IF Signing(s) /\ s.auth.op # 0
         THEN [s EXCEPT !.live[i].status = "pending", !.rides = @ \cup {<<i, s.auth.op>>}]
         ELSE ScheduleRetry(s, i)

Wants(count, id) == id.answers /\ count > 0
Sync(s, count, id) == [s EXCEPT !.sock.onauth = Wants(count, id)]

-----------------------------------------------------------------------------
(* The socket and the registry's hooks on it (registry.ts, hub.ts).        *)

NoSock == [ent |-> 0, up |-> FALSE, gen |-> 0, onauth |-> FALSE, subs |-> 0, challenge |-> None, promise |-> 0]

\* Slip: a subscription is left as the drop made it.
ReissueNot(s, i) == s
Reissue(s, i) == IF s.live[i].told THEN s
                 ELSE TryIssue([s EXCEPT !.live[i].attempt = 0, !.live[i].retry = FALSE], i)
SocketOpen(s) == Ranked(Reissue, s, InBucket(s))

LoseWire(s, i) ==
    IF s.live[i].oneshot THEN Terminate(s, i)
    ELSE IF s.live[i].told THEN s
    ELSE SetLive(s, i, [Quiet(s.live[i]) EXCEPT !.status = "pending"])
\* A record that is in no bucket hears of it from nostr-tools alone (onClosed).
CutOff(s, i) == SetLive(s, i, [s.live[i] EXCEPT !.issued = FALSE, !.dog = FALSE, !.status = "pending"])
Unlisted(s)  == {i \in Lives \ InBucket(s) : Is(s, i) /\ s.live[i].issued}
\* onDrop: of a socket that is up, or that is closed in its handshake.
SocketDrop(s) ==
    LET d == AuthDrop([s EXCEPT !.sock.up = FALSE])
        c == Each(LoseWire, d, InBucket(d))
    IN  Each(CutOff, c, Unlisted(c))

ForgetBucket(s) ==
    [Each(Terminate, s, InBucket(s)) EXCEPT !.subs = [k \in Keys |-> 0], !.max = Scene.max, !.penalty = FALSE]
Forget(s) == [ForgetBucket([SocketDrop(s) EXCEPT !.auth = None]) EXCEPT !.sock = NoSock]

Ensure(s) == IF s.sock.ent # 0 THEN s
             ELSE [s EXCEPT !.sock = [NoSock EXCEPT !.ent = s.ents + 1, !.onauth = Wants(lease.row, ident)],
                            !.ents = @ + 1]

Less(n) == IF n > 0 THEN n - 1 ELSE n
\* detach() of one holder after the other; the last takes the record out of the bucket its
\* socket's key has now.
Detach(s, i, L) ==
    LET l == s.live[i]
        H == l.holders \ L
    IN  IF H = l.holders THEN s
        ELSE IF H # {}
             THEN SetLive(s, i, [l EXCEPT !.holders = H, !.pri = Top(H, [j \in Handles |-> handle[j].pri])])
             ELSE Unpark([s EXCEPT !.live[i] = None, !.subs[l.key] = 0,
                                   !.sock.subs = IF s.sock.ent = l.ent THEN Less(s.sock.subs) ELSE s.sock.subs])

-----------------------------------------------------------------------------
(* Callers.                                                                *)

Spend(what) == spent[what] > 0 /\ spent' = [spent EXCEPT ![what] = @ - 1]
Known       == ident.known /\ ~spent.disposed
NextLive(s) == IF \E i \in Lives : i > s.born THEN s.born + 1 ELSE 0

Subscribe(h) ==
    LET spec == Scene.spec[h]
        e    == Ensure(hub)
        old  == e.subs[spec.key]
        i    == IF old # 0 THEN old ELSE NextLive(hub)
        l    == IF old # 0 THEN e.live[i] ELSE NewLive(e.sock.ent, spec)
        pri  == [j \in Handles |-> IF j = h THEN spec.pri ELSE handle[j].pri]
        a    == [e EXCEPT !.live[i] = Adopt(l, h, spec, pri), !.subs[spec.key] = i,
                          !.born = IF old # 0 THEN e.born ELSE i, !.sock.subs = IF old # 0 THEN e.sock.subs ELSE e.sock.subs + 1]
    IN  /\ Known /\ h \in Scene.handles /\ handle[h].at = "idle" /\ i # 0
        /\ handle' = [handle EXCEPT ![h] = [at |-> "held", live |-> i, pri |-> spec.pri]]
        /\ hub' = IF l.told THEN [a EXCEPT !.told = @ \cup {h}]
                  ELSE IF l.issued \/ l.retry THEN a ELSE TryIssue(a, i)
        /\ UNCHANGED <<lease, ident, spent>>

\* (history) Whose records lose their place when L leaves i, because i had lost its own to a later
\* record of the same key.
Ousted(i, L) == LET j == hub.subs[hub.live[i].key]
                IN  IF hub.live[i].holders = L /\ j \notin {0, i} THEN hub.live[j].holders ELSE {}
Release(h) ==
    LET i == handle[h].live
    IN  /\ handle[h].at = "held"
        /\ hub' = IF hub.live[i] = None THEN hub ELSE Detach(hub, i, {h})
        /\ handle' = [handle EXCEPT ![h].at = "gone"]
        /\ spent' = [spent EXCEPT !.taken = IF hub.live[i] = None THEN @ ELSE @ \cup Ousted(i, {h})]
        /\ UNCHANGED <<lease, ident>>

SetPriority(h) ==
    LET i == handle[h].live
        p == [j \in Handles |-> IF j = h THEN 1 - handle[h].pri ELSE handle[j].pri]
    IN  /\ handle[h].at = "held" /\ Spend("priorities")
        /\ handle' = [handle EXCEPT ![h].pri = p[h]]
        /\ hub' = SetLive(hub, i, [hub.live[i] EXCEPT !.pri = Top(hub.live[i].holders, p)])
        /\ UNCHANGED <<lease, ident>>

Acquire(l) ==
    LET s == Sync(hub, lease.row + 1, ident)
    IN  /\ Known /\ l \in Scene.leases /\ l \notin lease.held \cup lease.done /\ FreshOp(hub) # 0
        /\ lease' = [lease EXCEPT !.row = @ + 1, !.held = @ \cup {l}]
        /\ hub' = IF hub.sock.ent = 0 THEN hub
                  ELSE IF s.sock.onauth /\ ~hub.sock.onauth /\ hub.sock.up THEN RelayAuth(s) ELSE s
        /\ UNCHANGED <<handle, ident, spent>>

ReleaseLease(l) ==
    LET s == Sync(hub, lease.row - 1, ident)
    IN  /\ l \in lease.held
        /\ lease' = [row |-> IF lease.row = 0 THEN 0 ELSE lease.row - 1,
                     held |-> lease.held \ {l}, done |-> lease.done \cup {l}]
        /\ hub' = IF lease.row = 0 \/ hub.sock.ent = 0 THEN hub
                  ELSE IF lease.row = 1 THEN [s EXCEPT !.auth = None] ELSE s
        /\ UNCHANGED <<handle, ident, spent>>

SetIdentity(k, answers) ==
    LET new == [known |-> TRUE, key |-> k, answers |-> answers]
    IN  /\ ~spent.disposed /\ Spend("identities") /\ ident' = new
        /\ IF ident.known /\ (ident.key # k \/ ident.answers # answers)
           THEN LET s == [hub EXCEPT !.auth = None]
                IN  hub' = SocketDrop(s) \/ (~hub.sock.up /\ hub' = s)   \* in its handshake, or between two
           ELSE hub' = IF hub.sock.ent # 0 THEN Sync(hub, lease.row, new) ELSE hub
        /\ UNCHANGED <<handle, lease>>

RemoveIdentity ==
    /\ ident.known /\ Spend("removals")
    /\ hub' = Forget(Each(Terminate, hub, InBucket(hub)))
    /\ lease' = [lease EXCEPT !.row = 0]
    /\ ident' = [ident EXCEPT !.known = FALSE]
    /\ UNCHANGED handle

Dispose ==
    /\ ~spent.disposed /\ Scene.disposal
    /\ hub' = Forget(ForgetBucket(hub))
    /\ lease' = [lease EXCEPT !.row = 0] /\ ident' = [ident EXCEPT !.known = FALSE]
    /\ spent' = [spent EXCEPT !.disposed = TRUE]
    /\ UNCHANGED handle

-----------------------------------------------------------------------------
(* The socket, the relay behind it, the timers and the signer.             *)

Rest == UNCHANGED <<handle, lease, ident>>

Opened ==
    /\ hub.sock.ent # 0 /\ ~hub.sock.up /\ hub.sock.subs > 0
    /\ hub' = SocketOpen(Sync([hub EXCEPT !.sock.up = TRUE, !.sock.gen = @ + 1, !.sock.promise = 0,
                                          !.sock.challenge = None], lease.row, ident))
    /\ UNCHANGED spent /\ Rest

\* The transport drops the socket, or dropSocket() does, which may find it in its handshake.
Dropped   == hub.sock.ent # 0 /\ Spend("drops") /\ hub' = SocketDrop(hub) /\ Rest
Forgotten == /\ hub.sock.ent # 0 /\ hub.sock.subs = 0 /\ Spend("forgets")
             /\ hub' = Forget(hub) /\ Rest

OnWire(i) == Is(hub, i) /\ hub.live[i].issued

\* How a CLOSED reason is read; `wrapped`: nostr-tools authenticated, asked again and was closed
\* for what the reason says within.
Reasons == [wrapped : BOOLEAN, says : {"auth", "restricted", "quota", "other"}]
Class(r) == IF r.says = "quota" THEN "quota"
            ELSE IF r.wrapped /\ r.says # "restricted" THEN "auth" ELSE r.says

\* onClosed: the verdict of the relay; holders may release in the callback that reports it.
RelayCloses(i, reason, leaving) ==
    LET l == hub.live[i]
        class == Class(reason)
        c == SetLive(hub, i, [l EXCEPT !.issued = FALSE, !.dog = FALSE])
        q == IF class = "quota" THEN QuotaHit(c, i) ELSE c
        s == Detach(q, i, leaving)
    IN  /\ OnWire(i) /\ reason \in Scene.verdicts /\ spent.closes > 0 /\ leaving \subseteq l.holders
        /\ spent' = [spent EXCEPT !.closes = @ - 1, !.taken = @ \cup Ousted(i, leaving)]
        /\ handle' = [h \in Handles |-> IF h \in leaving THEN [handle[h] EXCEPT !.at = "gone"] ELSE handle[h]]
        /\ hub' = IF leaving = l.holders \/ class = "quota" THEN s
                  ELSE IF class = "auth" THEN AuthClosed(s, i)
                  ELSE IF class = "restricted" \/ l.attempt >= 3 THEN Terminate(s, i)
                  ELSE ScheduleRetry(s, i)
        /\ UNCHANGED <<lease, ident>>

\* An EVENT or an EOSE.
RelaySpeaks(i) ==
    /\ OnWire(i)
    /\ \E a \in {0, hub.live[i].attempt} :
          hub' = SetLive(hub, i, [hub.live[i] EXCEPT !.attempt = a, !.dog = FALSE])
    /\ UNCHANGED spent /\ Rest

RetryFires(i) ==
    /\ Is(hub, i) /\ hub.live[i].retry
    /\ hub' = TryIssue([hub EXCEPT !.live[i].retry = FALSE], i) /\ UNCHANGED spent /\ Rest

\* The watchdog; it is armed again while the user looks at the prompt.
Silence(i) ==
    /\ OnWire(i) /\ hub.live[i].dog /\ ~Signing(hub) /\ Spend("silences")
    /\ hub' = ScheduleRetry(SetLive(hub, i, [hub.live[i] EXCEPT !.issued = FALSE, !.dog = FALSE]), i)
    /\ Rest

Readmit(s, i) == IF s.live[i].status = "parked" THEN TryIssue(s, i) ELSE s
PenaltyEnds ==
    /\ hub.penalty
    /\ LET s == [hub EXCEPT !.penalty = FALSE, !.max = Scene.max]
       IN  hub' = Ranked(Readmit, s, InBucket(s))
    /\ UNCHANGED spent /\ Rest

Deadline(i) == /\ Is(hub, i) /\ hub.live[i].oneshot /\ ~hub.live[i].late
               /\ hub' = [hub EXCEPT !.live[i].late = TRUE] /\ UNCHANGED spent /\ Rest

\* An AUTH frame: the transport signs unless it is waiting for the answer to one.
Challenged(c) ==
    LET s == [hub EXCEPT !.sock.challenge = c]
        waits == s.sock.promise # 0 /\ s.ops[s.sock.promise].at \notin {"over", "late"}
    IN  /\ hub.sock.up /\ FreshOp(hub) # 0 /\ c \in Scene.challenges /\ Spend("frames")
        /\ hub' = IF s.sock.onauth /\ ~waits THEN Sign(s) ELSE s
        /\ Rest

SignerAnswers(o, ok) ==
    LET p == hub.ops[o]
    IN  /\ p # None /\ p.at = "asking" /\ (ok \/ Scene.declines)
        /\ hub' = IF ok THEN [hub EXCEPT !.ops[o].at = "sent"]
                  ELSE [hub EXCEPT !.ops[o].at = "dead", !.ops[o].mine = FALSE,
                          !.auth = IF p.mine /\ hub.auth # None /\ hub.auth.op = o
                                   THEN [hub.auth EXCEPT !.state = "failed", !.op = 0] ELSE hub.auth]
        /\ UNCHANGED spent /\ Rest

\* What the verdict means for one that rode the prompt.
Rejoin(s, i) == IF ~Is(s, i) THEN s ELSE TryIssue(s, i)
GiveUp(s, i) == IF ~Is(s, i) THEN s ELSE IF Dormant(s, i) THEN s ELSE Terminate(s, i)

\* The relay's OK, its refusal, or no answer in time; then those that rode this prompt.
Verdict(o, v) ==
    LET p   == hub.ops[o]
        cur == p.mine /\ hub.auth # None /\ hub.auth.op = o
        a   == IF ~cur THEN hub.auth
               ELSE IF v = "ok" THEN [hub.auth EXCEPT !.state = "authenticated"]
               ELSE IF v = "refused" THEN [hub.auth EXCEPT !.state = "refused", !.refused = p.challenge]
               ELSE [hub.auth EXCEPT !.state = "failed", !.op = 0]
        s   == [hub EXCEPT !.ops[o].at = IF v = "late" THEN v ELSE "over", !.ops[o].mine = p.mine /\ v # "late",
                           !.auth = a, !.rides = {r \in @ : r[2] # o}]
        riders == {i \in Lives : <<i, o>> \in hub.rides}
    IN  /\ p # None /\ p.at = "sent" /\ v \in {"ok", "refused", "late"}
        /\ hub' = IF p.mine /\ v = "ok" THEN Each(Rejoin, s, riders) ELSE Each(GiveUp, s, riders)
        /\ UNCHANGED spent /\ Rest

-----------------------------------------------------------------------------
InitOf(n) ==
    /\ spent = [Scenes[n].bounds EXCEPT !.scene = n]
    /\ hub = [sock |-> NoSock, ents |-> 0, born |-> 0, live |-> [i \in Lives |-> None],
              subs |-> [k \in Keys |-> 0], max |-> Scenes[n].max, penalty |-> FALSE, auth |-> None,
              ops |-> [o \in Ops |-> None], rides |-> {}, told |-> {}]
    /\ handle = [h \in Handles |-> [at |-> "idle", live |-> 0, pri |-> 0]]
    /\ lease = [row |-> 0, held |-> {}, done |-> {}]
    /\ ident = [known |-> TRUE, key |-> Scenes[n].key, answers |-> Scenes[n].answers]
Init == \E n \in DOMAIN Scenes : InitOf(n)

Callers == \/ \E h \in Handles : Subscribe(h) \/ Release(h) \/ SetPriority(h)
           \/ \E l \in Leases : Acquire(l) \/ ReleaseLease(l)
           \/ \E k \in Pubkeys, a \in BOOLEAN : SetIdentity(k, a)
           \/ RemoveIdentity \/ Dispose \/ Forgotten
Relay == \/ Dropped \/ \E c \in Challenges : Challenged(c)
         \/ \E i \in Lives : RelaySpeaks(i) \/ Silence(i) \/ Deadline(i)
         \/ \E i \in Lives, r \in Reasons, H \in SUBSET Handles : RelayCloses(i, r, H)
Answers(o) == (\E ok \in BOOLEAN : SignerAnswers(o, ok)) \/ \E v \in {"ok", "refused", "late"} : Verdict(o, v)
\* Timers fire, a socket that is tried again and again opens, and a prompt ends: the user
\* answers it, and then the relay does or the transport gives it up.
Progress == \/ Opened \/ PenaltyEnds
            \/ \E i \in Lives : RetryFires(i)
            \/ \E o \in Ops : Answers(o)
Next == Callers \/ Relay \/ Progress

Spec == Init /\ [][Next]_vars
FairSpec == Spec /\ WF_vars(Progress)

-----------------------------------------------------------------------------
(* Properties.                                                             *)

HubState == [sock : [ent : Nat, up : BOOLEAN, gen : Nat, onauth : BOOLEAN, subs : Nat,
                     challenge : Challenges \cup {None}, promise : Ops \cup {0}],
             ents : Nat, born : Lives \cup {0}, live : [Lives -> LiveRecord \cup {None}], subs : [Keys -> Lives \cup {0}],
             max : Nat \ {0}, penalty : BOOLEAN, auth : AuthRecord \cup {None}, ops : [Ops -> Signature \cup {None}],
             rides : SUBSET (Lives \X Ops), told : SUBSET Handles]
TypeOK ==
    /\ hub \in HubState
    /\ handle \in [Handles -> [at : {"idle", "held", "gone"}, live : Lives \cup {0}, pri : {0, 1}]]
    /\ lease \in [row : Nat, held : SUBSET Leases, done : SUBSET Leases]
    /\ ident \in [known : BOOLEAN, key : Pubkeys, answers : BOOLEAN]

Riding(i)  == \E o \in Ops : <<i, o>> \in hub.rides
Waiting(i) == hub.live[i].retry \/ Riding(i)
LiveHandles == {h \in Handles : handle[h].at = "held" /\ h \notin hub.told}

\* A subscription that is held and was not told otherwise is in its socket's bucket, unless a
\* handle that was told of the end of an earlier identity's request was let go of since: the
\* registry then takes the new request of the same key out of the bucket (registry.ts:208-212),
\* and nothing brings it back after the next drop.  While
\* the socket is up it is on the wire, or a timer or a prompt brings it back, or it is parked
\* because of a penalty or because the others use, or will use, every slot; while the socket
\* is down it counts among those for whose sake the socket is opened again.
SubsAlive ==
    \A h \in LiveHandles \ spent.taken :
       LET i == handle[h].live
       IN  /\ Is(hub, i) /\ i \in InBucket(hub) /\ h \in hub.live[i].holders /\ ~hub.live[i].told
           /\ hub.live[i].ent = hub.sock.ent /\ hub.sock.subs > 0
           /\ hub.sock.up =>
                \/ hub.live[i].issued \/ Waiting(i)
                \/ /\ hub.live[i].status = "parked"
                   /\ \/ hub.penalty
                      \/ Cardinality({j \in InBucket(hub) : hub.live[j].issued \/ Waiting(j)}) >= hub.max

\* "retried immediately once, then with backoff while the socket can AUTH": one that waits
\* for the verdict of a prompt waits for a prompt that will have one.
RidesEnd == \A r \in hub.rides : hub.ops[r[2]].at # "dead"

\* No request is on the wire beyond the budget, for nobody, for one who was told that it is
\* over, or while the socket is down: the relay of one identity's connection never goes on
\* serving another's.
WireInBudget ==
    /\ TypeOK
    /\ Cardinality(Issued(hub)) <= hub.max
    /\ \A i \in Lives : OnWire(i) => /\ hub.sock.up /\ hub.live[i].holders # {} /\ ~hub.live[i].told
                                     /\ hub.live[i].ent = hub.sock.ent

\* A socket is shown as authenticated only for the connection it has and the key it acts for;
\* and as long as a record lives, the user is asked to sign a challenge once on a connection,
\* unless the signature came to nothing or another challenge was signed in between, since the
\* memo and the pin hold one challenge.
AuthIsCurrent ==
    /\ hub.auth # None /\ hub.auth.state = "authenticated" =>
         /\ hub.sock.up /\ hub.auth.gen = hub.sock.gen /\ hub.auth.op # 0
         /\ hub.ops[hub.auth.op].gen = hub.sock.gen /\ hub.ops[hub.auth.op].by = ident.key
    /\ \A o, p \in Ops :
         /\ o # p /\ hub.ops[o] # None /\ hub.ops[p] # None
         /\ hub.ops[o].rec = hub.ops[p].rec /\ hub.ops[o].gen = hub.ops[p].gen
         /\ hub.ops[o].challenge = hub.ops[p].challenge
         => \/ {hub.ops[o].at, hub.ops[p].at} \cap {"dead", "late"} # {}
            \/ \E q \in Ops : /\ (o < q /\ q < p) \/ (p < q /\ q < o)
                             /\ hub.ops[q] # None /\ hub.ops[q].rec = hub.ops[o].rec
                             /\ hub.ops[q].gen = hub.ops[o].gen /\ hub.ops[q].challenge # hub.ops[o].challenge

\* The hub keeps the promise of Subscription.
Phase   == [h \in Handles |-> IF handle[h].at = "held" THEN IF h \in hub.told THEN "told" ELSE "live"
                             ELSE handle[h].at]
Served  == {h \in Handles : handle[h].at = "held" /\ OnWire(handle[h].live)}
Waiters == {h \in LiveHandles : Is(hub, handle[h].live) /\ hub.live[handle[h].live].status = "parked"}
S == INSTANCE Subscription WITH phase <- Phase, served <- Served, waiting <- Waiters
KeepsPromise == S!Spec
=============================================================================
