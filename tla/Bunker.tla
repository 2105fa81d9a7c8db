------------------------------- MODULE Bunker -------------------------------
(***************************************************************************)
(* The NIP-46 server (identity/bunker/server.ts): pairing secrets, clients *)
(* admitted over them, the approvals that are open at the user's prompt,   *)
(* revocation with its generation, and the state a host keeps so that      *)
(* pairings survive the death of the process.  Its relay subscriptions are *)
(* the subject of BunkerRelays.                                            *)
(*                                                                         *)
(* A secret is a name; each time it is minted it becomes a new record with *)
(* an id of its own, since the code compares records by identity.  Time is *)
(* in the records: an unclaimed secret lapses at any moment.               *)
(***************************************************************************)
EXTENDS Naturals, FiniteSets

CONSTANTS Clients, Secrets, Relays,  \* Relays: relay sets, as opaque values
          Slots,                     \* request and scan executions, 1..n
          Scenes,                    \* instances, with the ceilings of each (MC_Bunker)
          None

VARIABLES secrets,     \* #secrets
          clients,     \* #clients
          seen,        \* request ids in the window of each sender, connected or not
          runs,        \* dispatched requests and scans
          approvals,   \* #pendingApprovals
          admissions,  \* #pendingAdmissions
          generation,  \* #generation
          host,        \* what the host keeps: generation (keychain), saved (storage), kept (a copy)
          history,     \* ids born, revoked and admitted; whether an old copy was restored
          spent        \* the scene, and how much of its bounds is used

memory == <<secrets, clients, seen, runs, approvals, admissions, generation>>
vars   == <<memory, host, history, spent>>

Scene     == spent.scene
Connected == {c \in Clients : clients[c] # None}
Held      == {x \in Secrets : secrets[x] # None}
Awaiting(k) == runs[k].at = "handler" /\ runs[k].do \in {"connect", "scan"}

-----------------------------------------------------------------------------
(* Secrets, and what is exported of them.                                  *)

Fresh(R, origin, lapse) ==
    [id |-> history.born + 1, relays |-> R, client |-> None, confirmed |-> FALSE,
     pending |-> 0, origin |-> origin, lapse |-> lapse]

Lapsed(r) == r # None /\ ~r.confirmed /\ r.pending = 0 /\ r.lapse = "now"
Swept(s)  == [x \in Secrets |-> IF Lapsed(s[x]) THEN None ELSE s[x]]

\* A connect or a scan drops the one secret it names, and the snapshot that follows sweeps all.
Live(x) == IF x # None /\ Lapsed(secrets[x]) THEN Swept(secrets) ELSE secrets

Export(s, c, g) ==
    [signed |-> TRUE, generation |-> g, clients |-> c,
     secrets |-> [x \in Secrets |-> IF s[x] = None THEN None ELSE [s[x] EXCEPT !.pending = 0]]]

\* The state s, c, g is reached and handed out; g is what the keychain is told.
Emit(s, c, g, told) ==
    /\ secrets' = Swept(s) /\ clients' = c /\ generation' = g
    /\ host' = [host EXCEPT !.saved = Export(Swept(s), c, g), !.generation = told]
EmitIf(changed, s, c) ==
    IF changed THEN Emit(s, c, generation, host.generation)
               ELSE UNCHANGED <<secrets, clients, generation, host>>

Keep(s, c) == Emit(s, c, generation, host.generation)

-----------------------------------------------------------------------------
(* Approvals and the ceiling.                                              *)

InFlight(c) == admissions[c] > 0
OverClientCeiling(c) ==
    /\ c \notin Connected /\ ~InFlight(c)
    /\ Cardinality(Connected) + Cardinality({d \in Clients : InFlight(d)}) >= Scene.maxClients
RoomFor(c) == c \in Connected \/ Cardinality(Connected) < Scene.maxClients

TakesSlot(c) == c \notin Connected
BeginApproval(c) ==
    /\ approvals' = approvals + 1
    /\ admissions' = IF TakesSlot(c) THEN [admissions EXCEPT ![c] = @ + 1] ELSE admissions
\* Slip: whether a place was taken is asked again when the approval ends.
EndApprovalAgain(k) ==
    /\ approvals' = approvals - 1
    /\ admissions' = IF TakesSlot(runs[k].by) THEN [admissions EXCEPT ![runs[k].by] = @ - 1] ELSE admissions
EndApproval(k) ==
    /\ approvals' = approvals - 1
    /\ admissions' = IF runs[k].slot THEN [admissions EXCEPT ![runs[k].by] = @ - 1] ELSE admissions

\* Slip: only a confirmed binding keeps another client out.
BindableUntilConfirmed(s, x, c) == IF s[x] = None THEN TRUE ELSE s[x].client \in {None, c} \/ ~s[x].confirmed
\* #bind: the secret is c's while the approval is pending.
Bindable(s, x, c) == IF s[x] = None THEN TRUE ELSE s[x].client \in {None, c}
Bound(s, x, c)    == [s EXCEPT ![x].client = c, ![x].pending = @ + 1]

\* Slip: a rejected approval frees a secret that was confirmed before.
UnboundAnyway(s, x) ==
    IF s[x].pending > 1 THEN [s EXCEPT ![x].pending = @ - 1] ELSE [s EXCEPT ![x].client = None, ![x].pending = 0]
\* #unbind: the last pending approval of an unconfirmed record frees it, and a record that
\* only a scan made goes away.
Unbound(s, x) ==
    LET r == s[x]
    IN  IF r.pending > 1 \/ r.confirmed THEN [s EXCEPT ![x].pending = @ - 1]
        ELSE IF r.origin = "nostrconnect" THEN [s EXCEPT ![x] = None]
        ELSE [s EXCEPT ![x].client = None, ![x].pending = 0]

Confirmed(s, x, R) ==
    [s EXCEPT ![x].pending = @ - 1, ![x].confirmed = TRUE, ![x].lapse = "never", ![x].relays = R]

\* Slip: the record is looked up by its name alone.
HoldsSecret(k) == runs[k].rec # 0 /\ secrets[runs[k].secret] # None
\* The record an execution holds is still the one under its secret.
HoldsRecord(k) == /\ runs[k].rec # 0 /\ secrets[runs[k].secret] # None
                  /\ secrets[runs[k].secret].id = runs[k].rec

-----------------------------------------------------------------------------
(* Executions.                                                             *)

IdleRun == [at |-> "idle", do |-> "none", by |-> None, secret |-> None, rec |-> 0,
            relays |-> None, was |-> FALSE, slot |-> FALSE, ok |-> FALSE]
Over    == [IdleRun EXCEPT !.at = "done"]
Free(k) == runs[k].at = "idle" /\ \A j \in Slots : j < k => runs[j].at # "idle"
To(k, run) == runs' = [runs EXCEPT ![k] = run]
Replies(k, ok) == To(k, [runs[k] EXCEPT !.at = "reply", !.ok = ok])

Started(do, c, x) == [IdleRun EXCEPT !.do = do, !.by = c, !.secret = x, !.was = c \in Connected]

Refused(k, run) == To(k, [run EXCEPT !.at = "reply"]) /\ UNCHANGED <<approvals, admissions>>
Asks(k, run, s, x, R) ==
    To(k, [run EXCEPT !.at = "handler", !.slot = TakesSlot(run.by), !.relays = R,
                      !.rec = IF x # None /\ s[x] # None THEN s[x].id ELSE 0])

\* connect: the secret, the ceiling, the binding, and then the user.
Connect(k, c, x) ==
    LET s    == Live(x)
        live == x # None /\ s[x] # None
        run  == Started("connect", c, x)
        refuse == (Scene.required /\ ~live) \/ OverClientCeiling(c) \/ (live /\ ~Bindable(s, x, c))
    IN  IF refuse
        THEN Refused(k, run) /\ EmitIf(s # secrets, s, clients)
        ELSE /\ BeginApproval(c)
             /\ Asks(k, run, s, x, IF live THEN s[x].relays ELSE Scene.source)
             /\ EmitIf(live \/ s # secrets, IF live THEN Bound(s, x, c) ELSE s, clients)

\* #onEvent and the start of #dispatch, of a request that is verified and in time.
Deliver(k, r) ==
    /\ Free(k) /\ r \in Scene.requests /\ r.n \notin seen[r.by]
    /\ spent.sent[r.n] < Scene.copies
    /\ spent' = [spent EXCEPT !.sent[r.n] = @ + 1]
    /\ seen' = [seen EXCEPT ![r.by] = @ \cup {r.n}]
    /\ \/ r.do = "connect" /\ Connect(k, r.by, r.secret)
       \/ /\ r.do # "connect"
          /\ To(k, [Started(r.do, r.by, None) EXCEPT
                      !.at = IF r.by \in Connected /\ r.do # "ping" THEN "handler" ELSE "reply",
                      !.ok = r.do = "ping"])
          /\ UNCHANGED <<secrets, clients, generation, host, approvals, admissions>>
    /\ UNCHANGED history

\* acceptNostrConnect(), up to the handler; what it refuses throws to the host.
Scan(k, u) ==
    LET s == Live(u.secret)
        r == IF s[u.secret] = None THEN [s EXCEPT ![u.secret] = Fresh(u.relays, "nostrconnect", "never")] ELSE s
        b == Bound(r, u.secret, u.by)
    IN  /\ Free(k) /\ u \in Scene.scans /\ spent.scans < Scene.scanned
        /\ ~OverClientCeiling(u.by) /\ Bindable(s, u.secret, u.by)
        /\ s[u.secret] # None \/ Cardinality({x \in Secrets : s[x] # None}) < Scene.maxSecrets
        /\ Keep(b, clients)
        /\ BeginApproval(u.by)
        /\ Asks(k, Started("scan", u.by, u.secret), b, u.secret, u.relays)
        /\ history' = [history EXCEPT !.born = @ + (IF s[u.secret] = None THEN 1 ELSE 0)]
        /\ spent' = [spent EXCEPT !.scans = @ + 1]
        /\ UNCHANGED seen

\* The handler rejects or its time is up: nothing stays of the binding.  A scan's caller
\* gets the error, a connecting client is sent it.
Reject(k) ==
    /\ Awaiting(k) /\ EndApproval(k)
    /\ IF runs[k].do = "scan" THEN To(k, Over) ELSE Replies(k, FALSE)
    /\ EmitIf(HoldsRecord(k), IF HoldsRecord(k) THEN Unbound(secrets, runs[k].secret) ELSE secrets, clients)
    /\ UNCHANGED <<seen, history, spent>>

\* The user said yes, but the secret was revoked meanwhile or the places are taken.
Discard(k) ==
    /\ Awaiting(k) /\ EndApproval(k)
    /\ \/ runs[k].rec # 0 /\ ~HoldsRecord(k) /\ UNCHANGED <<secrets, clients, generation, host>>
       \/ /\ (runs[k].rec = 0 \/ HoldsRecord(k)) /\ ~RoomFor(runs[k].by)
          /\ EmitIf(HoldsRecord(k), IF HoldsRecord(k) THEN Unbound(secrets, runs[k].secret) ELSE secrets, clients)
    /\ IF runs[k].do = "scan" THEN To(k, Over) ELSE Replies(k, FALSE)
    /\ UNCHANGED <<seen, history, spent>>

\* The client is admitted, with the record confirmed; a scan's relays replace the record's.
Approve(k) ==
    LET c == runs[k].by
        x == runs[k].secret
    IN  /\ Awaiting(k) /\ (runs[k].rec = 0 \/ HoldsRecord(k)) /\ RoomFor(c)
        /\ EndApproval(k)
        /\ Keep(IF HoldsRecord(k) THEN Confirmed(secrets, x, IF runs[k].do = "scan" THEN runs[k].relays
                                                             ELSE secrets[x].relays)
                                  ELSE secrets,
                [clients EXCEPT ![c] = [secret |-> x, id |-> runs[k].rec, relays |-> runs[k].relays]])
        /\ Replies(k, TRUE)
        /\ history' = [history EXCEPT !.admitted = @ \cup {<<runs[k].rec, c>>}]
        /\ UNCHANGED <<seen, spent>>

\* The handler of another method answers; a client that left meanwhile is not.
Answer(k, ok) ==
    /\ runs[k].at = "handler" /\ ~Awaiting(k)
    /\ IF runs[k].was /\ runs[k].by \notin Connected THEN To(k, Over) ELSE Replies(k, ok)
    /\ UNCHANGED <<secrets, clients, seen, approvals, admissions, generation, host, history, spent>>

\* disconnectClient(): with the client goes its window.
Forget(s, c, g, told) == /\ Emit(s, [clients EXCEPT ![c] = None], g, told)
                         /\ seen' = [seen EXCEPT ![c] = {}]

\* The response is out; a client that logged out is then forgotten.
Sent(k) ==
    /\ runs[k].at = "reply" /\ To(k, Over)
    /\ IF runs[k].do = "logout" /\ runs[k].ok /\ runs[k].by \in Connected
       THEN Forget(secrets, runs[k].by, generation, host.generation)
       ELSE UNCHANGED <<secrets, clients, seen, generation, host>>
    /\ UNCHANGED <<approvals, admissions, history, spent>>

-----------------------------------------------------------------------------
(* The host.                                                               *)

\* createBunkerUri(), with a life to live or for ever.  What it refuses leaves its sweep.
Mint(x, R, lapse) ==
    LET s == Swept(secrets)
    IN  /\ spent.mints < Scene.mints /\ spent' = [spent EXCEPT !.mints = @ + 1]
        /\ \/ /\ s[x] # None
              /\ Keep([s EXCEPT ![x].relays = IF s[x].client = None THEN R ELSE @], clients)
              /\ UNCHANGED history
           \/ /\ s[x] = None /\ Cardinality({y \in Secrets : s[y] # None}) < Scene.maxSecrets
              /\ Keep([s EXCEPT ![x] = Fresh(R, "bunker", lapse)], clients)
              /\ history' = [history EXCEPT !.born = @ + 1]
        /\ UNCHANGED <<seen, runs, approvals, admissions>>

\* exportState() of its own, or the sweep of a refused mint.
Sweep ==
    /\ \E x \in Secrets : Lapsed(secrets[x])
    /\ Keep(secrets, clients)
    /\ UNCHANGED <<seen, runs, approvals, admissions, history, spent>>

Lapse(x) ==
    /\ secrets[x] # None /\ secrets[x].lapse = "later"
    /\ secrets' = [secrets EXCEPT ![x].lapse = "now"]
    /\ UNCHANGED <<clients, seen, runs, approvals, admissions, generation, host, history, spent>>

Kick(c) ==
    /\ c \in Connected /\ spent.kicks < Scene.kicks
    /\ Forget(secrets, c, generation, host.generation)
    /\ spent' = [spent EXCEPT !.kicks = @ + 1]
    /\ UNCHANGED <<runs, approvals, admissions, history>>

\* revokeSecret(): the record is gone, a client connected through it is disconnected, and
\* then the keychain is told.
Through(x) == {c \in Connected : c = secrets[x].client /\ clients[c].secret = x}
Revoke(x) ==
    /\ x \in Held /\ spent.revokes < Scene.revokes
    /\ Emit([secrets EXCEPT ![x] = None], [c \in Clients |-> IF c \in Through(x) THEN None ELSE clients[c]],
            generation + 1, generation + 1)
    /\ seen' = [c \in Clients |-> IF c \in Through(x) THEN {} ELSE seen[c]]
    /\ history' = [history EXCEPT !.revoked = @ \cup {secrets[x].id}]
    /\ spent' = [spent EXCEPT !.revokes = @ + 1]
    /\ UNCHANGED <<runs, approvals, admissions>>

Dead(k)    == IF runs[k].at = "idle" THEN IdleRun ELSE Over
NewProcess ==
    /\ secrets' = [x \in Secrets |-> None] /\ clients' = [c \in Clients |-> None]
    /\ seen' = [c \in Clients |-> {}] /\ runs' = [k \in Slots |-> Dead(k)]
    /\ approvals' = 0 /\ admissions' = [c \in Clients |-> 0]
    /\ generation' = host'.generation

\* The process dies, at any point or between the two writes a revocation asks for.
Crash ==
    /\ spent.crashes < Scene.crashes /\ UNCHANGED <<host, history>> /\ NewProcess
    /\ spent' = [spent EXCEPT !.crashes = @ + 1]
RevokeCutShort(x) ==
    /\ x \in Held /\ spent.revokes < Scene.revokes /\ spent.crashes < Scene.crashes
    /\ host' = [host EXCEPT !.saved =
                  Export(Swept([secrets EXCEPT ![x] = None]),
                         [c \in Clients |-> IF c \in Through(x) THEN None ELSE clients[c]], generation + 1)]
    /\ NewProcess /\ UNCHANGED history
    /\ spent' = [spent EXCEPT !.revokes = @ + 1, !.crashes = @ + 1]

\* A copy of the storage is made, to be put back one day.
Copy ==
    /\ Scene.copied /\ host.kept = None /\ host.saved # None
    /\ host' = [host EXCEPT !.kept = host.saved]
    /\ UNCHANGED <<memory, history, spent>>

-----------------------------------------------------------------------------
(* restore().                                                              *)

StateGeneration(st) == IF st.signed THEN st.generation ELSE 0

\* Lapsed records are dropped; the others become records without pending approvals.
Incoming(st) ==
    [x \in Secrets |->
        IF Lapsed(st.secrets[x]) THEN None
        ELSE IF st.secrets[x] # None /\ ~st.secrets[x].confirmed /\ st.secrets[x].lapse = "never"
             THEN [st.secrets[x] EXCEPT !.lapse = "later"]
        ELSE st.secrets[x]]
StateClients(st) == {c \in Clients : st.clients[c] # None}

\* #validateState: every client is backed by a confirmed secret of its own, on its relays.
Backed(st, c) ==
    LET x == st.clients[c].secret
        r == IF x = None THEN None ELSE Incoming(st)[x]
    IN  IF x = None THEN ~Scene.required
        ELSE r # None /\ r.client = c /\ r.confirmed /\ r.relays = st.clients[c].relays
Valid(st) ==
    /\ \A x \in Secrets : st.secrets[x] # None /\ st.secrets[x].confirmed => st.secrets[x].client # None
    /\ Cardinality({x \in Secrets : Incoming(st)[x] # None}) <= Scene.maxSecrets
    /\ Cardinality(StateClients(st)) <= Scene.maxClients
    /\ \A c \in StateClients(st) : Backed(st, c)

Restorable(st, g) == Valid(st) /\ StateGeneration(st) >= g

\* Memory keeps what it has bound or connected.
BoundHere(x) == secrets[x] # None /\ secrets[x].client # None
Merged(st)   == [x \in Secrets |-> IF BoundHere(x) \/ Incoming(st)[x] = None THEN secrets[x] ELSE Incoming(st)[x]]
Rejoined(st) == [c \in Clients |-> IF c \in Connected THEN clients[c] ELSE st.clients[c]]

Restore(st, old) ==
    /\ Scene.anytime \/ (Held \cup Connected = {} /\ \A k \in Slots : runs[k].at \in {"idle", "done"})
    /\ spent.restores < Scene.restores
    /\ Restorable(st, generation) /\ approvals = 0
    /\ \A x \in Secrets : BoundHere(x) /\ Incoming(st)[x] # None
                          => Incoming(st)[x].client \in {None, secrets[x].client}
    /\ Cardinality({x \in Secrets : Merged(st)[x] # None}) <= Scene.maxSecrets
    /\ Cardinality({c \in Clients : Rejoined(st)[c] # None}) <= Scene.maxClients
    /\ LET g == StateGeneration(st)
       IN  Emit(Merged(st), Rejoined(st), g, IF g > generation THEN g ELSE host.generation)
    /\ history' = [history EXCEPT !.rolled = @ \/ old,
                                  !.admitted = @ \cup {<<Rejoined(st)[c].id, c>> :
                                                        c \in {d \in Clients : Rejoined(st)[d] # None}}]
    /\ spent' = [spent EXCEPT !.restores = @ + 1]
    /\ UNCHANGED <<seen, runs, approvals, admissions>>

RestoreSaved == host.saved # None /\ Restore(host.saved, FALSE)
RestoreKept  == host.kept # None /\ Restore(host.kept, TRUE)

-----------------------------------------------------------------------------
(* Types, and the initial states.                                          *)

\* Of the memory, of what is persisted and of the executions.
SecretT == [id : Nat, relays : Relays, client : Clients \cup {None}, confirmed : BOOLEAN, pending : Nat,
            origin : {"bunker", "nostrconnect"}, lapse : {"later", "now", "never"}]
ClientT == [secret : Secrets \cup {None}, id : Nat, relays : Relays]
StateT  == [signed : BOOLEAN, generation : Nat, clients : [Clients -> ClientT \cup {None}],
            secrets : [Secrets -> SecretT \cup {None}]]
RunT    == [at : {"idle", "handler", "reply", "done"}, do : {"none", "connect", "scan", "work", "logout", "ping"},
            by : Clients \cup {None}, secret : Secrets \cup {None}, rec : Nat, relays : Relays \cup {None},
            was : BOOLEAN, slot : BOOLEAN, ok : BOOLEAN]
\* An unsigned state of an earlier release, with one client.
Legacy(c, x, R) ==
    [signed |-> FALSE, generation |-> 0,
     clients |-> [d \in Clients |-> IF d = c THEN [secret |-> x, id |-> 1, relays |-> R] ELSE None],
     secrets |-> [y \in Secrets |-> IF y # x THEN None ELSE
                    [id |-> 1, relays |-> R, client |-> c, confirmed |-> TRUE, pending |-> 0,
                     origin |-> "bunker", lapse |-> "never"]]]

RequestT == [n : Nat, by : Clients, do : {"connect", "work", "logout", "ping"}, secret : Secrets \cup {None}]
ScanT    == [by : Clients, secret : Secrets, relays : Relays]

\* There are finitely many keys and secrets to have; what a host finds in its storage is
\* nothing, or a state of an earlier release that is within its ceilings.
ASSUME BunkerAssumption ==
    /\ Slots \subseteq Nat /\ IsFiniteSet(Clients) /\ IsFiniteSet(Secrets)
    /\ None \notin Clients \cup Secrets \cup SecretT \cup ClientT \cup StateT
    /\ \A n \in DOMAIN Scenes :
         /\ Scenes[n].maxClients \in Nat /\ Scenes[n].maxSecrets \in Nat /\ Scenes[n].required \in BOOLEAN
         /\ Scenes[n].source \in Relays
         /\ Scenes[n].requests \subseteq RequestT /\ Scenes[n].scans \subseteq ScanT
         /\ \/ Scenes[n].found = None
            \/ /\ \E c \in Clients, x \in Secrets, R \in Relays : Scenes[n].found = Legacy(c, x, R)
               /\ Scenes[n].maxClients > 0 /\ Scenes[n].maxSecrets > 0

Init ==
    /\ \E n \in DOMAIN Scenes :
         /\ spent = [scene |-> Scenes[n], sent |-> [i \in {r.n : r \in Scenes[n].requests} |-> 0],
                     scans |-> 0, mints |-> 0, kicks |-> 0, revokes |-> 0, crashes |-> 0, restores |-> 0]
         /\ host = [generation |-> 0, saved |-> Scenes[n].found, kept |-> None]
         /\ history = [born |-> 1, revoked |-> {}, admitted |-> {}, rolled |-> FALSE]
    /\ secrets = [x \in Secrets |-> None] /\ clients = [c \in Clients |-> None]
    /\ seen = [c \in Clients |-> {}] /\ runs = [k \in Slots |-> IdleRun]
    /\ approvals = 0 /\ admissions = [c \in Clients |-> 0] /\ generation = 0

Next ==
    \/ \E k \in Slots : \/ \E r \in Scene.requests : Deliver(k, r)
                        \/ \E u \in Scene.scans : Scan(k, u)
    \/ \E k \in Slots : Reject(k) \/ Discard(k) \/ Approve(k) \/ Sent(k)
    \/ \E k \in Slots, ok \in BOOLEAN : Answer(k, ok)
    \/ \E x \in Secrets, R \in Relays, lapse \in {"later", "never"} : Mint(x, R, lapse)
    \/ \E x \in Secrets : Lapse(x) \/ Revoke(x) \/ RevokeCutShort(x)
    \/ \E c \in Clients : Kick(c)
    \/ Sweep \/ Crash \/ Copy \/ RestoreSaved \/ RestoreKept

Spec == Init /\ [][Next]_vars

-----------------------------------------------------------------------------
(* Properties.                                                             *)

\* The types.
TypeOK ==
    /\ secrets \in [Secrets -> SecretT \cup {None}]
    /\ clients \in [Clients -> ClientT \cup {None}]
    /\ seen \in [Clients -> SUBSET Nat]
    /\ runs \in [Slots -> RunT]
    /\ approvals \in Nat /\ admissions \in [Clients -> Nat] /\ generation \in Nat
    /\ host.generation \in Nat /\ {host.saved, host.kept} \subseteq StateT \cup {None}

\* What was revoked never connects a client again, be it minted anew during the approval
\* or put back from a copy of the storage (revokeSecret and restore of server.ts).
RevokedStaysOut == \A c \in Connected : clients[c].id \notin history.revoked

\* One mint of a secret admits one client, however many race for it and whatever the
\* restarts, unless the host puts back an old copy (#bind of server.ts, types.ts).
OneClientPerSecret ==
    ~history.rolled => \A p, q \in history.admitted : p[1] = q[1] /\ p[1] # 0 => p[2] = q[2]

\* The ceilings are hard, with admissions in flight, logouts, scans and restores; and every
\* count of pending approvals is the number of executions that await one: none leaks, so
\* secrets are freed, admissions end and restore() is accepted again.
PendingCounted ==
    /\ Cardinality(Connected) <= Scene.maxClients /\ Cardinality(Held) <= Scene.maxSecrets
    /\ TypeOK
    /\ approvals = Cardinality({k \in Slots : Awaiting(k)})
    /\ \A c \in Clients : admissions[c] = Cardinality({k \in Slots : Awaiting(k) /\ runs[k].by = c /\ runs[k].slot})
    /\ \A x \in Held : secrets[x].pending = Cardinality({k \in Slots : Awaiting(k) /\ runs[k].rec = secrets[x].id})
    /\ \A x \in Held : secrets[x].origin = "nostrconnect" /\ ~secrets[x].confirmed /\ secrets[x].lapse = "never"
                       => secrets[x].pending > 0

\* Whatever was handed out last to be persisted is accepted by the next process.
\* Stated for hosts that require a secret and restore into a process that has nothing yet.
ExportsRestore ==
    Scene.required /\ ~Scene.anytime /\ host.saved # None => Restorable(host.saved, host.generation)
=============================================================================
