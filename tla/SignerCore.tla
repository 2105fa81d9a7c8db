----------------------------- MODULE SignerCore -----------------------------
(***************************************************************************)
(* The signing pipeline of packages/identity/src/signing/core.ts over its  *)
(* queue.  Every request of every transport runs the same steps: account,  *)
(* permission, prompt, unlock, key.  Between any two of its awaits the     *)
(* user may lock, switch, edit a permission, revoke the caller or close    *)
(* the prompt, and other requests run.                                     *)
(*                                                                         *)
(* One step is the code between two awaits; a port's answer is read in the *)
(* step that resumes on it.  The vault, the permission and grant stores    *)
(* and the identity are ports: the vault here is locked or not and counts  *)
(* its sessions, a store holds one decision per caller, account and rule.  *)
(***************************************************************************)
EXTENDS ApprovalQueue, Sequences

CONSTANTS
    Requests,       \* the requests of a behaviour, each made once
    BatchItems,     \* what a batch is made of: a sequence of "sign" and "attest"
    Remote,         \* accounts whose key is on a remote signer
    ReadOnly,       \* accounts with no key
    RememberFor,    \* callers whose login consent may be stored
    Scenes,         \* what a behaviour may do; it keeps to one of them
    None            \* the code's null

AllMethods == {"getPublicKey", "getRelays", "sign", "attest", "login", "self", "batch"}
Rules      == {"pubkey", "relays", "note", "attestation", "auth"}
Decisions  == {"ask", "allow", "deny"}

\* How many requests are made, for what and under which ids; who may be active; what the
\* two stores say at first; and the bounds on the user, the host and the ports.
Scene == [requests : Nat, methods : SUBSET AllMethods, ids : SUBSET Ids,
          accounts : SUBSET Accounts, rules : SUBSET Decisions, grants : SUBSET Decisions,
          switches : Nat, locks : Nat, revokes : Nat, edits : Nat, faults : Nat,
          dispose : BOOLEAN]

ASSUME SignerAssumption ==
    /\ Scenes \subseteq Scene
    /\ BatchItems \in Seq({"sign", "attest"}) /\ BatchItems # <<>>
    /\ Remote \cup ReadOnly \subseteq Accounts /\ RememberFor \subseteq Origins
    /\ None \notin Accounts

VARIABLES
    active,         \* identity port: the active account, None when there is none
    told,           \* switches the host has not reported yet: <<previous id>> or <<>>
    locked, epoch,  \* vault port: locked or not, and how often it has been locked
    rules,          \* permissions port: per caller, account and rule
    grants,         \* grant store: per caller and account, "ask" for nothing stored
    cooldown,       \* #cooldowns: the account the auto-approve was earned for
    serial,         \* #revocationSerial
    revoked,        \* #revocations: the serial of a caller's latest one
    call,           \* what each request is and how far it got
    shared,         \* history: the accounts the user has shown to a caller
    spent           \* the scene that is played, and how much of each of its bounds is used

scene == spent.scene
host  == <<active, told, locked, epoch>>
trust == <<rules, grants, cooldown, serial, revoked>>
vars  == <<queueVars, host, trust, call, shared, spent>>

NoCall == [m |-> "none", o |-> None, i |-> None, acct |-> None, pc |-> "idle", out |-> "none",
           todo |-> {}, asked |-> {}, keep |-> "none", consent |-> "none", since |-> 0,
           round |-> 1, epoch |-> 0, results |-> <<>>,
           \* history: what the user answered, what held when the key was used, and what
           \* the request wrote to the grant store
           said |-> FALSE, at |-> 0, cut |-> FALSE, stored |-> "ask", away |-> FALSE,
           wrote |-> "ask"]

Items(k)  == IF k.m = "batch" THEN BatchItems ELSE <<k.m>>
RuleOf(m) == CASE m = "getPublicKey" -> "pubkey" [] m = "getRelays" -> "relays"
               [] m = "sign" -> "note" [] m = "attest" -> "attestation"
               [] m \in {"login", "self"} -> "auth"
IsLogin(k)  == k.m \in {"login", "self"}
NeedsKey(k) == k.m \notin {"getPublicKey", "getRelays"}
Attests(k)  == \E n \in DOMAIN Items(k) : Items(k)[n] = "attest"
Next1(k)    == Items(k)[Len(k.results) + 1]

Pending(k, kind) == [origin |-> k.o, id |-> k.i, kind |-> kind, acct |-> k.acct]
KindAt == [prompt |-> "approval", unlockEarly |-> "unlock", unlock |-> "unlock",
           remote |-> "remote"]
Waiting(k) == k.pc \in DOMAIN KindAt
EntryOf(k) == Pending(k, KindAt[k.pc])

----------------------------------------------------------------------------
(* How a request moves: on, out, or into the queue.                        *)

Put(r, k) == call' = [call EXCEPT ![r] = k]
Go(r, k)  == Put(r, k) /\ UNCHANGED queueVars

\* Every outcome goes through #record before the caller has it.
Out(k, code)    == [k EXCEPT !.pc = "record", !.out = code]
Refuse(r, code) == Go(r, Out(call[r], code))

\* Slip: the caps are looked at by the caller's badge and no longer by track().
EnterUncapped(r, k, pc) ==
    LET e == Pending(k, KindAt[pc])
    IN  IF ~disposed /\ Key(e) \notin {Key(f) : f \in queue}
        THEN queue' = queue \cup {e} /\ Put(r, [k EXCEPT !.pc = pc]) /\ UNCHANGED disposed
        ELSE Go(r, Out(k, Refusal(e)))

\* A pending entry, for as long as the work takes; or a refusal up front.
Enter(r, k, pc) ==
    LET e == Pending(k, KindAt[pc])
    IN  IF Admits(e) THEN Track(e) /\ Put(r, [k EXCEPT !.pc = pc])
        ELSE Go(r, Out(k, Refusal(e)))

\* The work of an entry has settled: the entry is gone and the request resumes.
Resume(r, k) == Settle({EntryOf(call[r])}) /\ Put(r, k)

StillActive(k) == active = k.acct

----------------------------------------------------------------------------
(* Steps 4 and 5: unlock, execute.  What runs on without an await.         *)

\* #openVault, late: an attestation has had its own before the prompt.
ToUnlock(r, k) == IF NeedsKey(k) /\ k.m # "attest" /\ locked THEN Enter(r, k, "unlock")
                  ELSE Go(r, [k EXCEPT !.pc = "still"])

\* One item of a batch is done: the next one waits for the gap between them.
ItemDone(k, result) ==
    LET j == [k EXCEPT !.results = Append(@, result)]
    IN  IF Len(j.results) = Len(BatchItems) THEN Out(j, "ok") ELSE [j EXCEPT !.pc = "gap"]

\* #signLocally: refused by a locked vault, else the key is in the backend's hands.
SignLocally(k) ==
    IF ~locked THEN [k EXCEPT !.pc = "sign", !.epoch = epoch]
    ELSE IF k.m = "batch" THEN ItemDone(k, "vault_locked") ELSE Out(k, "vault_locked")

\* #executeFor.
Execute(r, k) ==
    IF ~NeedsKey(k) THEN Go(r, [k EXCEPT !.pc = "answered"])
    ELSE IF k.acct \in Remote THEN Enter(r, k, "remote")
    ELSE Go(r, SignLocally(k))

\* #revalidateAuthentication, entered for the first or the second time.
Revalidate(k, n) == IF disposed THEN Out(k, "shutdown")
                    ELSE [k EXCEPT !.pc = "rule", !.round = n]

----------------------------------------------------------------------------
(* Step 3: ask.                                                            *)

\* Whether this request asks: a login unless its consent is given, any other on an
\* unset rule; a remote signer prompts for itself, a cooldown answers for the key.
NeedsPrompt(k) ==
    CASE IsLogin(k) -> k.consent = "none"
      [] k.asked = {} \/ k.m = "getRelays" -> FALSE
      [] k.m = "getPublicKey" -> cooldown[k.o] # k.acct
      [] OTHER -> k.m = "batch" \/ k.acct \notin Remote

\* A cooldown of another account is dropped when it is looked at.
Ask(r, k) ==
    /\ IF NeedsPrompt(k) THEN Enter(r, k, "prompt") ELSE ToUnlock(r, k)
    /\ cooldown' = IF NeedsPrompt(k) /\ k.m = "getPublicKey" /\ k.asked # {}
                   THEN [cooldown EXCEPT ![k.o] = None] ELSE cooldown

----------------------------------------------------------------------------
(* The pipeline, await by await.                                           *)

Request(r) ==
    /\ call[r].pc = "idle"
    /\ Cardinality({q \in Requests : call[q].pc # "idle"}) < scene.requests
    /\ \E m \in scene.methods, o \in Origins, i \in scene.ids :
         LET k == [NoCall EXCEPT !.m = m, !.o = o, !.i = i, !.since = serial]
         IN  Go(r, IF disposed THEN [k EXCEPT !.pc = "done", !.out = "shutdown"]
                   ELSE [k EXCEPT !.pc = "account"])
    /\ UNCHANGED <<trust, shared>>

\* 1. The active account, locked or not.
Account(r) ==
    /\ call[r].pc = "account"
    /\ IF active = None THEN Refuse(r, "no_account")
       ELSE Go(r, [call[r] EXCEPT !.acct = active, !.pc = "check",
                                  !.todo = {RuleOf(Items(call[r])[n]) : n \in DOMAIN Items(call[r])}])
    /\ UNCHANGED <<trust, shared>>

\* What the account cannot do at all, asked after the permission.
Unable(k) == \/ k.acct \in Remote /\ (k.m = "batch" \/ k.m = "attest")
             \/ k.acct \in ReadOnly /\ NeedsKey(k)

\* Where a request that is permitted or may ask goes: a login to the grant store, an
\* attestation to the vault, since its event has to exist before it can be shown.
Permitted(r, k) ==
    IF Unable(k) THEN Go(r, Out(k, "unsupported")) /\ UNCHANGED cooldown
    ELSE IF IsLogin(k) THEN Go(r, [k EXCEPT !.pc = "stored"]) /\ UNCHANGED cooldown
    ELSE IF Attests(k)
    THEN /\ IF locked THEN Enter(r, k, "unlockEarly") ELSE Go(r, [k EXCEPT !.pc = "stillEarly"])
         /\ UNCHANGED cooldown
    ELSE Ask(r, k)

\* 2. Permissions, one read per rule.  A deny is the end.
Check(r) ==
    /\ call[r].pc = "check"
    /\ \E rule \in call[r].todo :
         LET d == rules[<<call[r].o, call[r].acct, rule>>]
             k == [call[r] EXCEPT !.todo = @ \ {rule},
                                  !.asked = IF d = "ask" THEN @ \cup {rule} ELSE @]
         IN  IF d = "deny" THEN Refuse(r, "permission_denied") /\ UNCHANGED cooldown
             ELSE IF k.todo # {} THEN Go(r, k) /\ UNCHANGED cooldown
             ELSE Permitted(r, k)
    /\ UNCHANGED <<rules, grants, serial, revoked, shared>>

\* What the user has said about this destination before.
Stored(r) ==
    /\ call[r].pc = "stored"
    /\ LET g == grants[<<call[r].o, call[r].acct>>]
           k == [call[r] EXCEPT !.consent = IF call[r].m = "self" THEN "self"
                     ELSE IF g = "allow" /\ call[r].o \in RememberFor THEN "grant" ELSE "none"]
       IN  IF g = "deny" THEN Refuse(r, "permission_denied") /\ UNCHANGED cooldown
           ELSE Ask(r, k)
    /\ UNCHANGED <<rules, grants, serial, revoked, shared>>

\* The attestation's own unlock, and the event built before the prompt.
StillEarly(r) ==
    /\ call[r].pc = "stillEarly"
    /\ IF ~StillActive(call[r]) THEN Refuse(r, "account_switched")
       ELSE IF locked THEN Refuse(r, "vault_locked")
       ELSE Go(r, [call[r] EXCEPT !.pc = "build", !.epoch = epoch])
    /\ UNCHANGED <<trust, shared>>

\* Slip: the event is built where the others have been asked about already.
BuildUnasked(r) ==
    /\ call[r].pc = "build"
    /\ IF call[r].epoch # epoch THEN Refuse(r, "vault_locked") ELSE ToUnlock(r, call[r])
    /\ UNCHANGED <<trust, shared>>

Build(r) ==
    /\ call[r].pc = "build"
    /\ IF call[r].epoch # epoch THEN Refuse(r, "vault_locked") /\ UNCHANGED cooldown
       ELSE Ask(r, call[r])
    /\ UNCHANGED <<rules, grants, serial, revoked, shared>>

\* The user answers the prompt.
Offered(k) == {"once"} \cup (IF k.o \in RememberFor THEN {"site"} ELSE {})

Outcome(k, allow, remember, scope) ==
    CASE ~allow /\ ~remember -> Out(k, "rejected")
      [] ~allow /\ remember /\ IsLogin(k) -> [k EXCEPT !.pc = "denyCheck"]
      [] ~allow /\ remember /\ ~IsLogin(k) -> [k EXCEPT !.pc = "save", !.keep = "deny"]
      [] allow /\ IsLogin(k) /\ scope \notin Offered(k) -> Out(k, "rejected")
      [] OTHER -> [k EXCEPT !.pc = "approved", !.keep = "allow", !.consent = scope,
                            !.said = TRUE, !.at = serial]

Answer(r) ==
    /\ call[r].pc = "prompt"
    /\ \E allow \in BOOLEAN, remember \in BOOLEAN, scope \in {"none", "once", "site"},
          kept \in {{}, call[r].asked} :
         /\ scope = "none" \/ (IsLogin(call[r]) /\ allow)
         /\ kept = (IF remember THEN call[r].asked ELSE {})
         /\ Resume(r, Outcome([call[r] EXCEPT !.todo = kept], allow, remember, scope))
    /\ UNCHANGED <<trust, shared>>

\* Slip: the cooldown remembers who asked and not who was shown.
GrantCooldownToCaller(k) ==
    IF k.m = "getPublicKey" THEN [cooldown EXCEPT ![k.o] = k.o] ELSE cooldown

GrantCooldown(k) == IF k.m = "getPublicKey" THEN [cooldown EXCEPT ![k.o] = k.acct] ELSE cooldown

\* The prompt's answer counts only for the account it showed; a login's allow is never
\* stored as a rule, since a rule names no destination.
Approved(r) ==
    /\ call[r].pc = "approved"
    /\ IF ~StillActive(call[r]) THEN Refuse(r, "account_switched") /\ UNCHANGED <<cooldown, shared>>
       ELSE /\ shared' = IF call[r].m = "getPublicKey"
                         THEN shared \cup {<<call[r].o, call[r].acct>>} ELSE shared
            /\ IF call[r].todo # {} /\ ~IsLogin(call[r])
               THEN Go(r, [call[r] EXCEPT !.pc = "save"]) /\ UNCHANGED cooldown
               ELSE ToUnlock(r, call[r]) /\ cooldown' = GrantCooldown(call[r])
    /\ UNCHANGED <<rules, grants, serial, revoked>>

\* #remember and #rememberAll: each rule that was asked about, one write at a time.
Save(r) ==
    /\ call[r].pc = "save"
    /\ \E rule \in call[r].todo :
         LET k == [call[r] EXCEPT !.todo = @ \ {rule}]
         IN  /\ rules' = [rules EXCEPT ![<<k.o, k.acct, rule>>] = k.keep]
             /\ IF k.todo # {} THEN Go(r, k) /\ UNCHANGED cooldown
                ELSE IF k.keep = "deny" THEN Go(r, Out(k, "rejected")) /\ UNCHANGED cooldown
                ELSE ToUnlock(r, k) /\ cooldown' = GrantCooldown(k)
    /\ UNCHANGED <<grants, serial, revoked, shared>>

\* The port says it unlocked; the vault is the authority on whether it did.
Unlocked(r) ==
    /\ call[r].pc \in {"unlock", "unlockEarly"}
    /\ Resume(r, IF locked THEN Out(call[r], "vault_locked")
                 ELSE [call[r] EXCEPT !.pc = IF @ = "unlock" THEN "still" ELSE "stillEarly"])
    /\ UNCHANGED <<trust, shared>>

\* The account once more, then the key: at once, or for a login after revalidation.
Still(r) ==
    /\ call[r].pc = "still"
    /\ LET k == [call[r] EXCEPT !.since = IF call[r].m = "batch" THEN serial ELSE @]
       IN  IF ~StillActive(k) THEN Refuse(r, "account_switched")
           ELSE IF IsLogin(k) THEN Go(r, Revalidate(k, 1))
           ELSE Execute(r, k)
    /\ UNCHANGED <<trust, shared>>

----------------------------------------------------------------------------
(* #revalidateAuthentication: read again before the key is used and after. *)

RecheckRule(r) ==
    /\ call[r].pc = "rule"
    /\ IF rules[<<call[r].o, call[r].acct, "auth">>] = "deny" THEN Refuse(r, "permission_denied")
       ELSE Go(r, [call[r] EXCEPT !.pc = "wanted"])
    /\ UNCHANGED <<trust, shared>>

\* Slip: a revoked caller is rejected from the queue only.
RecheckWantedUnrevoked(r) ==
    /\ call[r].pc = "wanted"
    /\ IF ~StillActive(call[r]) THEN Refuse(r, "account_switched")
       ELSE IF disposed THEN Refuse(r, "shutdown")
       ELSE IF locked THEN Refuse(r, "vault_locked")
       ELSE Go(r, [call[r] EXCEPT !.pc = "regrant"])
    /\ UNCHANGED <<trust, shared>>

RecheckWanted(r) ==
    /\ call[r].pc = "wanted"
    /\ IF ~StillActive(call[r]) THEN Refuse(r, "account_switched")
       ELSE IF revoked[call[r].o] > call[r].since THEN Refuse(r, "rejected")
       ELSE IF disposed THEN Refuse(r, "shutdown")
       ELSE IF locked THEN Refuse(r, "vault_locked")
       ELSE Go(r, [call[r] EXCEPT !.pc = "regrant"])
    /\ UNCHANGED <<trust, shared>>

RecheckGrant(r) ==
    /\ call[r].pc = "regrant"
    /\ LET k == call[r]
           g == grants[<<k.o, k.acct>>]
       IN  IF g = "deny" \/ (k.consent = "grant" /\ g # "allow") THEN Refuse(r, "permission_denied")
           ELSE IF k.round = 2 THEN Go(r, Out(k, "ok"))
           ELSE IF k.consent = "site" THEN Go(r, [k EXCEPT !.pc = "grantCheck"])
           ELSE Execute(r, k)
    /\ UNCHANGED <<trust, shared>>

\* The grant store's lock: one writer between its read and its write.
GrantsFree == \A r \in Requests : call[r].pc \notin {"grantWrite", "denyWrite"}

\* Slip: the refusals are read before the lock is taken.
SaveGrantCheckUnlocked(r) ==
    /\ call[r].pc \in {"grantCheck", "denyCheck"}
    /\ LET k == call[r]
       IN  IF ~StillActive(k) THEN Refuse(r, "account_switched")
           ELSE IF k.pc = "denyCheck" THEN Go(r, [k EXCEPT !.pc = "denyWrite"])
           ELSE IF grants[<<k.o, k.acct>>] = "deny" THEN Refuse(r, "permission_denied")
           ELSE Go(r, [k EXCEPT !.pc = "grantWrite"])
    /\ UNCHANGED <<trust, shared>>

SaveGrantCheck(r) ==
    /\ call[r].pc \in {"grantCheck", "denyCheck"} /\ GrantsFree
    /\ LET k == call[r]
       IN  IF ~StillActive(k) THEN Refuse(r, "account_switched")
           ELSE IF k.pc = "denyCheck" THEN Go(r, [k EXCEPT !.pc = "denyWrite"])
           ELSE IF grants[<<k.o, k.acct>>] = "deny" THEN Refuse(r, "permission_denied")
           ELSE Go(r, [k EXCEPT !.pc = "grantWrite"])
    /\ UNCHANGED <<trust, shared>>

SaveGrant(r) ==
    /\ call[r].pc \in {"grantWrite", "denyWrite"}
    /\ LET k == [call[r] EXCEPT !.wrote = IF call[r].pc = "grantWrite" THEN "allow" ELSE "deny"]
       IN  /\ grants' = [grants EXCEPT ![<<k.o, k.acct>>] = k.wrote]
           /\ IF call[r].pc = "grantWrite" THEN Execute(r, k) ELSE Go(r, Out(k, "rejected"))
    /\ UNCHANGED <<rules, cooldown, serial, revoked, shared>>

----------------------------------------------------------------------------
(* The key is used, and what follows.                                      *)

\* What held when the key was used; the histories of the properties.
Used(k) == [k EXCEPT !.cut = revoked[k.o] > k.since, !.stored = grants[<<k.o, k.acct>>],
                     !.away = ~StillActive(k)]

\* The backend is done.  A session that moved meanwhile voids the result.
Sign(r) ==
    /\ call[r].pc = "sign"
    /\ LET result == IF call[r].epoch = epoch THEN "ok" ELSE "vault_locked"
           k == Used(call[r])
       IN  Go(r, IF k.m = "batch" THEN ItemDone(k, result)
                 ELSE IF result = "ok" THEN [k EXCEPT !.pc = "answered"] ELSE Out(k, result))
    /\ UNCHANGED <<trust, shared>>

\* The remote signer answered.
RemoteAnswer(r) == /\ call[r].pc = "remote"
                   /\ Resume(r, [Used(call[r]) EXCEPT !.pc = "answered"])
                   /\ UNCHANGED <<trust, shared>>

\* Between two items: is this still wanted?  A stop refuses the rest by its name.
Gap(r) ==
    /\ call[r].pc = "gap"
    /\ LET k == call[r]
           stop == IF ~StillActive(k) THEN "account_switched"
                   ELSE IF revoked[k.o] > k.since THEN "rejected" ELSE "none"
           rest == [n \in 1..(Len(BatchItems) - Len(k.results)) |-> stop]
       IN  Go(r, IF stop = "none" THEN [k EXCEPT !.pc = "yield"]
                 ELSE Out([k EXCEPT !.results = @ \o rest], "ok"))
    /\ UNCHANGED <<trust, shared>>

\* yieldToHost: the host has had its turn, and the next item is signed.
Yield(r) == /\ call[r].pc = "yield"
            /\ Go(r, SignLocally(call[r]))
            /\ UNCHANGED <<trust, shared>>

\* Slip: what was computed is handed over without another look.
AnsweredAtOnce(r) ==
    /\ call[r].pc = "answered"
    /\ Go(r, IF IsLogin(call[r]) THEN Revalidate(call[r], 2) ELSE Out(call[r], "ok"))
    /\ UNCHANGED <<trust, shared>>

\* The account once more, and for a login everything once more.
Answered(r) ==
    /\ call[r].pc = "answered"
    /\ IF ~StillActive(call[r]) THEN Refuse(r, "account_switched")
       ELSE Go(r, IF IsLogin(call[r]) THEN Revalidate(call[r], 2) ELSE Out(call[r], "ok"))
    /\ UNCHANGED <<trust, shared>>

\* #record, whose failure is swallowed: the caller has its answer.
Record(r) == /\ call[r].pc = "record"
             /\ LET k == call[r]
                IN  Go(r, [NoCall EXCEPT !.m = k.m, !.o = k.o, !.acct = k.acct, !.pc = "done",
                             !.out = k.out, !.asked = k.asked, !.keep = k.keep,
                             !.consent = k.consent, !.results = k.results, !.said = k.said,
                             !.cut = k.cut, !.stored = k.stored, !.away = k.away,
                             !.wrote = k.wrote])
             /\ UNCHANGED <<trust, shared>>

----------------------------------------------------------------------------
(* What the user, the host, the timers and the ports do.                   *)

Spend(what) == spent[what] < scene[what] /\ spent' = [spent EXCEPT ![what] = @ + 1]

\* Slip: every entry is dropped, but only the prompts among them are rejected.
FailPrompts(gone, code) ==
    /\ Settle(gone)
    /\ call' = [r \in Requests |-> IF call[r].pc = "prompt" /\ EntryOf(call[r]) \in gone
                                   THEN Out(call[r], code) ELSE call[r]]

\* #rejectWhere: each entry's request is rejected with the code.
Fail(gone, code) ==
    /\ Settle(gone)
    /\ call' = [r \in Requests |-> IF Waiting(call[r]) /\ EntryOf(call[r]) \in gone
                                   THEN Out(call[r], code) ELSE call[r]]

\* A port throws where its answer is awaited.
PortFails(r) ==
    /\ call[r].pc \notin {"idle", "record", "done", "yield"}
    /\ Spend("faults")
    /\ IF Waiting(call[r]) THEN Resume(r, Out(call[r], "failed"))
       ELSE Go(r, IF call[r].pc = "sign" /\ call[r].m = "batch"
                  THEN ItemDone(call[r], "failed") ELSE Out(call[r], "failed"))
    /\ UNCHANGED <<host, trust, shared>>

\* Slip: the timer is armed for prompts only.
TimeoutOfPrompts(r) == /\ call[r].pc = "prompt"
                       /\ Fail({EntryOf(call[r])}, "timeout")
                       /\ UNCHANGED <<host, trust, shared, spent>>

\* An entry's timer.
Timeout(r) == /\ Waiting(call[r])
              /\ Fail({EntryOf(call[r])}, "timeout")
              /\ UNCHANGED <<host, trust, shared, spent>>

\* cancel(): the user closes a prompt, by caller and id.
Cancel(o, i) == /\ Matching(o, i) # {}
                /\ Fail(Matching(o, i), "rejected")
                /\ UNCHANGED <<host, trust, shared, spent>>

\* The user moves to another account, or to none; the host reports it afterwards.
Switch == /\ told = <<>>
          /\ Spend("switches")
          /\ active' \in (scene.accounts \cup {None}) \ {active}
          /\ told' = <<active>>
          /\ UNCHANGED <<queueVars, locked, epoch, trust, call, shared>>

\* onActiveAccountChanged().
Tell == /\ told # <<>>
        /\ cooldown' = [o \in Origins |-> None]
        /\ Fail(IF told[1] = None THEN {} ELSE OnAccount(told[1]), "account_switched")
        /\ told' = <<>>
        /\ UNCHANGED <<active, locked, epoch, rules, grants, serial, revoked, shared, spent>>

Lock == /\ ~locked
        /\ Spend("locks")
        /\ locked' = TRUE /\ epoch' = epoch + 1
        /\ UNCHANGED <<queueVars, active, told, trust, call, shared>>

Unlock == /\ locked /\ locked' = FALSE
          /\ UNCHANGED <<queueVars, active, told, epoch, trust, call, shared, spent>>

\* revokeOrigin(): the cooldown, what is queued, and the serial a batch looks at.
Revoke(o) == /\ Spend("revokes")
             /\ cooldown' = [cooldown EXCEPT ![o] = None]
             /\ serial' = serial + 1 /\ revoked' = [revoked EXCEPT ![o] = serial + 1]
             /\ Fail(Of(o), "rejected")
             /\ UNCHANGED <<host, rules, grants, shared>>

\* clearCooldown(), or the minute is over.
CooldownEnds(o) == /\ cooldown[o] # None
                   /\ cooldown' = [cooldown EXCEPT ![o] = None]
                   /\ UNCHANGED <<queueVars, host, rules, grants, serial, revoked, call, shared,
                                  spent>>

\* The user edits a permission or a stored login decision in the settings.
Edit == /\ Spend("edits")
        /\ \E o \in Origins, a \in scene.accounts, d \in Decisions :
             \/ /\ \E m \in scene.methods : \E n \in DOMAIN Items([NoCall EXCEPT !.m = m]) :
                     LET rule == RuleOf(Items([NoCall EXCEPT !.m = m])[n])
                     IN  d # rules[<<o, a, rule>>] /\ rules' = [rules EXCEPT ![<<o, a, rule>>] = d]
                /\ UNCHANGED grants
             \/ /\ scene.methods \cap {"login", "self"} # {} /\ GrantsFree /\ d # grants[<<o, a>>]
                /\ grants' = [grants EXCEPT ![<<o, a>>] = d] /\ UNCHANGED rules
        /\ UNCHANGED <<queueVars, host, cooldown, serial, revoked, call, shared>>

\* dispose().
DisposeSigner ==
    /\ scene.dispose /\ ~disposed /\ Dispose
    /\ cooldown' = [o \in Origins |-> None] /\ revoked' = [o \in Origins |-> 0]
    /\ call' = [r \in Requests |-> IF Waiting(call[r]) THEN Out(call[r], "shutdown") ELSE call[r]]
    /\ UNCHANGED <<host, rules, grants, serial, shared, spent>>

----------------------------------------------------------------------------
Init ==
    /\ QueueInit
    /\ told = <<>> /\ locked \in BOOLEAN /\ epoch = 0
    /\ \E s \in Scenes :
         /\ active \in s.accounts
         /\ \E d \in s.rules : rules = [x \in Origins \X Accounts \X Rules |-> d]
         /\ \E d \in s.grants : grants = [x \in Origins \X Accounts |-> d]
         /\ spent = [scene |-> s, switches |-> 0, locks |-> 0, revokes |-> 0, edits |-> 0,
                     faults |-> 0]
    /\ cooldown = [o \in Origins |-> None]
    /\ serial = 0 /\ revoked = [o \in Origins |-> 0]
    /\ call = [r \in Requests |-> NoCall]
    /\ shared = {}

\* The steps a request takes by itself.
Step(r) == \/ Account(r) \/ Check(r) \/ Stored(r) \/ StillEarly(r) \/ Build(r) \/ Approved(r)
           \/ Save(r) \/ Still(r) \/ RecheckRule(r) \/ RecheckWanted(r) \/ RecheckGrant(r)
           \/ SaveGrantCheck(r) \/ SaveGrant(r) \/ Sign(r) \/ Gap(r) \/ Yield(r)
           \/ Answered(r) \/ Record(r)

\* The steps that need somebody's answer.
Reply(r) == Answer(r) \/ Unlocked(r) \/ RemoteAnswer(r)

Next == \/ \E r \in Requests : /\ Request(r) \/ Step(r) \/ Reply(r)
                               /\ UNCHANGED <<host, spent>>
        \/ \E r \in Requests : PortFails(r) \/ Timeout(r)
        \/ \E o \in Origins : Revoke(o) \/ CooldownEnds(o) \/ \E i \in Ids : Cancel(o, i)
        \/ Switch \/ Tell \/ Lock \/ Unlock \/ Edit \/ DisposeSigner

Spec == Init /\ [][Next]_vars

\* Promises resume and timers fire; nobody has to answer anything.
Resumes(r) == Step(r) /\ UNCHANGED <<host, spent>>
FairSpec == Spec /\ \A r \in Requests : WF_vars(Resumes(r)) /\ WF_vars(Timeout(r))
----------------------------------------------------------------------------
Pcs == {"idle", "account", "check", "stored", "stillEarly", "build", "approved", "save", "still",
        "rule", "wanted", "regrant", "grantCheck", "grantWrite", "denyCheck", "denyWrite", "sign",
        "gap", "yield", "answered", "record", "done"} \cup DOMAIN KindAt

\* Outcomes: the codes of a SignerError, "failed" for whatever a port threw.
Codes == {"none", "ok", "shutdown", "no_account", "permission_denied", "unsupported", "rejected",
          "account_switched", "vault_locked", "invalid_request", "too_many_pending", "timeout",
          "failed"}

CallType ==
    [m : AllMethods \cup {"none"}, o : Origins \cup {None}, i : Ids \cup {None},
     acct : Accounts \cup {None}, pc : Pcs, out : Codes, todo : SUBSET Rules,
     asked : SUBSET Rules, keep : {"none", "allow", "deny"},
     consent : {"none", "once", "site", "grant", "self"}, since : Nat, round : {1, 2},
     epoch : Nat, results : Seq(Codes), said : BOOLEAN, at : Nat, cut : BOOLEAN,
     stored : Decisions, away : BOOLEAN, wrote : Decisions]

SpentType == [scene : Scenes, switches : Nat, locks : Nat, revokes : Nat, edits : Nat, faults : Nat]

\* Every variable holds what the code keeps there.
TypeOK ==
    /\ QueueTypeOK
    /\ active \in Accounts \cup {None} /\ told \in {<<>>} \cup {<<a>> : a \in Accounts \cup {None}}
    /\ locked \in BOOLEAN /\ epoch \in Nat /\ serial \in Nat
    /\ rules \in [Origins \X Accounts \X Rules -> Decisions]
    /\ grants \in [Origins \X Accounts -> Decisions]
    /\ cooldown \in [Origins -> Accounts \cup {None}]
    /\ revoked \in [Origins -> Nat]
    /\ call \in [Requests -> CallType]
    /\ shared \subseteq Origins \X Accounts
    /\ spent \in SpentType

\* queue.ts: the pending map is exactly the requests that wait, one entry each.  No entry
\* outlives its request, to count against a caller's cap; no request waits without an
\* entry, where neither a timer nor a revocation would find it.
WaitersQueued ==
    /\ queue = {EntryOf(call[r]) : r \in {q \in Requests : Waiting(call[q])}}
    /\ \A r, q \in {p \in Requests : Waiting(call[p])} :
         Key(EntryOf(call[r])) = Key(EntryOf(call[q])) => r = q

\* A caller is answered for the account the user means.  One that has to ask is told an
\* account's public key only if the user has shown that account to that caller, whatever
\* cooldown another account earned it (#needsPrompt); and a single request whose account the
\* user had left when its key was used is not answered, unless the user has come back to it
\* (assertStillActive after execute).
AccountIsMeant ==
    \A r \in Requests : call[r].out = "ok" =>
        /\ call[r].m = "getPublicKey" /\ call[r].asked # {} => <<call[r].o, call[r].acct>> \in shared
        /\ call[r].away /\ call[r].m # "batch" => spent.switches > 1

\* Another request of the same caller, which the user was asked about and said "never" to.
ForbiddenSince(r, rule) ==
    \E q \in Requests \ {r} : /\ call[q].o = call[r].o /\ call[q].acct = call[r].acct
                             /\ rule \in call[q].asked /\ call[q].keep = "deny"

\* The user's key: while nobody edits the rules, a local key is used only for a request
\* the user was asked about and said yes to, or whose every rule had been allowed; and still
\* is, unless the user has said "never" to another request of the same caller meanwhile.
KeyUsedWithConsent ==
    \A r \in Requests :
        LET k == call[r]
        IN  /\ k.m \in {"sign", "attest", "batch"} /\ k.acct \notin Remote /\ spent.edits = 0
            /\ k.pc = "sign" \/ k.results # <<>> \/ k.out = "ok"
            => \/ k.said
               \/ \A n \in DOMAIN Items(k) :
                    LET rule == RuleOf(Items(k)[n])
                    IN  rules[<<k.o, k.acct, rule>>] = "allow" \/ ForbiddenSince(r, rule)

Stops == {"account_switched", "rejected"}

\* Another login of the same caller to the same account, which wrote its answer down.
Rewritten(r, d) ==
    \E q \in Requests \ {r} : /\ call[q].o = call[r].o /\ call[q].acct = call[r].acct
                             /\ call[q].wrote = d

\* What the grant store said has been changed and changed back: by two edits, or by an edit
\* and another login's answer.
ChangedBack(r, answers) ==
    \/ spent.edits > 1
    \/ spent.edits = 1 /\ \E d \in answers : Rewritten(r, d)

\* What was cut off stays cut off.  A login whose caller was revoked before its signature
\* existed is not handed back, and one is answered only if what the user had stored still
\* allowed it when it was signed: no refusal stood, and the consent it rode on had not been
\* revoked, unless that has been changed back since (revalidateAuthentication after
\* execute).  And a switch or a revocation seen between two items ends a batch: nothing is
\* computed for it after, and every later item carries the same refusal (#runBatch).
CutOffIsFinal ==
    \A r \in Requests :
        /\ IsLogin(call[r]) /\ call[r].out = "ok" =>
             /\ ~call[r].cut
             /\ call[r].stored = "deny" => ChangedBack(r, {"deny"})
             /\ call[r].consent = "grant" /\ call[r].stored # "allow"
                  => ChangedBack(r, {"allow", "deny"})
        /\ \A n \in DOMAIN call[r].results :
             call[r].results[n] \in Stops =>
                 /\ call[r].pc \in {"record", "done"}
                 /\ \A j \in DOMAIN call[r].results : j > n => call[r].results[j] = call[r].results[n]

\* grants.save reads the refusals inside its lock: a login approved while another one of the
\* same caller was refused for good does not overwrite that refusal.  Only the user does.
RefusalStands ==
    [][\A o \in Origins, a \in Accounts :
         grants[<<o, a>>] = "deny" /\ spent'.edits = spent.edits => grants'[<<o, a>>] = "deny"]_vars

\* Every request that entered the pipeline is answered, by somebody or by its timer.
Entered(r)  == call[r].pc = "account"
Returned(r) == call[r].pc = "done"
EveryRequestSettles == \A r \in Requests : Entered(r) ~> Returned(r)

----------------------------------------------------------------------------
(* What the comments of core.ts say, and the code does not always do.      *)

Earns(r, o) == /\ call[r].pc \in {"approved", "save"} /\ call[r].o = o
               /\ call'[r].pc # call[r].pc /\ call[r].at >= revoked[o]

\* revokeOrigin(): the cooldown that assumes a caller is welcome is undone, so one that
\* is in force was earned by an approval given since (core.ts:458).
CooldownEarnedSinceRevocation ==
    [][\A o \in Origins : cooldown[o] = None /\ cooldown'[o] # None
                            => \E r \in Requests : Earns(r, o)]_vars
=============================================================================
