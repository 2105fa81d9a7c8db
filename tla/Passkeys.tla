------------------------------- MODULE Passkeys -------------------------------
(***************************************************************************)
(* Logging in and backing up with a passkey (packages/identity, vault/):   *)
(* the handle of a credential says what it is for; its key is derived, or  *)
(* stored in its blob or on relays, sealed with one of its PRF outputs.    *)
(* Platforms drop outputs, relays are silent, old or broken, users refuse, *)
(* and the host's session may end meanwhile.                               *)
(***************************************************************************)
EXTENDS Naturals, FiniteSets

CONSTANTS Devices, Credentials, Authors, Relays, Default, LastTime, Scenes, None, Junk

VARIABLES now,
          blob,     \* credential -> what its blob holds, or None
          relays,   \* relay -> its events
          session,  \* device -> the host's session
          op,       \* device -> the call under way
          result,   \* device -> its last identity
          saved,    \* every save that was reported
          replaced, \* every blob a save has replaced
          spent
vars == <<now, blob, relays, session, op, result, saved, replaced, spent>>

Scene == Scenes[spent.scene]
Idle == [do |-> "none", at |-> "idle"]
Unanswered == [mode |-> "none"]
Same(d) == session[d] = op[d].session

-----------------------------------------------------------------------------
(* Handles and keys (passkey-modes.ts).                                    *)

\* Of a handle's bytes: its length, how many are of the tag, the byte that says the mode, and what it names.
ClassifyPasskeyHandle(h) ==
    IF h = None THEN [mode |-> "unknown"]
    ELSE IF h.tag = 4 /\ h.length = 22 /\ h.byte = 1 THEN [mode |-> "derived", set |-> h.names]
    ELSE IF h.tag = 4 /\ h.length = 37 /\ h.byte = 2 THEN [mode |-> "stored", author |-> h.names]
    ELSE IF h.length = 32 THEN [mode |-> "legacy", author |-> h.names]
    ELSE IF h.length = 33 /\ h.byte = 3 THEN [mode |-> "key-in-handle"]
    ELSE IF h.tag >= 3 THEN [mode |-> "unsupported"]
    ELSE [mode |-> "unknown"]
Kind(c) == ClassifyPasskeyHandle(Scene.handle[c])
DeriveNostrKey(c, s) == <<c, s>>

-----------------------------------------------------------------------------
(* Records and their events (passkey-store.ts, recovery.ts).  A record is  *)
(* sealed for a credential and an author; Junk is one nothing opens.     *)

WritablePayload(p) == IF p.type = "seed" THEN [p EXCEPT !.type = "vault"] ELSE p
HasAuthor(p, a) == a \in p.holds
SealStoredRecord(p, c, a) == [format |-> "npk1", type |-> p.type, holds |-> p.holds, at |-> p.at, cred |-> c, author |-> a]
EncryptRecoveryPayload(p, c, a) == [SealStoredRecord(p, c, a) EXCEPT !.format = "legacy"]
IsRecord(r, f) == r \notin {None, Junk} /\ r.format = f
OpenStoredRecord(r, c, a) ==
    IF ~IsRecord(r, "npk1") \/ r.cred # c \/ r.author # a THEN "unopened" ELSE IF ~HasAuthor(r, a) THEN "author" ELSE "ok"
DecryptRecoveryPayload(r, c, a) == IsRecord(r, "legacy") /\ r.cred = c /\ r.author = a
BuildEvent(r, t) == [format |-> r.format, author |-> r.author, cred |-> r.cred, type |-> r.type, created |-> t, rec |-> r, signed |-> TRUE]
ParseBlob(r) == r # Junk
\* A tagged event is a candidate whatever its record is; a legacy one only with content that decodes.
ValidateRecoveryEvent(e, c, a) == e.signed /\ e.format = "legacy" /\ e.cred = c /\ a \in {None, e.author} /\ ParseBlob(e.rec)
\* Slip: a tagged event whose record is broken is not even a candidate.
EligibleIfWhole(e, c, a) == e.signed /\ e.format = "npk1" /\ e.cred = c /\ a = e.author /\ ParseBlob(e.rec)
EligibleEvent(e, c, a) == e.signed /\ e.format = "npk1" /\ e.cred = c /\ a = e.author
Newest(S) == {e \in S : \A f \in S : (f.author = e.author /\ (f.type = e.type \/ f.format = "legacy")) => f.created <= e.created}
\* Of the events relays answered with: each author's newest, and every copy of a key.
QueryNewest(d, a, f) ==
    LET c == op[d].cred
        E == {e \in op[d].found : IF f = "npk1" THEN EligibleEvent(e, c, a) ELSE ValidateRecoveryEvent(e, c, a)}
    IN  Newest(E) \cup {e \in E : f = "npk1" /\ e.type = "key"}
Candidate(e, source) == [event |-> e, rec |-> e.rec, source |-> source]
FindStoredRecords(d, a) ==
    {[event |-> None, rec |-> op[d].blob, source |-> "passkey"] : x \in {y \in {1} : IsRecord(op[d].blob, "npk1")}}
    \cup {Candidate(e, "relays") : e \in QueryNewest(d, a, "npk1")}
\* The blob first, then vaults, then keys from the newest on, then seeds; a vault is preferred, by its own date.
Before(x, y) == IF x.source # y.source THEN x.source = "passkey"
                ELSE IF x.rec.type # y.rec.type THEN x.rec.type = "key" ELSE x.event.created >= y.event.created
OpenStoredRecords(S, c, a) ==
    LET opened == {x \in S : OpenStoredRecord(x.rec, c, a) = "ok" /\ (x.event # None => x.event.type = x.rec.type)}
        vaults == {x \in opened : x.rec.type = "vault"}
    IN  IF vaults # {} THEN {CHOOSE x \in vaults : \A y \in vaults : x.rec.at > y.rec.at \/ (x.rec.at = y.rec.at /\ (x.source = "passkey" \/ y.source = "relays"))}
        ELSE IF opened # {} THEN {CHOOSE x \in opened : \A y \in opened : Before(x, y)} ELSE {}

-----------------------------------------------------------------------------
(* Calls.                                                                  *)

Goes(d, o) == op' = [op EXCEPT ![d] = o]
Ends(d, r) == Goes(d, Idle) /\ result' = [result EXCEPT ![d] = r]
Error(why) == [mode |-> "error", why |-> why]
Still == UNCHANGED <<now, blob, relays, session, saved, replaced, spent>>
\* A provider's prompt fails or is cancelled, or assertSession throws.
Rejects(d) == Ends(d, Unanswered) /\ Still
Cancelled(d) == op[d].at \in {"followUp", "prompt", "inspect"} /\ Rejects(d)
FollowUp(d, needs, large) ==
    Goes(d, [op[d] EXCEPT !.at = "followUp", !.needs = needs, !.large = large, !.asked = @ \cup {op[d].at}]) /\ UNCHANGED result /\ Still
\* The outputs of the follow-up, as many as the platform returns, and the blob when it reads one.
FollowedUp(d, got) ==
    LET o == op[d] IN
    /\ o.at = "followUp" /\ got \subseteq o.needs /\ UNCHANGED result /\ Still
    /\ Goes(d, [o EXCEPT !.at = o.back, !.prf = @ \cup got,
                         !.blob = IF o.large /\ Scene.assert[d] /\ blob[o.cred] # None THEN blob[o.cred] ELSE @])

-----------------------------------------------------------------------------
(* resolvePasskeyIdentity (passkey-identity.ts).                           *)

Known == Scene.evaluated
Call(d, do, c) == [do |-> do, at |-> "routed", back |-> "routed", cred |-> c, session |-> session[d], prf |-> {}, dropped |-> FALSE,
                   blob |-> None, left |-> {}, found |-> {}, needs |-> {}, large |-> FALSE, asked |-> {}, author |-> None]
\* One assertion; the platform returns both outputs, one, or ignores the extensions.
Discover(d, c, got, dropped) ==
    /\ op[d].at = "idle" /\ spent.resolves[d] > 0 /\ got \subseteq {"stored", Known} /\ (dropped => got = {})
    /\ Goes(d, [Call(d, "resolve", c) EXCEPT !.prf = got, !.dropped = dropped, !.blob = IF dropped THEN None ELSE blob[c]])
    /\ result' = [result EXCEPT ![d] = Unanswered] /\ spent' = [spent EXCEPT !.resolves[d] = @ - 1]
    /\ UNCHANGED <<now, blob, relays, session, saved, replaced>>
Routed(d, mode) == op[d].do = "resolve" /\ op[d].at = "routed" /\ Kind(op[d].cred).mode = mode
Derives(d, s, how) == Ends(d, [mode |-> "derived", cred |-> op[d].cred, set |-> s, key |-> DeriveNostrKey(op[d].cred, s), how |-> how]) /\ Still
Refused(d) == (Routed(d, "unsupported") \/ Routed(d, "key-in-handle")) /\ Ends(d, Error("unsupported-handle")) /\ Still
ResolveDerived(d) ==
    LET s == Kind(op[d].cred).set IN
    /\ Routed(d, "derived")
    /\ IF s \notin {Known, Default} THEN Ends(d, Error("unsupported-handle")) /\ Still
       ELSE IF s \in op[d].prf THEN Derives(d, s, "handle")
       ELSE IF "routed" \notin op[d].asked THEN FollowUp(d, {s}, FALSE)
       ELSE Ends(d, Error("prf-unavailable")) /\ Still
\* The relays are asked, when there is something to look for.
Asks(d, a) == /\ Goes(d, [op[d] EXCEPT !.at = "query", !.back = "query", !.left = Scene.relays, !.found = {}, !.author = a])
              /\ UNCHANGED result /\ Still
ResolveStored(d) ==
    /\ Routed(d, "stored")
    /\ IF op[d].dropped /\ Scene.assert[d] /\ "routed" \notin op[d].asked THEN FollowUp(d, {"stored"}, TRUE) ELSE Asks(d, Kind(op[d].cred).author)
\* A legacy handle, or the blob it goes with: a whole vault, a recovery event, or nothing of use.
BlobEvent(d, a) == /\ IsRecord(op[d].blob, "legacy") /\ op[d].blob.cred = op[d].cred /\ a \in {None, op[d].blob.author}
ResolveLegacy(d) ==
    /\ Routed(d, "legacy")
    /\ IF op[d].dropped /\ Scene.assert[d] /\ "routed" \notin op[d].asked THEN FollowUp(d, {"legacy"}, TRUE)
       ELSE IF IsRecord(op[d].blob, "vault") THEN Ends(d, [mode |-> "vault", cred |-> op[d].cred, rec |-> op[d].blob]) /\ Still
       ELSE Asks(d, Kind(op[d].cred).author)
ResolveUnknown(d) ==
    /\ Routed(d, "unknown")
    /\ IF (op[d].dropped \/ ~({"stored", Known} \subseteq op[d].prf)) /\ "routed" \notin op[d].asked THEN FollowUp(d, {"stored", Known}, TRUE)
       ELSE IF op[d].blob # None /\ ~Scene.exclusive THEN Ends(d, Error("unreadable-record")) /\ Still
       ELSE IF Known \notin op[d].prf THEN Ends(d, Error("prf-unavailable")) /\ Still
       ELSE IF Scene.exclusive \/ DeriveNostrKey(op[d].cred, Known) \in Scene.known THEN Derives(d, Known, "evidence")
       ELSE Ends(d, [mode |-> "ambiguous", cred |-> op[d].cred, set |-> Known, key |-> DeriveNostrKey(op[d].cred, Known)]) /\ Still
\* derivePasskeyIdentity: the user confirmed; whatever credential answered must reproduce that key.
DerivePasskeyIdentity(d, c) ==
    /\ op[d].at = "idle" /\ result[d].mode = "ambiguous" /\ UNCHANGED op /\ Still
    /\ result' = [result EXCEPT ![d] = IF DeriveNostrKey(c, @.set) = @.key THEN [mode |-> "derived", cred |-> c, set |-> @.set, key |-> @.key, how |-> "confirmed"]
                                        ELSE Unanswered]

-----------------------------------------------------------------------------
(* Looking for the record, and opening it.                                 *)

Format(d) == IF op[d].do = "resolve" /\ Kind(op[d].cred).mode = "stored" THEN "npk1" ELSE "legacy"
RelayAnswers(d, r) ==
    /\ op[d].at = "query" /\ r \in op[d].left /\ UNCHANGED result /\ Still
    /\ Goes(d, [op[d] EXCEPT !.left = @ \ {r}, !.found = @ \cup {e \in relays[r] : op[d].author \in {None, e.author}}])
RelaySilent(d, r) == /\ op[d].at = "query" /\ r \in op[d].left /\ Goes(d, [op[d] EXCEPT !.left = @ \ {r}]) /\ UNCHANGED result /\ Still
Searched(d) == op[d].at = "query" /\ op[d].left = {}
Found(d, a) == IF Format(d) = "npk1" THEN FindStoredRecords(d, a)
               ELSE IF BlobEvent(d, a) THEN {[event |-> None, rec |-> op[d].blob, source |-> "passkey"]}
               ELSE {Candidate(e, "relays") : e \in QueryNewest(d, a, "legacy")}
Stored(d, x) == [mode |-> "stored", cred |-> op[d].cred, author |-> x.rec.author, rec |-> x.rec, event |-> x.event,
                 found |-> op[d].found, same |-> Same(d), do |-> op[d].do]
\* openTagged
OpenTagged(d) ==
    LET o == op[d]
        S == Found(d, o.author)
        best == OpenStoredRecords(S, o.cred, o.author)
    IN  /\ Searched(d) /\ Format(d) = "npk1"
        /\ IF S = {} THEN Ends(d, Error("missing-record")) /\ Still
           ELSE IF "stored" \notin o.prf /\ "query" \notin o.asked THEN FollowUp(d, {"stored"}, FALSE)
           ELSE IF "stored" \notin o.prf THEN Ends(d, Error("prf-unavailable")) /\ Still
           ELSE IF ~Same(d) THEN Rejects(d)
           ELSE IF best # {} THEN Ends(d, Stored(d, CHOOSE x \in best : TRUE)) /\ Still
           ELSE IF \E x \in S : OpenStoredRecord(x.rec, o.cred, o.author) = "author" THEN Ends(d, Error("author-mismatch")) /\ Still
           ELSE Ends(d, Error("undecryptable-record")) /\ Still
\* openLegacy and restoreRecovery's end.  Of a known author the newest event only, of unknown ones each newest.
LastOf(S, a) == IF a = None THEN S ELSE {x \in S : \A y \in S : x.event = None \/ y.event.created <= x.event.created}
OpenLegacy(d) ==
    LET o == op[d]
        S == Found(d, o.author)
        opened == {x \in LastOf(S, o.author) : DecryptRecoveryPayload(x.rec, o.cred, IF x.event = None THEN x.rec.author ELSE x.event.author)}
    IN  /\ Searched(d) /\ Format(d) = "legacy"
        /\ IF S = {} /\ o.do = "restore" /\ o.author # None THEN Asks(d, None)
           ELSE IF S = {} THEN Ends(d, Error("missing-record")) /\ Still
           ELSE IF "legacy" \notin o.prf /\ "query" \notin o.asked THEN FollowUp(d, {"legacy"}, FALSE)
           ELSE IF "legacy" \notin o.prf THEN Ends(d, Error("prf-unavailable")) /\ Still
           ELSE IF ~Same(d) THEN Rejects(d)
           ELSE IF opened = {} THEN Ends(d, Error("undecryptable-record")) /\ Still
           ELSE \E x \in opened : Ends(d, Stored(d, x)) /\ Still
\* restoreRecovery (recovery.ts): legacy records only; a blob must be one.
Restore(d, c) ==
    /\ op[d].at = "idle" /\ spent.resolves[d] > 0 /\ spent' = [spent EXCEPT !.resolves[d] = @ - 1]
    /\ UNCHANGED <<now, blob, relays, session, saved, replaced>>
    /\ LET k == Kind(c)
           a == IF k.mode = "legacy" THEN k.author ELSE None
           b == blob[c]
       IN IF k.mode \notin {"legacy", "unknown"} \/ (b # None /\ ~(IsRecord(b, "legacy") /\ b.cred = c /\ a \in {None, b.author}))
          THEN Ends(d, Error("refused"))
          ELSE /\ result' = [result EXCEPT ![d] = Unanswered]
               /\ Goes(d, [Call(d, "restore", c) EXCEPT !.at = "query", !.back = "query", !.author = a, !.blob = b,
                                                        !.left = IF b = None THEN Scene.relays ELSE {}])
\* The host opens the vault record a blob held: only for a credential it is wrapped for (passkey.ts).
UnwrapVaultKey(r, c) == c \in r.wrapped
OpenPasskeyRecord(d, c) ==
    /\ op[d].at = "idle" /\ result[d].mode = "vault" /\ UNCHANGED op /\ Still
    /\ result' = [result EXCEPT ![d] = IF UnwrapVaultKey(@.rec, c) THEN [mode |-> "opened", rec |-> @.rec, with |-> c] ELSE Unanswered]
\* A Nosskey backup, opened with a PRF output: the key must be the account's (nosskey.ts).
RecoverNosskeyAccount(d, c, n) ==
    LET key == IF n.wrapped = None THEN DeriveNostrKey(c, "nosskey") ELSE IF n.wrapped.cred = c THEN n.wrapped.key ELSE None
    IN  /\ op[d].at = "idle" /\ UNCHANGED op /\ Still
        /\ result' = [result EXCEPT ![d] = IF key = n.pubkey THEN [mode |-> "nosskey", account |-> n, with |-> c] ELSE Unanswered]

-----------------------------------------------------------------------------
(* saveStoredRecord (passkey-store.ts) and saveRecovery (recovery.ts).     *)

Save(d, c, r) ==
    /\ op[d].at = "idle" /\ spent.saves[d] > 0 /\ spent' = [spent EXCEPT !.saves[d] = @ - 1]
    /\ Scene.large[d] \/ Scene.allow
    /\ Goes(d, [do |-> "save", at |-> "prompt", cred |-> c, session |-> session[d], left |-> {}, acks |-> {}, seen |-> None, consent |-> FALSE,
                rec |-> r, event |-> None])
    /\ UNCHANGED <<now, blob, relays, session, result, saved, replaced>>
\* A wrong author is refused before anything is asked.
SaveStoredRecord(d, c, p) == /\ HasAuthor(p, Scene.author[c])
                             /\ Save(d, c, SealStoredRecord(WritablePayload(p), c, Scene.author[c]))
SaveRecovery(d, c, p) == Save(d, c, EncryptRecoveryPayload(p, c, Scene.author[c]))
Then(d, o) == Goes(d, o) /\ UNCHANGED result /\ Still
\* The PRF output came (or was handed in).  A legacy record is signed whatever it is for.
Sealed(d) ==
    /\ op[d].do = "save" /\ op[d].at = "prompt"
    /\ IF ~Same(d) THEN Rejects(d)
       ELSE IF ~Scene.large[d] \/ op[d].rec.format = "legacy" THEN Then(d, [op[d] EXCEPT !.at = "sign"])
       ELSE IF Scene.assert[d] THEN Then(d, [op[d] EXCEPT !.at = "inspect"]) ELSE Rejects(d)
\* The provider must positively say what is there; FALSE: it does not.
Inspected(d, told) ==
    /\ op[d].at = "inspect"
    /\ IF ~told \/ ~Same(d) THEN Rejects(d)
       ELSE Then(d, [op[d] EXCEPT !.at = IF blob[op[d].cred] = None THEN "write" ELSE "confirm", !.seen = blob[op[d].cred]])
ConfirmOverwrite(d, yes) ==
    /\ op[d].at = "confirm"
    /\ IF ~yes \/ ~Same(d) THEN Rejects(d) ELSE Then(d, [op[d] EXCEPT !.at = "write", !.consent = TRUE])
Reports(d, dest) == saved' = saved \cup {[by |-> d, rec |-> op[d].rec, dest |-> dest, same |-> Same(d), acks |-> op[d].acks, landed |-> op[d].at]}
\* The blob is written and confirmed, written without a word of it, or not written.
WriteBlob(d, wrote, confirmed) ==
    LET o == op[d] IN
    /\ o.at = "write" /\ (confirmed => wrote) /\ Ends(d, Unanswered)
    /\ blob' = IF wrote THEN [blob EXCEPT ![o.cred] = o.rec] ELSE blob
    /\ replaced' = IF wrote /\ blob[o.cred] # None THEN replaced \cup {[old |-> blob[o.cred], seen |-> o.seen, consent |-> o.consent, by |-> o.rec.format]} ELSE replaced
    /\ IF confirmed /\ Same(d) THEN Reports(d, "passkey") ELSE UNCHANGED saved
    /\ UNCHANGED <<now, relays, session, spent>>
\* signUnchanged, and the event checked.
Signed(d, unchanged) ==
    /\ op[d].at = "sign"
    /\ IF ~unchanged \/ ~Same(d) THEN Rejects(d)
       ELSE Then(d, [op[d] EXCEPT !.at = IF Scene.large[d] THEN "write" ELSE "publish", !.event = BuildEvent(op[d].rec, now), !.left = Scene.relays])
\* A relay keeps the newest event at a coordinate.
Held(S, e) == LET C == {f \in S : f.author = e.author /\ f.cred = e.cred /\ f.type = e.type /\ f.format = e.format}
              IN  IF \E f \in C : f.created > e.created THEN S ELSE (S \ C) \cup {e}
Publish(d, r, kept, ack) ==
    /\ op[d].at = "publish" /\ r \in op[d].left /\ (ack => kept) /\ (kept => Same(d))
    /\ Goes(d, [op[d] EXCEPT !.left = @ \ {r}, !.acks = IF ack THEN @ \cup {r} ELSE @])
    /\ relays' = IF kept THEN [relays EXCEPT ![r] = Held(@, op[d].event)] ELSE relays
    /\ UNCHANGED <<now, blob, session, result, saved, replaced, spent>>
PublishAll(d) ==
    /\ op[d].at = "publish" /\ op[d].left = {} /\ Ends(d, Unanswered)
    /\ IF Same(d) /\ op[d].acks # {} THEN Reports(d, "relays") ELSE UNCHANGED saved
    /\ UNCHANGED <<now, blob, relays, session, replaced, spent>>

-----------------------------------------------------------------------------
SessionMoves(d) == /\ spent.moves[d] > 0 /\ spent' = [spent EXCEPT !.moves[d] = @ - 1] /\ session' = [session EXCEPT ![d] = @ + 1]
                   /\ UNCHANGED <<now, blob, relays, op, result, saved, replaced>>
Tick == /\ now < LastTime /\ now' = now + 1 /\ UNCHANGED <<blob, relays, session, op, result, saved, replaced, spent>>

InitOf(n) ==
    /\ spent = [scene |-> n, resolves |-> Scenes[n].resolves, saves |-> Scenes[n].saves, moves |-> Scenes[n].moves]
    /\ now = Scenes[n].start /\ blob = Scenes[n].blob /\ relays = Scenes[n].events /\ session = [d \in Devices |-> 0]
    /\ op = [d \in Devices |-> Idle] /\ result = [d \in Devices |-> Unanswered] /\ saved = {} /\ replaced = {}
Init == \E n \in DOMAIN Scenes : InitOf(n)
Next == \/ Tick
        \/ \E d \in Devices :
             \/ Cancelled(d) \/ Refused(d) \/ ResolveDerived(d) \/ ResolveStored(d) \/ ResolveLegacy(d) \/ ResolveUnknown(d)
             \/ OpenTagged(d) \/ OpenLegacy(d) \/ Sealed(d) \/ PublishAll(d) \/ SessionMoves(d)
             \/ \E b \in BOOLEAN : Inspected(d, b) \/ ConfirmOverwrite(d, b) \/ Signed(d, b) \/ \E k \in BOOLEAN : WriteBlob(d, b, k)
             \/ \E got \in SUBSET {"stored", "legacy", Known, Default} : FollowedUp(d, got)
             \/ \E r \in Relays : RelayAnswers(d, r) \/ RelaySilent(d, r) \/ \E b, k \in BOOLEAN : Publish(d, r, b, k)
             \/ \E c \in Credentials : \/ Restore(d, c) \/ DerivePasskeyIdentity(d, c) \/ OpenPasskeyRecord(d, c)
                                       \/ \E got \in SUBSET {"stored", Known}, b \in BOOLEAN : Discover(d, c, got, b)
                                       \/ \E p \in Scene.payloads : SaveStoredRecord(d, c, p) \/ SaveRecovery(d, c, p)
                                       \/ \E n \in Scene.accounts : RecoverNosskeyAccount(d, c, n)
Spec == Init /\ [][Next]_vars

-----------------------------------------------------------------------------
(* Properties.                                                             *)

\* An identity is the one the handle names: derived only for a handle that says so or with evidence,
\* stored only for its author, from its own credential, in the session that asked, and never from a
\* vault older than one some relay answered with, even when that one is broken.  Of legacy records
\* the newest counts whose content decodes, although it may not open: one whose content does not is
\* skipped (recovery.ts:108, 223), while recovery.ts:320-321 says that "a newer snapshot that fails never
\* silently rolls back to an older one".
ByTheHandle(r) ==
    LET k == Kind(r.cred) IN
    /\ r.mode = "derived" => \/ k.mode = "derived" /\ k.set = r.set
                             \/ k.mode = "unknown" /\ (Scene.exclusive \/ r.key \in Scene.known \/ r.how = "confirmed")
    /\ r.mode = "stored" =>
         /\ r.same /\ r.rec.cred = r.cred
         /\ k.mode \in (IF r.do = "resolve" THEN {"stored", "legacy"} ELSE {"legacy", "unknown"})
         /\ (r.do = "resolve" => r.author = k.author) /\ (r.rec.format = "npk1" => r.author \in r.rec.holds)
         /\ (r.event # None /\ (r.rec.type # "key" \/ r.rec.format = "legacy")) =>
              \A e \in r.found : /\ e.signed /\ e.format = r.rec.format /\ e.cred = r.cred /\ e.author = r.author
                                 /\ IF e.format = "legacy" THEN ParseBlob(e.rec) ELSE e.type = r.rec.type
                                 => e.created <= r.event.created
\* A save is reported only if it landed in the session that asked for it; a blob the inspection
\* showed is replaced with consent only.
SavedIsKept ==
    /\ \A s \in saved : s.same /\ (s.dest = "relays" => s.acks # {})
    /\ \A x \in replaced : (x.by = "npk1" /\ x.old = x.seen) => x.consent
PasskeysHonest ==
    /\ \A d \in Devices : /\ result[d].mode \in {"derived", "stored"} => ByTheHandle(result[d])
                          /\ result[d].mode = "opened" => result[d].with \in result[d].rec.wrapped
                          /\ (result[d].mode = "nosskey" /\ result[d].account.wrapped # None) => result[d].with = result[d].account.wrapped.cred
    /\ SavedIsKept
=============================================================================
