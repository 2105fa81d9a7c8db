----------------------------- MODULE RemoteSigner -----------------------------
(***************************************************************************)
(* The NIP-46 client (sdk/src/signers/nip46): pairing by a bunker URI or   *)
(* by a QR code that may be cancelled or time out, the transport it owns   *)
(* apart from nostr-tools' signer, and the one request it repeats, the     *)
(* read of the public key.                                                 *)
(***************************************************************************)
EXTENDS Naturals, FiniteSets

CONSTANTS Sockets, Readers, MaxTries, Scenes, None

VARIABLES pair,    \* the pairing: [at, cancelled, timer, aborted], and what `ready` came to
          conn,    \* Nip46Connection: [disposed, signer]
          socket,  \* the owned pool's sockets
          read,    \* the shared read of the public key
          reader,  \* getPublicKey() callers
          spent
vars == <<pair, conn, socket, read, reader, spent>>

Scene == Scenes[spent.scene]
Owned == Scene.owned   \* no pool was passed in
NoRead == [at |-> "none", tries |-> 0, asked |-> 0]

-----------------------------------------------------------------------------
(* The transport (connection.ts).                                          *)

\* dispose(): the owned pool closes every socket it can; one still connecting may refuse until it
\* opens.  Then the signer, if one is attached.
Disposed(c) == [c EXCEPT !.disposed = TRUE, !.signer = IF @ = "open" THEN "closed" ELSE @]
SocketsAfter(stubborn) ==
    IF conn.disposed \/ ~Owned THEN socket
    ELSE [s \in Sockets |-> IF socket[s] = "connecting" /\ s \in stubborn THEN "connecting"
                            ELSE IF socket[s] \in {"connecting", "open"} THEN "closed" ELSE socket[s]]
Dispose(stubborn) == conn' = Disposed(conn) /\ socket' = SocketsAfter(stubborn)
\* attach(): a late signer is closed, and the pairing fails.
Attached(c) == IF c.disposed THEN [c EXCEPT !.signer = "closed"] ELSE [c EXCEPT !.signer = "open"]

\* A pool that was destroyed constructs no socket; one that opens after it is closed at once.
Dial(s) == /\ socket[s] = "none" /\ pair.at \in {"pairing", "paired"} /\ ~(Owned /\ conn.disposed)
           /\ socket' = [socket EXCEPT ![s] = "connecting"] /\ UNCHANGED <<pair, conn, read, reader, spent>>
\* Slip: what was connecting when the pool went is left to open.
OnOpenAnyway == "open"
OnOpen == IF Owned /\ conn.disposed THEN "closed" ELSE "open"
SocketOpens(s) == /\ socket[s] = "connecting" /\ socket' = [socket EXCEPT ![s] = OnOpen]
                  /\ UNCHANGED <<pair, conn, read, reader, spent>>
SocketDrops(s) == /\ socket[s] \in {"connecting", "open"} /\ spent.drops > 0
                  /\ socket' = [socket EXCEPT ![s] = "closed"] /\ spent' = [spent EXCEPT !.drops = @ - 1]
                  /\ UNCHANGED <<pair, conn, read, reader>>

-----------------------------------------------------------------------------
(* Pairing.                                                                *)

\* startNostrConnect() arms a timer and gives a cancel; fromBunkerUri() gives neither.
StartNostrConnect == /\ pair.at = "idle" /\ Scene.door = "qr" /\ pair' = [pair EXCEPT !.at = "pairing", !.timer = TRUE]
                     /\ UNCHANGED <<conn, socket, read, reader, spent>>
FromBunkerUri == /\ pair.at = "idle" /\ Scene.door = "uri" /\ pair' = [pair EXCEPT !.at = "pairing"]
                 /\ UNCHANGED <<conn, socket, read, reader, spent>>
\* The bunker answered the handshake, maybe after the pairing was given up.
HandshakeDone ==
    /\ pair.at \in {"pairing", "given up"} /\ conn' = Attached(conn) /\ UNCHANGED <<socket, read, reader, spent>>
    /\ pair' = IF ~conn.disposed THEN [pair EXCEPT !.at = "paired", !.timer = FALSE]
               ELSE [pair EXCEPT !.at = "failed", !.timer = FALSE, !.why = IF pair.cancelled THEN "cancelled" ELSE "timeout"]
HandshakeFails(stubborn) ==
    /\ pair.at \in {"pairing", "given up"} /\ Dispose(stubborn) /\ UNCHANGED <<read, reader, spent>>
    /\ pair' = [pair EXCEPT !.at = "failed", !.timer = FALSE,
                            !.why = IF pair.aborted THEN IF pair.cancelled THEN "cancelled" ELSE "timeout" ELSE "refused"]
PairTimeout(stubborn) ==
    /\ pair.timer /\ pair.at = "pairing" /\ Dispose(stubborn) /\ UNCHANGED <<read, reader, spent>>
    /\ pair' = [pair EXCEPT !.timer = FALSE, !.aborted = TRUE, !.at = "given up"]
Cancel(stubborn) ==
    /\ Scene.door = "qr" /\ pair.at \in {"pairing", "given up", "paired"} /\ ~pair.cancelled /\ Dispose(stubborn)
    /\ pair' = [pair EXCEPT !.cancelled = TRUE, !.timer = FALSE, !.aborted = TRUE,
                            !.at = IF @ = "pairing" THEN "given up" ELSE @]
    /\ IF pair.at = "paired"
       THEN /\ read' = IF read.at = "reading" THEN NoRead ELSE read
            /\ reader' = [r \in Readers |-> IF reader[r] = "waits" THEN "rejected" ELSE reader[r]]
            /\ spent' = [spent EXCEPT !.closed = TRUE]
       ELSE UNCHANGED <<read, reader, spent>>
\* close(): the lifetime ends, and a read that waits with it.
Close(stubborn) ==
    /\ pair.at = "paired" /\ ~spent.closed /\ Dispose(stubborn) /\ UNCHANGED pair
    /\ read' = (IF read.at = "reading" THEN NoRead ELSE read)
    /\ reader' = [r \in Readers |-> IF reader[r] = "waits" THEN "rejected" ELSE reader[r]]
    /\ spent' = [spent EXCEPT !.closed = TRUE]

-----------------------------------------------------------------------------
(* getPublicKey() and its retries (public-key.ts).                         *)

GetPublicKey(r) ==
    /\ pair.at = "paired" /\ reader[r] = "idle" /\ UNCHANGED <<pair, conn, socket, spent>>
    /\ \/ read.at = "known" /\ UNCHANGED read /\ reader' = [reader EXCEPT ![r] = "answered"]
       \/ read.at = "reading" /\ UNCHANGED read /\ reader' = [reader EXCEPT ![r] = "waits"]
       \/ read.at = "none" /\ spent.closed /\ UNCHANGED read /\ reader' = [reader EXCEPT ![r] = "rejected"]
       \/ /\ read.at = "none" /\ ~spent.closed
          /\ read' = [at |-> "reading", tries |-> 1, asked |-> 1] /\ reader' = [reader EXCEPT ![r] = "waits"]
Retry == /\ read.at = "reading" /\ read.tries < MaxTries /\ UNCHANGED <<pair, conn, socket, reader, spent>>
         /\ read' = [read EXCEPT !.tries = @ + 1, !.asked = @ + 1]
\* The first answer settles the read, whichever request it is to; an error, an answer that is no
\* key or the deadline fails it, and the next caller reads anew.
KeyComes == /\ read.at = "reading" /\ read.asked > 0 /\ read' = [read EXCEPT !.at = "known"]
            /\ reader' = [r \in Readers |-> IF reader[r] = "waits" THEN "answered" ELSE reader[r]]
            /\ UNCHANGED <<pair, conn, socket, spent>>
KeyFails == /\ read.at = "reading" /\ read' = NoRead
            /\ reader' = [r \in Readers |-> IF reader[r] = "waits" THEN "rejected" ELSE reader[r]]
            /\ UNCHANGED <<pair, conn, socket, spent>>
RequestLost == /\ read.at = "reading" /\ read.asked > 0 /\ read' = [read EXCEPT !.asked = @ - 1]
               /\ UNCHANGED <<pair, conn, socket, reader, spent>>

InitOf(n) ==
    /\ spent = [scene |-> n, drops |-> Scenes[n].drops, closed |-> FALSE]
    /\ pair = [at |-> "idle", cancelled |-> FALSE, timer |-> FALSE, aborted |-> FALSE, why |-> None]
    /\ conn = [disposed |-> FALSE, signer |-> "none"] /\ socket = [s \in Sockets |-> "none"]
    /\ read = NoRead /\ reader = [r \in Readers |-> "idle"]
Init == \E n \in DOMAIN Scenes : InitOf(n)
Next == \/ StartNostrConnect \/ FromBunkerUri \/ HandshakeDone \/ Retry \/ KeyComes \/ KeyFails \/ RequestLost
        \/ \E stubborn \in SUBSET Sockets :
             HandshakeFails(stubborn) \/ PairTimeout(stubborn) \/ Cancel(stubborn) \/ Close(stubborn)
        \/ \E s \in Sockets : Dial(s) \/ SocketOpens(s) \/ SocketDrops(s)
        \/ \E r \in Readers : GetPublicKey(r)
Spec == Init /\ [][Next]_vars

-----------------------------------------------------------------------------
(* Properties.                                                             *)

PairingTold ==
    /\ conn.disposed => conn.signer # "open"
    /\ conn.disposed <=> pair.cancelled \/ pair.aborted \/ spent.closed \/ pair.at = "failed"
    /\ pair.at = "paired" /\ ~conn.disposed => conn.signer = "open"
    /\ pair.why = "timeout" => ~pair.cancelled
    /\ pair.timer => pair.at = "pairing"
SocketsOwned == Owned /\ conn.disposed => \A s \in Sockets : socket[s] # "open"
ReadersServed ==
    /\ \A r \in Readers : reader[r] = "waits" => read.at = "reading"
    /\ read.tries <= MaxTries /\ (spent.closed => read.at # "reading")
\* connection.ts: a transport that was given up, by a failure, a cancellation, the timer or
\* close(), holds no socket open and no signer, however late they come; `ready` gives a signer
\* only over a live transport, says timed out only of a timer, and a waiting reader always has a
\* read that will answer it.
TransportOwned == PairingTold /\ SocketsOwned /\ ReadersServed

\* What keeps it: a pairing says why only when it failed.
TypeOK ==
    /\ pair \in [at : {"idle", "pairing", "given up", "paired", "failed"}, cancelled : BOOLEAN, timer : BOOLEAN,
                 aborted : BOOLEAN, why : {None, "cancelled", "timeout", "refused"}]
    /\ conn \in [disposed : BOOLEAN, signer : {"none", "open", "closed"}]
    /\ socket \in [Sockets -> {"none", "connecting", "open", "closed"}]
    /\ read \in [at : {"none", "reading", "known"}, tries : Nat, asked : Nat]
    /\ reader \in [Readers -> {"idle", "waits", "answered", "rejected"}]
    /\ spent \in [scene : DOMAIN Scenes, drops : Nat, closed : BOOLEAN]
    /\ pair.at # "failed" => pair.why = None
Inv == TypeOK /\ TransportOwned
=============================================================================
