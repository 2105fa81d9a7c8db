----------------------------- MODULE MC_Bunker ------------------------------
\* Instances of Bunker: which requests, scans and host calls a scene has.
EXTENDS Bunker

CONSTANTS c1, c2, s1, s2, here, there

Req(n, c, do, x) == [n |-> n, by |-> c, do |-> do, secret |-> x]
By(c, x, R)      == [by |-> c, secret |-> x, relays |-> R]
Quiet == [requests |-> {}, scans |-> {}, scanned |-> 0, copies |-> 1, mints |-> 0, kicks |-> 0,
          revokes |-> 0, crashes |-> 0, restores |-> 0, copied |-> FALSE, required |-> TRUE,
          anytime |-> FALSE, maxClients |-> 1, maxSecrets |-> 1, source |-> here, found |-> None]

\* Two clients race for one secret, with retries, redelivery and a logout.
Race == [Quiet EXCEPT !.requests = {Req(1, c1, "connect", s1), Req(2, c2, "connect", s1),
                                    Req(3, c1, "connect", s1), Req(4, c1, "logout", None)},
                      !.copies = 2, !.mints = 1, !.revokes = 1, !.maxClients = 2]
\* A scan and a connection, with revocation and minting anew in between.
Again == [Quiet EXCEPT !.requests = {Req(1, c1, "connect", s1), Req(2, c2, "work", None)},
                       !.scans = {By(c2, s1, there), By(c2, s2, there)}, !.scanned = 1, !.mints = 2,
                       !.revokes = 1, !.kicks = 1]
\* A place is left and taken while its owner connects anew.
Places == [Quiet EXCEPT !.requests = {Req(1, c1, "connect", s1), Req(2, c1, "connect", s1),
                                      Req(3, c2, "connect", s2), Req(4, c1, "ping", None)},
                        !.mints = 2, !.kicks = 1, !.maxSecrets = 2]
\* Death, restoration, and copies of the storage put back.
Rollback == [Quiet EXCEPT !.requests = {Req(1, c1, "connect", s1), Req(2, c2, "connect", s1)},
                          !.copies = 1, !.mints = 2, !.revokes = 1, !.crashes = 2, !.restores = 2,
                          !.copied = TRUE, !.anytime = TRUE]
\* The same for hosts that restore once, with a scan.
Restart == [Quiet EXCEPT !.requests = {Req(1, c1, "connect", s1)}, !.copies = 2,
                         !.scans = {By(c2, s2, there)}, !.scanned = 2, !.mints = 1, !.revokes = 1,
                         !.crashes = 1, !.restores = 1]
\* An upgrade from a release that did not sign its state.
Upgrade == [Quiet EXCEPT !.requests = {Req(1, c2, "connect", s1), Req(2, c1, "logout", None)},
                         !.mints = 1, !.revokes = 1, !.crashes = 1, !.restores = 2, !.copied = TRUE,
                         !.found = Legacy(c1, s1, here)]
\* No secret is required: a stranger, and one with a secret nobody minted.
Open == [Quiet EXCEPT !.requests = {Req(1, c1, "connect", None), Req(2, c2, "connect", s1)},
                      !.required = FALSE, !.mints = 1, !.kicks = 1]

MainScenes == <<Race, Again, Places, Rollback, Restart, Upgrade, Open>>

Three == 1..3
=============================================================================
