--------------------------- MODULE MC_SignerCore ---------------------------
(* Small instances of SignerCore: what a batch holds, and the scenes that are played. *)
EXTENDS SignerCore, TLC

CONSTANTS alice, bob,
          remy, rita    \* remy's key is on a remote signer, rita has none

NoteProofNote == <<"sign", "attest", "sign">>

\* Two requests of an account in an unlocked or locked vault, nothing stored, nothing done.
Quiet == [requests |-> 2, methods |-> {}, ids |-> {1}, accounts |-> {alice, bob},
          rules |-> {"ask"}, grants |-> {"ask"}, switches |-> 0, locks |-> 0, revokes |-> 0,
          edits |-> 0, faults |-> 0, dispose |-> FALSE]

\* Who is told which key, at once and over a switch that comes back; a batch against everything
\* that may stop it; every kind of account, of entry and of end of an entry; one login against
\* everything that may take its consent away; two of one caller, cut off or edited; and three
\* requests of one caller, whose answers change what the others read.
PipelineScenes ==
    {[Quiet EXCEPT !.methods = {"getPublicKey", "sign"}, !.ids = Ids, !.switches = 1],
     [Quiet EXCEPT !.methods = {"getPublicKey", "sign"}, !.switches = 2],
     [Quiet EXCEPT !.requests = 1, !.methods = {"batch"},
        !.switches = 2, !.locks = 1, !.revokes = 1, !.faults = 1],
     [Quiet EXCEPT !.methods = {"getRelays", "sign", "attest"},
        !.accounts = {alice, remy, rita}, !.switches = 1, !.locks = 1, !.dispose = TRUE],
     [Quiet EXCEPT !.requests = 1, !.methods = {"login", "self"},
        !.grants = {"ask", "allow"}, !.switches = 1, !.locks = 1, !.revokes = 1, !.edits = 1],
     [Quiet EXCEPT !.methods = {"login"}, !.accounts = {alice}, !.grants = {"ask", "allow"},
        !.switches = 1, !.revokes = 1],
     [Quiet EXCEPT !.methods = {"login"}, !.accounts = {alice}, !.grants = {"ask", "allow"},
        !.edits = 1],
     [Quiet EXCEPT !.requests = 3, !.methods = {"sign"}, !.accounts = {alice}, !.ids = Ids]}

CooldownScene == {[Quiet EXCEPT !.methods = {"getPublicKey"}, !.revokes = 1]}

SymRequests == Permutations(Requests)
=============================================================================
