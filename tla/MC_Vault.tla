------------------------------ MODULE MC_Vault ------------------------------
(* Small instances of Vault: what the store may hold when a run starts, and the    *)
(* scenes that are played over it.                                                  *)
EXTENDS Vault, TLC

CONSTANTS alice, bob

Old(accts, active, strong, cacheKey) ==
    [key  |-> [pw |-> "p", strong |-> strong],
     body |-> [accts    |-> [a \in Accounts |-> IF a \in accts THEN "orig" ELSE "absent"],
               active   |-> active,
               cacheKey |-> cacheKey]]

\* A vault of one account, nothing stored, or a vault of one or two accounts.
StoredModern == {Old({alice}, alice, TRUE, "orig")}
StoredAny    == StoredModern \cup {None}
StoredFull   == StoredModern \cup {Old({alice, bob}, alice, TRUE, "orig")}
\* Records of earlier releases: no cache key, and a lower work factor or not.
StoredLegacy == {Old({alice}, alice, FALSE, "absent"), Old({alice}, alice, TRUE, "absent")}

\* One account, one password, a stored vault, nothing going wrong.
Quiet == [ops |-> {}, accounts |-> {alice}, passwords |-> {"p"}, stored |-> StoredModern,
          callbacks |-> {}, locks |-> 0, clears |-> 0, faults |-> 0, restarts |-> 0]

\* Sessions that begin and end; mutations of the accounts over a store that fails; a
\* callback against them; and records of earlier releases, with wrong passwords.
MainScenes ==
    {[Quiet EXCEPT !.ops = {"create", "unlock", "reEncrypt", "destroy"},
        !.passwords = Passwords, !.stored = StoredAny, !.locks = 1, !.restarts = 1],
     [Quiet EXCEPT !.ops = {"add", "remove", "update", "setActive", "unlock"},
        !.accounts = Accounts, !.stored = StoredFull, !.locks = 1, !.clears = 1, !.faults = 1],
     [Quiet EXCEPT !.ops = {"add", "remove", "update", "destroy", "destroyIfEmpty", "unlock"},
        !.accounts = Accounts, !.stored = StoredFull, !.callbacks = Scopes, !.locks = 1],
     [Quiet EXCEPT !.ops = {"create", "add", "update", "unlock"},
        !.callbacks = Scopes, !.clears = 1, !.faults = 1],
     [Quiet EXCEPT !.ops = {"unlock", "change"}, !.passwords = Passwords,
        !.stored = StoredLegacy, !.locks = 1, !.clears = 1, !.faults = 2]}

ResealScene == {[Quiet EXCEPT !.ops = {"reEncrypt"}, !.clears = 1]}

SymCalls == Permutations(Calls)
=============================================================================
