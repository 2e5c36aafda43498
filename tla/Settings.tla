------------------------------ MODULE Settings ------------------------------
(***************************************************************************)
(* The settings a client may change (settings/usecase/service.go) and the  *)
(* resolver every call reads its configuration from                        *)
(* (infra/config/resolver.go): the environment first, then the settings    *)
(* table, then the default.  Secrets are sealed in the table under         *)
(* SETTINGS_KEY.  A process may die between any two steps and come back    *)
(* with another environment, another SETTINGS_KEY or a release whose       *)
(* configuration accepts other values.                                     *)
(***************************************************************************)
EXTENDS Naturals, FiniteSets, Sequences

CONSTANTS Keys,         \* the catalogue: the settings a client may change
          Secrets,      \* the ones of kind secret
          Values,       \* every value a setting may be given
          Shaped,       \* [Keys -> SUBSET Values]: what Normalize lets through
          Releases,     \* releases of the server
          Accepts,      \* [Releases -> [Keys -> SUBSET Values]]: what Build accepts
          Environments, \* [Keys -> Values \cup {Unset}]: what the host may set
          SealKeys,     \* values of SETTINGS_KEY
          NoSeal,       \* SETTINGS_KEY not set; the seal of a plain row
          Unset,        \* no value: the default applies
          MaxUpdates,   \* bound: successful updates
          MaxBoots      \* bound: starts of the process

ASSUME SettingsAssumption ==
    /\ Secrets \subseteq Keys
    /\ Unset \notin Values
    /\ NoSeal \notin SealKeys
    /\ Environments \subseteq [Keys -> Values \cup {Unset}]

VARIABLES table,    \* the settings table: a row per key, or NoRow
          up,       \* the process runs
          host,     \* [env, seal, release]: what the running process was started with
          plain,    \* Service.plain: stored values, secrets opened
          broken,   \* Service.broken: keys whose stored value is not used
          current,  \* Resolver.current
          boot,     \* Resolver.boot, after Settle
          saved,    \* an update between its commit and Apply, or None
          updates,  \* updates committed so far
          boots     \* starts so far

settingsVars == <<table, up, host, plain, broken, current, boot, saved, updates, boots>>

NoRow == [value |-> Unset, seal |-> NoSeal]
None == [changes |-> {}, next |-> [k \in Keys |-> Unset]]
Defaults == [k \in Keys |-> Unset]

\* Resolver.layered: what each key resolves to, Unset for the default.
Layered(env, stored) ==
    [k \in Keys |-> IF env[k] # Unset THEN env[k] ELSE stored[k]]

\* Resolver.Candidate: Build accepts the layered values.
Candidate(h, stored) ==
    \A k \in Keys : Layered(h.env, stored)[k] \in Accepts[h.release][k] \cup {Unset}

\* Whether Cipher.Open returns the row's value under the seal key given.
Opens(k, seal) ==
    /\ table[k] # NoRow
    /\ table[k].seal = NoSeal \/ (seal # NoSeal /\ table[k].seal = seal)

\* The rows Load can read, as stored values.
Readable(seal) == [k \in Keys |-> IF Opens(k, seal) THEN table[k].value ELSE Unset]

\* Load's second pass: the keys one at a time, keeping what builds.  Build
\* looks at each key by itself, so the order they are tried in is not told.
Fits(h, read) ==
    [k \in Keys |-> IF Layered(h.env, read)[k] \in Accepts[h.release][k] \cup {Unset}
                    THEN read[k] ELSE Unset]

\* Service.merge for saving: no key the environment sets, only values in
\* shape, no secret without SETTINGS_KEY.
Mergeable(changes) ==
    \A k \in DOMAIN changes :
        /\ host.env[k] = Unset
        /\ changes[k] # Unset => /\ changes[k] \in Shaped[k]
                                 /\ k \in Secrets => host.seal # NoSeal

Merged(changes) ==
    [k \in Keys |-> IF k \in DOMAIN changes THEN changes[k] ELSE plain[k]]

\* Repository.Save: upserts and deletes in one transaction.
Rows(changes) ==
    [k \in Keys |->
        IF k \notin DOMAIN changes THEN table[k]
        ELSE IF changes[k] = Unset THEN NoRow
        ELSE [value |-> changes[k], seal |-> IF k \in Secrets THEN host.seal ELSE NoSeal]]

----------------------------------------------------------------------------

SettingsInit ==
    /\ table = [k \in Keys |-> NoRow]
    /\ up = FALSE
    /\ host = [env |-> Defaults, seal |-> NoSeal, release |-> Unset]
    /\ plain = Defaults /\ current = Defaults /\ boot = Defaults
    /\ broken = {}
    /\ saved = None
    /\ updates = 0 /\ boots = 0

\* Load fails only with the environment: the process then never serves.
Boot(h) ==
    LET read == Readable(h.seal)
        keep == IF Candidate(h, read) THEN read ELSE Fits(h, read)
    IN  /\ ~up /\ boots < MaxBoots
        /\ Candidate(h, Defaults)
        /\ up' = TRUE /\ host' = h /\ boots' = boots + 1
        /\ plain' = keep
        /\ broken' = {k \in Keys : table[k] # NoRow /\ keep[k] = Unset}
        /\ current' = Layered(h.env, keep) /\ boot' = Layered(h.env, keep)
        /\ UNCHANGED <<table, saved, updates>>

\* Update up to the commit, under Service.mu.  What merge, Candidate or Save
\* refuses changes nothing.
Update(changes) ==
    /\ up /\ saved = None /\ updates < MaxUpdates
    /\ DOMAIN changes # {} /\ Mergeable(changes)
    /\ Candidate(host, Merged(changes))
    /\ table' = Rows(changes)
    /\ saved' = [changes |-> DOMAIN changes, next |-> Merged(changes)]
    /\ updates' = updates + 1
    /\ UNCHANGED <<up, host, plain, broken, current, boot, boots>>

\* Slip: the new values never reach the service's own copy.
ApplyForgets ==
    /\ up /\ saved # None
    /\ current' = Layered(host.env, saved.next)
    /\ broken' = broken \ saved.changes
    /\ saved' = None
    /\ UNCHANGED <<table, up, host, plain, boot, updates, boots>>

\* Resolver.Apply, then Service.plain and Service.broken.
Apply ==
    /\ up /\ saved # None
    /\ current' = Layered(host.env, saved.next)
    /\ plain' = saved.next
    /\ broken' = broken \ saved.changes
    /\ saved' = None
    /\ UNCHANGED <<table, up, host, boot, updates, boots>>

\* The process dies: what it held in memory is gone.
Crash ==
    /\ up /\ boots < MaxBoots
    /\ up' = FALSE
    /\ plain' = Defaults /\ current' = Defaults /\ boot' = Defaults
    /\ broken' = {} /\ saved' = None
    /\ host' = [env |-> Defaults, seal |-> NoSeal, release |-> Unset]
    /\ UNCHANGED <<table, updates, boots>>

----------------------------------------------------------------------------

\* Between updates the room runs on exactly the stored values it can use, the
\* environment on top, and says of every other stored value that it is not
\* used: after any sequence of updates, crashes, and restarts under another
\* environment, SETTINGS_KEY or release (Service.Load and Update).
RunsWhatIsStored ==
    up /\ saved = None =>
        /\ current = Layered(host.env, plain)
        /\ \A k \in Keys :
            IF Opens(k, host.seal)
               /\ (host.env[k] # Unset \/ table[k].value \in Accepts[host.release][k])
            THEN plain[k] = table[k].value /\ k \notin broken
            ELSE plain[k] = Unset /\ (k \in broken <=> table[k] # NoRow)
============================================================================
