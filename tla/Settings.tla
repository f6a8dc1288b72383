------------------------------ MODULE Settings ------------------------------
(***************************************************************************)
(* The settings that an administrator changes while the mail system runs.  *)
(* Every process keeps a Manager with a cache of the table, which it       *)
(* refreshes of its own accord: the MTA every 30 seconds, the worker before *)
(* every drain, the admin server before most requests and in its watchdog. *)
(* Reading the table and replacing the cache are two steps, and so are     *)
(* writing a row and writing the cache.                                    *)
(***************************************************************************)
EXTENDS Naturals

CONSTANTS
  Requests,       \* administrators' requests that run at the same time
  MaxEdits,       \* bound: requests that write settings
  MaxSetFailures  \* bound: statements that fail

ASSUME SettingsAssumption == MaxEdits \in Nat /\ MaxSetFailures \in Nat

VARIABLES
  table,     \* the settings table over the defaults, what a fresh cache holds
  cache,     \* cache[p]: the cache of process p
  thread,    \* what each thread is doing
  form,      \* the settings as the administrator's page shows them
  export,    \* the settings of the last backup
  relayHost, \* RelayHost of the worker's transport
  engine,    \* the threshold in the configuration of the spam engine
  glSecs,    \* the greylist's delay, as the MTA took it when it started
  outdated,  \* no part of the program: the delay was written since then
  edits, setFailures

settingsVars == <<table, cache, thread, form, export, relayHost, engine, glSecs,
                  outdated, edits, setFailures>>
started == <<glSecs, outdated>>

\* One setting of each kind: a secret, one that the worker copies when it is
\* not empty, one that the MTA copies in its loop, and one that it copies only
\* when it starts (the greylist's delay; the limits of connections, of sending
\* and of failed log-ins are of this kind too).
Keys == {"token", "relay", "flagAt", "delay"}
SecretKeys == {"token"}
Values == [token |-> {"", "t"}, relay |-> {"", "r"}, flagAt |-> {"3", "4"},
           delay |-> {"0", "60"}]
Defaults == [token |-> "", relay |-> "", flagAt |-> "3", delay |-> "0"]
Tables == {s \in [Keys -> {"", "t", "r", "3", "4", "0", "60"}] :
             \A k \in Keys : s[k] \in Values[k]}

SecretMask == "mask"
Redacted == "redacted"
Nothing == [k \in {} |-> ""]

\* Threads: the watchdog and the requests share the admin server's cache.
Loops == {"watchdog", "worker", "mta"}
Threads == Loops \cup Requests
Processes == {"admin", "worker", "mta"}
Owner(t) == IF t \in {"worker", "mta"} THEN t ELSE "admin"

Quiet == [at |-> "idle", op |-> "", read |-> Nothing, body |-> Nothing, key |-> ""]

SettingsInit ==
  /\ table = [token |-> "t", relay |-> "r", flagAt |-> "3", delay |-> "0"]
  /\ cache = [p \in Processes |-> table]
  /\ thread = [t \in Threads |-> Quiet]
  /\ form = Nothing
  /\ export = Nothing
  /\ relayHost = table.relay
  /\ engine = table.flagAt
  /\ glSecs = table.delay
  /\ outdated = FALSE
  /\ edits = 0
  /\ setFailures = 0

------------------------------------------------------------------------------
\* Reload, in a loop of its process or at the start of a request

SetThread(t, new) == thread' = [thread EXCEPT ![t] = new]

\* faulty variant: keeps what the cache has been given by Set
MergeCache(old, list) ==
  [k \in Keys |-> IF old[k] # Defaults[k] THEN old[k] ELSE list[k]]

\* Manager.Reload replaces the cache by the defaults under the list it read.
NewCache(old, list) == list

\* refreshPolicy of the worker: an empty relay_host changes nothing.
Refresh(settings) ==
  relayHost' = IF settings.relay # "" THEN settings.relay ELSE relayHost

\* What an administrator sees of a secret, and what a backup holds of it.  (A
\* backup also leaves out any key with password, secret, private, token or key in
\* its name, which the password policy has; of the keys here, only the secret.)
PublicSettings(s) ==
  [k \in Keys |-> IF k \in SecretKeys /\ s[k] # "" THEN SecretMask ELSE s[k]]
RedactSettings(s) ==
  [k \in Keys |-> IF k \in SecretKeys /\ s[k] # "" THEN Redacted ELSE s[k]]

\* What a thread does with its cache after Reload.  The loop of the MTA skips
\* its turn when the reload failed, all the others go on with the old cache.
Use(t, settings, reloaded) ==
  /\ IF t = "worker" THEN Refresh(settings) ELSE UNCHANGED relayHost
  /\ engine' = IF t = "mta" /\ reloaded THEN settings.flagAt ELSE engine
  /\ form' = IF thread[t].op = "get" THEN PublicSettings(settings) ELSE form
  /\ export' = IF thread[t].op = "backup" THEN RedactSettings(settings) ELSE export

\* ListSettings of a turn of a loop, or of a request that begins.
List(t, op) ==
  /\ thread[t].at = "idle"
  /\ SetThread(t, [Quiet EXCEPT !.at = "listed", !.op = op, !.read = table])
  /\ UNCHANGED <<table, cache, form, export, relayHost, engine, started, edits, setFailures>>

Turn(t) == t \in Loops /\ List(t, "turn")
\* Bound: nobody asks for a page or a backup that no edit follows.
GetSettings(r) == r \in Requests /\ edits < MaxEdits /\ List(r, "get")
Backup(r) == r \in Requests /\ edits < MaxEdits /\ List(r, "backup")

\* The lock is taken only now; another thread may have written in between.
Install(t) ==
  /\ thread[t].at = "listed"
  /\ LET new == NewCache(cache[Owner(t)], thread[t].read) IN
     /\ cache' = [cache EXCEPT ![Owner(t)] = new]
     /\ Use(t, new, TRUE)
  /\ SetThread(t, Quiet)
  /\ UNCHANGED <<table, started, edits, setFailures>>

ReloadFails(t) ==
  /\ thread[t].at = "listed"
  /\ setFailures < MaxSetFailures
  /\ setFailures' = setFailures + 1
  /\ Use(t, cache[Owner(t)], FALSE)
  /\ SetThread(t, Quiet)
  /\ UNCHANGED <<table, cache, started, edits>>

\* The MTA starts again: main fills a new cache, and takes from it what the loop
\* will refresh and what nothing will.
StartMTA ==
  /\ cache' = [cache EXCEPT !.mta = table]
  /\ engine' = table.flagAt
  /\ glSecs' = table.delay
  /\ outdated' = FALSE
  /\ SetThread("mta", Quiet)
  /\ UNCHANGED <<table, form, export, relayHost, edits, setFailures>>

------------------------------------------------------------------------------
\* Requests that write

\* faulty variant: an empty secret is kept, the mask is not
KeepsEmptySecret(k, v) == k \in SecretKeys /\ v = ""

\* putSettings passes over a secret that the form left empty or masked.
KeepsSecret(k, v) == k \in SecretKeys /\ v \in {"", SecretMask}

PutBody(body) == [k \in {k \in DOMAIN body : ~KeepsSecret(k, body[k])} |-> body[k]]
RestoreBody(body) == [k \in {k \in DOMAIN body : body[k] # Redacted} |-> body[k]]

Edit(r, body) ==
  /\ r \in Requests
  /\ thread[r].at = "idle"
  /\ edits < MaxEdits
  /\ edits' = edits + 1
  /\ SetThread(r, [Quiet EXCEPT !.at = "next", !.op = "edit", !.body = body])
  /\ UNCHANGED <<table, cache, form, export, relayHost, engine, started, setFailures>>

\* The page sends its whole form back, with what the administrator changed.
PutSettings(r) ==
  /\ form # Nothing
  /\ \E k \in Keys : \E v \in Values[k] \ {form[k]} :
       Edit(r, PutBody([form EXCEPT ![k] = v]))

RestoreSettings(r) == export # Nothing /\ Edit(r, RestoreBody(export))

\* Set: the row first.  The body is a map, so its keys come in any order.
SetRow(r) ==
  /\ thread[r].at = "next"
  /\ \E k \in DOMAIN thread[r].body :
       /\ table' = [table EXCEPT ![k] = thread[r].body[k]]
       /\ SetThread(r, [thread[r] EXCEPT !.at = "row", !.key = k])
       /\ outdated' = (outdated \/ k = "delay")
  /\ UNCHANGED <<cache, form, export, relayHost, engine, glSecs, edits, setFailures>>

\* An error ends the request; the keys before it stay written.
SetRowFails(r) ==
  /\ thread[r].at = "next"
  /\ thread[r].body # Nothing
  /\ setFailures < MaxSetFailures
  /\ setFailures' = setFailures + 1
  /\ SetThread(r, Quiet)
  /\ UNCHANGED <<table, cache, form, export, relayHost, engine, started, edits>>

SetCache(r) ==
  /\ thread[r].at = "row"
  /\ LET k == thread[r].key  body == thread[r].body IN
     /\ cache' = [cache EXCEPT !.admin[k] = body[k]]
     /\ SetThread(r, [thread[r] EXCEPT !.at = "next", !.key = "",
                        !.body = [j \in DOMAIN body \ {k} |-> body[j]]])
  /\ UNCHANGED <<table, form, export, relayHost, engine, started, edits, setFailures>>

\* The reply of putSettings shows the cache again.
Written(r) ==
  /\ thread[r].at = "next"
  /\ thread[r].body = Nothing
  /\ form' = PublicSettings(cache.admin)
  /\ SetThread(r, Quiet)
  /\ UNCHANGED <<table, cache, export, relayHost, engine, started, edits, setFailures>>

------------------------------------------------------------------------------
Proceed(t) ==
  \/ Install(t)
  \/ ReloadFails(t)
  \/ t \in Requests /\ (SetRow(t) \/ SetRowFails(t) \/ SetCache(t) \/ Written(t))

SettingsNext ==
  \/ \E t \in Threads : Proceed(t)
  \/ \E t \in Loops : Turn(t)
  \/ StartMTA
  \/ \E r \in Requests :
       \/ GetSettings(r)
       \/ Backup(r)
       \/ PutSettings(r)
       \/ RestoreSettings(r)

\* The loops are driven by tickers for ever, and a handler runs to its end;
\* that an administrator sends another request is not assumed.
SettingsFairness ==
  /\ \A t \in Loops : WF_settingsVars(Turn(t))
  /\ \A t \in Threads : WF_settingsVars(Proceed(t))

SettingsSpec == SettingsInit /\ [][SettingsNext]_settingsVars /\ SettingsFairness

------------------------------------------------------------------------------
\* The table holds a value of its own kind under every key.  For the secret
\* this says that neither the mask that the page shows nor the mark that a
\* backup holds ever comes back as the token itself, whichever form or backup
\* is sent back (putSettings, restoreBackup).
SettingsTypeOK ==
  /\ table \in Tables
  /\ cache \in [Processes -> Tables]
  /\ \A t \in Threads :
       /\ thread[t].at \in {"idle", "listed", "next", "row"}
       /\ thread[t].at = "listed" => thread[t].read \in Tables
  /\ relayHost \in Values.relay
  /\ engine \in Values.flagAt
  /\ glSecs \in Values.delay /\ outdated \in BOOLEAN
  /\ edits \in 0..MaxEdits
  /\ setFailures \in 0..MaxSetFailures

\* Once the table is left alone, every cache and every copy that a component
\* refreshes from one holds what the table holds, whatever reloads and writes
\* overlapped before (Reload, Set, the loop of the MTA, refreshPolicy).  Two
\* kinds of copy are exceptions: that the relay was emptied never reaches the
\* worker, and what the MTA takes when it starts (the greylist's delay, its
\* limits) stays as it was then, whatever is written, until it starts again.
Applied ==
  /\ \A p \in Processes : cache[p] = table
  /\ engine = table.flagAt
  /\ table.relay # "" => relayHost = table.relay
  /\ ~ outdated => glSecs = table.delay
CacheCatchesUp == <>[]Applied

=============================================================================
