------------------------------ MODULE Sessions ------------------------------
(***************************************************************************)
(* Who is logged in to the webmail: Login behind its guard against         *)
(* guessing, Impersonate with a token of the administrator, the session    *)
(* store and its file, Logout, and restarts of the server.                 *)
(***************************************************************************)
EXTENDS Integers, Sequences, FiniteSets

CONSTANTS
  Logins,       \* requests to log in that run at the same time
  Hosts,        \* addresses they come from
  Headers,      \* what they write first in X-Forwarded-For; "" is no header
  Max,          \* failures that lead to a ban (10)
  Window,       \* for how long a failure counts (15 minutes)
  BanFor,       \* how long a ban lasts (30 minutes)
  SessionTTL,   \* how long a session lasts
  MaxClock,     \* bound: time
  MaxSessions,  \* bound: sessions ever created
  MaxHitches    \* bound: writes of the file that fail, restarts

ASSUME SessionsAssumption ==
  /\ Max \in Nat \ {0} /\ Window \in Nat /\ BanFor \in Nat /\ BanFor >= Window
  /\ SessionTTL \in Nat \ {0}
  /\ IsFiniteSet(Logins)
  /\ MaxClock \in Nat \ {0} /\ MaxSessions \in Nat /\ MaxHitches \in Nat

VARIABLES
  clock,
  attempts,     \* attempts[h]: when logins under the key h failed
  bannedUntil,  \* bannedUntil[h]: 0 if there is no ban
  login,        \* login[q]: request q, the step it is at and its key
  byID,         \* the sessions in memory: when each expires
  file,         \* the sessions in the file
  token,        \* when the administrator's token expires; 0 if there is none
  \* No part of the program:
  guesses,      \* guesses[h]: late failures since h's last success or a restart
  loggedOut,    \* sessions that somebody logged out of
  unsaved,      \* sessions that were deleted but could not be taken from the file
  sessions, hitches

sesVars == <<clock, attempts, bannedUntil, login, byID, file, token,
             guesses, loggedOut, unsaved, sessions, hitches>>
guard == <<attempts, bannedUntil, guesses>>
sesStore == <<byID, file, unsaved, sessions, hitches>>

Away == [at |-> "idle", host |-> "none"]

\* clientIP: the guard's key is what the client wrote first in the header, to
\* which the proxy only adds, and its address when there is no header.
ClientIP(address, header) == IF header # "" THEN header ELSE address
ClientIPs == {ClientIP(a, x) : a \in Hosts, x \in Headers}

SessionsInit ==
  /\ clock = 1
  /\ attempts = [h \in ClientIPs |-> <<>>]
  /\ bannedUntil = [h \in ClientIPs |-> 0]
  /\ login = [q \in Logins |-> Away]
  /\ byID = <<>>
  /\ file = <<>>
  /\ token = 0
  /\ guesses = [h \in ClientIPs |-> <<>>]
  /\ loggedOut = {}
  /\ unsaved = {}
  /\ sessions = 0
  /\ hitches = 0

Proceed(q, step) == login' = [login EXCEPT ![q].at = step]

Leave(q) == login' = [login EXCEPT ![q] = Away]

Hitch == hitches < MaxHitches /\ hitches' = hitches + 1

-----------------------------------------------------------------------------
(* The guard.                                                              *)

\* The times within the window before t, in their order.
Recent(times, t) ==
  LET kept[n \in 0..Len(times)] ==
        IF n = 0 THEN <<>>
        ELSE IF times[n] > t - Window THEN Append(kept[n - 1], times[n])
        ELSE kept[n - 1]
  IN kept[Len(times)]

AllowUnbanned(q, h) ==   \* faulty variant: only the failures are counted
  /\ login[q].at = "idle"
  /\ attempts' = [attempts EXCEPT ![h] = Recent(@, clock)]
  /\ Len(attempts'[h]) < Max
  /\ login' = [login EXCEPT ![q] = [at |-> "verify", host |-> h]]
  /\ UNCHANGED <<clock, bannedUntil, guesses, sesStore, token, loggedOut>>

\* allow: not during a ban, nor after Max failures in the window.
Allow(q, h) ==
  /\ login[q].at = "idle"
  /\ bannedUntil[h] <= clock
  /\ bannedUntil' = [bannedUntil EXCEPT ![h] = 0]
  /\ attempts' = [attempts EXCEPT ![h] = Recent(@, clock)]
  /\ Len(attempts'[h]) < Max
  /\ login' = [login EXCEPT ![q] = [at |-> "verify", host |-> h]]
  /\ UNCHANGED <<clock, guesses, sesStore, token, loggedOut>>

\* VerifyLogin: IMAP takes the password, or not, or cannot be reached.
VerifyLogin(q) ==
  /\ login[q].at = "verify"
  /\ \E step \in {"succeed", "fail"} : Proceed(q, step)
  /\ UNCHANGED <<clock, guard, sesStore, token, loggedOut>>

LoginFailsCounting(q) ==   \* faulty variant: the count goes on after a ban
  /\ login[q].at = "fail"
  /\ LET h == login[q].host
         times == Append(attempts[h], clock)
     IN /\ attempts' = [attempts EXCEPT ![h] = times]
        /\ bannedUntil' = [bannedUntil EXCEPT ![h] = IF Len(times) >= Max THEN clock + BanFor ELSE @]
        /\ guesses' = [guesses EXCEPT ![h] = Append(Recent(@, clock), clock)]
  /\ Leave(q)
  /\ UNCHANGED <<clock, sesStore, token, loggedOut>>

\* fail: the Max-th failure starts a ban, and with it the count begins anew.
LoginFails(q) ==
  /\ login[q].at = "fail"
  /\ LET h == login[q].host
         times == Append(attempts[h], clock)
         ban == Len(times) >= Max
     IN /\ attempts' = [attempts EXCEPT ![h] = IF ban THEN <<>> ELSE times]
        /\ bannedUntil' = [bannedUntil EXCEPT ![h] = IF ban THEN clock + BanFor ELSE @]
        /\ guesses' = [guesses EXCEPT ![h] = Append(Recent(@, clock), clock)]
  /\ Leave(q)
  /\ UNCHANGED <<clock, sesStore, token, loggedOut>>

\* succeed: the count of the key begins anew, whichever account it was; a ban
\* that began meanwhile does not end.
LoginSucceeds(q) ==
  /\ login[q].at = "succeed"
  /\ attempts' = [attempts EXCEPT ![login[q].host] = <<>>]
  /\ guesses' = [guesses EXCEPT ![login[q].host] = <<>>]
  /\ Proceed(q, "create")
  /\ UNCHANGED <<clock, bannedUntil, sesStore, token, loggedOut>>

-----------------------------------------------------------------------------
(* The session store.                                                      *)

Unexpired(f) == [s \in {x \in DOMAIN f : f[x] > clock} |-> f[s]]

\* persistLocked of the sessions f: what has expired is left out, and the file
\* is replaced at once, or not at all.
Persist(f) ==
  \/ /\ byID' = Unexpired(f)
     /\ file' = Unexpired(f)
     /\ unsaved' = unsaved \cap DOMAIN f
     /\ UNCHANGED hitches
  \/ /\ Hitch
     /\ byID' = Unexpired(f)
     /\ unsaved' = unsaved \cup (DOMAIN file \ DOMAIN f)
     /\ UNCHANGED file

\* CreateWith: a session that is not in the file is none.
CreateSession(q) ==
  /\ login[q].at = "create"
  /\ \/ /\ sessions < MaxSessions
        /\ sessions' = sessions + 1
        /\ byID' = Unexpired([s \in DOMAIN byID \cup {sessions'} |->
                                IF s = sessions' THEN clock + SessionTTL ELSE byID[s]])
        /\ file' = byID'
        /\ unsaved' = unsaved \cap DOMAIN byID
        /\ UNCHANGED hitches
     \/ /\ Hitch
        /\ byID' = Unexpired(byID)
        /\ UNCHANGED <<file, unsaved, sessions>>
  /\ Leave(q)
  /\ UNCHANGED <<clock, guard, token, loggedOut>>

Drop(id) == [s \in DOMAIN byID \ {id} |-> byID[s]]

DropInMemory(id) ==   \* faulty variant: the file is not written
  /\ byID' = Drop(id)
  /\ UNCHANGED <<file, unsaved, hitches>>

\* Delete, which does not tell whether the file could be written.
Delete(id) == Persist(Drop(id))

\* Get of a session that has expired.
Expire(id) ==
  /\ id \in DOMAIN byID
  /\ byID[id] < clock
  /\ Delete(id)
  /\ UNCHANGED <<clock, guard, login, token, loggedOut, sessions>>

Logout(id) ==
  /\ id \in DOMAIN byID
  /\ Delete(id)
  /\ loggedOut' = loggedOut \cup {id}
  /\ UNCHANGED <<clock, guard, login, token, sessions>>

-----------------------------------------------------------------------------
(* The administrator.                                                      *)

\* Issue and Parse: a token is good for two units of time, also to be used again.
TokenEnds == clock + 2
TokenGood == clock <= token

\* impersonateMailbox
IssueToken ==
  /\ token' = TokenEnds
  /\ UNCHANGED <<clock, guard, login, sesStore, loggedOut>>

\* Impersonate: the token is good, and IMAP takes the master password.  There is
\* no guard.
Impersonate(q) ==
  /\ login[q].at = "idle"
  /\ TokenGood
  /\ login' = [login EXCEPT ![q] = [at |-> "create", host |-> "none"]]
  /\ UNCHANGED <<clock, guard, sesStore, token, loggedOut>>

-----------------------------------------------------------------------------

\* NewFileStore: guard and requests under way are gone, the file is read.
Restart ==
  /\ Hitch
  /\ attempts' = [h \in ClientIPs |-> <<>>]
  /\ bannedUntil' = [h \in ClientIPs |-> 0]
  /\ guesses' = [h \in ClientIPs |-> <<>>]
  /\ login' = [q \in Logins |-> Away]
  /\ byID' = Unexpired(file)
  /\ UNCHANGED <<clock, file, token, loggedOut, unsaved, sessions>>

Pass ==
  /\ clock < MaxClock
  /\ clock' = clock + 1
  /\ UNCHANGED <<guard, login, sesStore, token, loggedOut>>

SessionsNext ==
  \/ \E q \in Logins :
       \/ \E a \in Hosts, x \in Headers : Allow(q, ClientIP(a, x))
       \/ VerifyLogin(q) \/ LoginFails(q) \/ LoginSucceeds(q)
       \/ CreateSession(q) \/ Impersonate(q)
  \/ \E id \in 1..MaxSessions : Expire(id) \/ Logout(id)
  \/ IssueToken \/ Restart \/ Pass

SessionsSpec == SessionsInit /\ [][SessionsNext]_sesVars

-----------------------------------------------------------------------------
(* Properties.                                                             *)

SessionsTypeOK ==
  /\ clock \in 1..MaxClock
  /\ attempts \in [ClientIPs -> Seq(1..MaxClock)]
  /\ \A h \in ClientIPs : Len(attempts[h]) < Max
  /\ \A q \in Logins : login[q].at \in {"idle", "verify", "succeed", "fail", "create"}
  /\ DOMAIN byID \cup DOMAIN file \cup loggedOut \cup unsaved \subseteq 1..sessions
  /\ token \in 0..(MaxClock + 2)
  /\ sessions <= MaxSessions /\ hitches <= MaxHitches

\* Somebody who logged out is out, over every restart, whatever sessions came
\* and went meanwhile: but for a file that could not be written.
LoggedOutStaysOut == loggedOut \cap DOMAIN byID \subseteq unsaved

\* Guard, verification and count are three steps, and a ban clears the count:
\* still, under one key of the guard and since the last login under it that
\* succeeded, there are no more than Max wrong passwords in a window, and one
\* more for each login that runs beside.  A key is no client: whoever sends an
\* X-Forwarded-For of his own has as many keys as he likes (clientIP), and whoever
\* has one good account empties the count of his key with it (succeed).
FewGuesses ==
  \A h \in ClientIPs : Len(Recent(guesses[h], clock)) <= Max + Cardinality(Logins) - 1

=============================================================================
