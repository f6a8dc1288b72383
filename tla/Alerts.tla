------------------------------- MODULE Alerts -------------------------------
(***************************************************************************)
(* The watchdog of the admin server: every minute it looks at the queue    *)
(* and at the other processes, and tells the administrator of what is      *)
(* wrong over the channels he configured.  An issue that went out on all   *)
(* channels rests for a cooldown; one that failed on any of them is sent   *)
(* again on all of them at the next tick.                                  *)
(***************************************************************************)
EXTENDS Naturals, Sequences, Functions

CONSTANTS
  Watched,   \* conditions that may come up here
  Channels,  \* channels that may be configured
  Cooldown,  \* ticks that an issue rests after it was told
  MaxChanges \* bound: changes of the surroundings

Issues == {"queue.error", "queue.dead", "queue.pending", "stack.missing"}

ASSUME AlertsAssumption ==
  /\ Watched \subseteq Issues
  /\ Channels \subseteq {"email", "telegram", "webhook"}
  /\ Cooldown \in Nat \ {0} /\ MaxChanges \in Nat

VARIABLES
  health,   \* conditions that hold of the system
  line,     \* line[c]: what becomes of a message over channel c
  wanted,   \* channels in the configuration; none when alerts are off
  notify,   \* what Notify is at
  age,      \* age[i]: ticks since lastSent of issue i
  heard,    \* heard[i]: channels that delivered issue i since it came up
  changes

alertVars == <<health, line, wanted, notify, age, heard, changes>>

\* A tick has 25 seconds, counted in fives.  A channel that hangs takes the
\* whole time-out of its own: 20 seconds of SMTP, 15 of HTTP.
TickTime == 5
Hang(c) == IF c = "email" THEN 4 ELSE 3

Resting == [at |-> "idle", issues |-> <<>>, channels |-> <<>>, left |-> <<>>, spent |-> 0, errs |-> FALSE]

\* CollectIssues: queueCounts gives no numbers when the store fails.
Present(i) == i \in health /\ (i \in {"queue.dead", "queue.pending"} => "queue.error" \notin health)
When(here, x) == IF here THEN <<x>> ELSE <<>>
CollectIssues ==
  When(Present("queue.error"), "queue.error") \o When(Present("queue.dead"), "queue.dead")
    \o When(Present("queue.pending"), "queue.pending")
    \o When(Present("stack.missing"), "stack.missing")

Configured ==
  When("email" \in wanted, "email") \o When("telegram" \in wanted, "telegram")
    \o When("webhook" \in wanted, "webhook")

\* allow: nothing was sent, or the cooldown is over (age stops at Cooldown).
Allow(i) == age[i] = Cooldown

AlertsInit ==
  /\ health \in SUBSET Watched
  /\ line \in [Channels -> {"works", "fails", "hangs"}]
  /\ wanted \in SUBSET Channels
  /\ notify = Resting
  /\ age = [i \in Issues |-> Cooldown]
  /\ heard = [i \in Issues |-> {}]
  /\ changes = 0

------------------------------------------------------------------------------
\* The surroundings

Change == changes < MaxChanges /\ changes' = changes + 1

ConditionChanges == \E i \in Watched :
  /\ Change
  /\ health' = IF i \in health THEN health \ {i} ELSE health \cup {i}
  /\ heard' = [heard EXCEPT ![i] = {}]
  /\ UNCHANGED <<line, wanted, notify, age>>

ChannelChanges == \E c \in Channels, new \in {"works", "fails", "hangs"} :
  /\ Change
  /\ line' = [line EXCEPT ![c] = new]
  /\ UNCHANGED <<health, wanted, notify, age, heard>>

Configure == \E new \in SUBSET Channels :
  /\ Change
  /\ wanted' = new
  /\ UNCHANGED <<health, line, notify, age, heard>>

------------------------------------------------------------------------------
\* watchdogTick and Notify

\* A minute has passed.  The configuration and the issues are fixed now.
Minute ==
  /\ notify.at = "idle"
  /\ age' = [i \in Issues |-> IF age[i] < Cooldown THEN age[i] + 1 ELSE Cooldown]
  /\ notify' = IF wanted = {} \/ CollectIssues = <<>> THEN Resting
               ELSE [Resting EXCEPT !.at = "issue", !.issues = CollectIssues,
                                  !.channels = Configured]
  /\ UNCHANGED <<health, line, wanted, heard, changes>>

Advance(n) == IF Len(n.issues) = 1 THEN Resting
              ELSE [n EXCEPT !.at = "issue", !.issues = Tail(@), !.left = <<>>, !.errs = FALSE]

Issue == Head(notify.issues)

Consider ==
  /\ notify.at = "issue"
  /\ notify' = IF Allow(Issue) THEN [notify EXCEPT !.at = "send", !.left = notify.channels]
               ELSE Advance(notify)
  /\ UNCHANGED <<health, line, wanted, age, heard, changes>>

SendOn(left) ==
  /\ notify.at = "send"
  /\ notify.left # <<>>
  /\ LET c == Head(notify.left)
         inTime == notify.spent < TickTime
         ok == inTime /\ line[c] = "works"
         cost == IF inTime /\ line[c] = "hangs" THEN Hang(c) ELSE 0 IN
     /\ heard' = IF ok /\ Issue \in health THEN [heard EXCEPT ![Issue] = @ \cup {c}] ELSE heard
     /\ notify' = [notify EXCEPT !.left = left[ok], !.errs = @ \/ ~ok,
                     !.spent = IF @ + cost > TickTime THEN TickTime ELSE @ + cost]
  /\ UNCHANGED <<health, line, wanted, age, changes>>

\* faulty variant: dispatch returns at the first channel that fails
SendUntilError == SendOn([ok \in BOOLEAN |-> IF ok THEN Tail(notify.left) ELSE <<>>])

\* dispatch goes through the channels whatever becomes of each of them.
Send == SendOn([ok \in BOOLEAN |-> Tail(notify.left)])

\* mark, unless a channel failed.
Mark ==
  /\ notify.at = "send"
  /\ notify.left = <<>>
  /\ age' = IF notify.errs THEN age ELSE [age EXCEPT ![Issue] = 0]
  /\ notify' = Advance(notify)
  /\ UNCHANGED <<health, line, wanted, heard, changes>>

------------------------------------------------------------------------------
Watchdog == Minute \/ Consider \/ Send \/ Mark

AlertsNext == ConditionChanges \/ ChannelChanges \/ Configure \/ Watchdog

\* The ticker of the watchdog runs as long as the admin server does.
AlertsFairness == WF_alertVars(Watchdog)

AlertsSpec == AlertsInit /\ [][AlertsNext]_alertVars /\ AlertsFairness

------------------------------------------------------------------------------
AlertsTypeOK ==
  /\ health \subseteq Issues
  /\ line \in [Channels -> {"works", "fails", "hangs"}]
  /\ wanted \subseteq Channels
  /\ notify.at \in {"idle", "issue", "send"}
  /\ Range(notify.issues) \subseteq Issues
  /\ Range(notify.channels) \cup Range(notify.left) \subseteq Channels
  /\ notify.spent \in 0..TickTime
  /\ notify.errs \in BOOLEAN
  /\ age \in [Issues -> 0..Cooldown]
  /\ heard \in [Issues -> SUBSET Channels]
  /\ changes \in 0..MaxChanges

\* In the end every issue that persists has been told on every channel that
\* works and is configured, whatever the other channels do short of hanging: a
\* hanging one uses up the time of the tick, and what comes after it may never
\* be sent.  (The surroundings come to rest, as changes is bounded.)
Told(i) == {c \in wanted : line[c] = "works"} \subseteq heard[i]
IssueIsTold ==
  <>[](\/ \E c \in wanted : line[c] = "hangs"
       \/ \A i \in Watched : Present(i) => Told(i))

=============================================================================
