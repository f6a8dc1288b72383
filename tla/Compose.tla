------------------------------ MODULE Compose ------------------------------
(***************************************************************************)
(* A message on its way from the webmail's composer into the queue.  The   *)
(* API dresses it with the templates and footers of the settings, hands it *)
(* to the submission port of the MTA, which would dress it too, tries the  *)
(* other port when that failed, and files a copy in Sent.  The MTA takes   *)
(* the messages of other clients as well.  Both read the policy for        *)
(* themselves, and it may change in between.                               *)
(***************************************************************************)
EXTENDS Naturals, Sequences

CONSTANTS
  Near,       \* recipients in domains of this server
  Drafts,     \* what users compose
  Policies,   \* policies that are configured in turn
  Presses,    \* bound: messages that are sent, from the webmail or otherwise
  MaxCuts     \* bound: refusals and broken connections

ASSUME ComposeAssumption ==
  /\ Presses \in Nat /\ MaxCuts \in Nat
  /\ "far" \notin Near /\ \A d \in Drafts : d.to \subseteq Near \cup {"far"}

VARIABLES
  policy,    \* the policy of the settings
  sending,   \* what SendMessageWithPolicy is at, and the MTA with it
  queued,    \* messages that the MTA has queued
  filed,     \* messages in Sent
  answer,    \* answer[n]: what the API said of message n
  copies,    \* copies[n][r]: how often the MTA queued message n for r
  meant,     \* meant[n]: recipients that message n is addressed to
  missed,    \* missed[n]: recipients that the MTA accepted last and did not queue for
  behind,    \* behind[n]: recipients queued for in a try that the API saw fail
  pressed, cuts

composeVars == <<policy, sending, queued, filed, answer, copies, meant, missed, behind,
                 pressed, cuts>>
delivered == <<queued, copies, missed>>

\* The recipients elsewhere get one job together.
Everyone == Near \cup {"far"}

NotSending == [at |-> "idle"]

ComposeInit ==
  /\ policy \in Policies
  /\ sending = NotSending
  /\ queued = {}
  /\ filed = {}
  /\ answer = [n \in 1..Presses |-> "none"]
  /\ copies = [n \in 1..Presses |-> [r \in Everyone |-> 0]]
  /\ meant = [n \in 1..Presses |-> {}]
  /\ missed = [n \in 1..Presses |-> {}]
  /\ behind = [n \in 1..Presses |-> {}]
  /\ pressed = 0
  /\ cuts = 0

------------------------------------------------------------------------------
\* What a policy makes of a text, a sequence of "body", "tpl" and "foot"; a
\* policy has a set of "tpl" and "foot" for each kind of text.

NoPolicy(p) == p.plain = {} /\ p.html = {}

\* renderPlain and renderHTML
Render(extras, text) ==
  (IF "tpl" \in extras THEN <<"tpl">> ELSE <<>>) \o text
  \o (IF "foot" \in extras THEN <<"foot">> ELSE <<>>)

Composed(d) == [plain |-> IF d.plain THEN <<"body">> ELSE <<>>,
                html |-> IF d.html THEN <<"body">> ELSE <<>>]

\* TransformBodies: a reply is told from its subject alone, and a message
\* without HTML gets a twin made of its dressed text.
TransformBodies(p, d) ==
  LET texts == Composed(d)
      plain == IF d.plain \/ ~d.html THEN Render(p.plain, texts.plain) ELSE <<>>
      html == IF d.html THEN Render(p.html, texts.html)
              ELSE IF p.html # {} THEN Render(p.html, plain) ELSE <<>> IN
  IF NoPolicy(p) \/ (p.skipReplies /\ d.subject = "re") THEN texts
  ELSE [plain |-> plain, html |-> html]

\* buildMIME: one text, an alternative of two, or either in a multipart/mixed
\* with a file, where the alternative is a multipart of its own.
BuildMIME(n, d, texts, applied) ==
  LET part(media, text) == [media |-> media, text |-> text,
                            inner |-> d.file /\ texts.html # <<>>]
      written == IF texts.html = <<>> THEN {part("plain", texts.plain)}
                 ELSE {part("plain", texts.plain), part("html", texts.html)} IN
  [id |-> n, to |-> d.to, subject |-> d.subject, reply |-> d.reply, marked |-> applied, parts |-> written,
   twin |-> ~d.html /\ texts.html # <<>>]

Dressed(p, m) ==
  [m EXCEPT !.marked = TRUE,
     !.parts = {IF x.inner THEN x ELSE [x EXCEPT !.text = Render(p[x.media], @)] : x \in @}]

\* faulty variant: dresses whatever comes
ApplyAgain(p, m) == IF NoPolicy(p) THEN m ELSE Dressed(p, m)

\* Apply of the MTA.  Texts in a multipart inside the multipart are not
\* touched, and when there are no others the message stays as it is.
Apply(p, m) ==
  IF \/ NoPolicy(p)
     \/ m.marked
     \/ p.skipReplies /\ (m.subject = "re" \/ m.reply)
     \/ \A x \in m.parts : x.inner
  THEN m ELSE Dressed(p, m)

------------------------------------------------------------------------------
\* SendMessageWithPolicy

\* The port is that of the session's settings: SMTPS, submission with TLS
\* wanted, or any port without.
Press(d, port) ==
  /\ sending = NotSending
  /\ pressed < Presses
  /\ pressed' = pressed + 1
  /\ sending' = [at |-> port, step |-> "call", took |-> {},
                  msg |-> BuildMIME(pressed + 1, d, TransformBodies(policy, d), ~NoPolicy(policy))]
  /\ meant' = [meant EXCEPT ![pressed + 1] = d.to]
  /\ UNCHANGED <<policy, filed, delivered, behind, answer, cuts>>

OnThePort(step) ==
  sending.at \in {"smtps", "submission", "plain", "fallback"} /\ sending.step = step

Cut == cuts < MaxCuts /\ cuts' = cuts + 1

\* faulty variant: the other port is tried until it works
AfterErrorAgain ==
  /\ IF sending.at \in {"submission", "fallback"}
     THEN /\ sending' = [sending EXCEPT !.at = "fallback", !.step = "call", !.took = {}]
          /\ UNCHANGED answer
     ELSE /\ sending' = NotSending
          /\ answer' = [answer EXCEPT ![sending.msg.id] = "failed"]
  /\ behind' = [behind EXCEPT ![sending.msg.id] = @ \cup sending.took]

\* After an error on the submission port the other one is tried; when that
\* fails too the answer is an error.  What the MTA has queued by then stays.
AfterError ==
  /\ IF sending.at = "submission"
     THEN /\ sending' = [sending EXCEPT !.at = "fallback", !.step = "call", !.took = {}]
          /\ UNCHANGED answer
     ELSE /\ sending' = NotSending
          /\ answer' = [answer EXCEPT ![sending.msg.id] = "failed"]
  /\ behind' = [behind EXCEPT ![sending.msg.id] = @ \cup sending.took]

\* No connection, no STARTTLS where TLS is wanted, or a command refused, DATA
\* among them by the pipeline's verdict.
Refuse ==
  /\ OnThePort("call")
  /\ Cut
  /\ AfterError
  /\ UNCHANGED <<policy, meant, filed, delivered, pressed>>

\* Data: a job for each recipient of this server, one after the other, the text
\* as it came.  One that resolves no longer is left out, and so are all from
\* the first that fails on; the MTA logs a warning and goes on.
QueueNear ==
  /\ OnThePort("call")
  /\ LET m == sending.msg IN
     \E got \in SUBSET (m.to \cap Near) :
       /\ IF got = m.to \cap Near THEN UNCHANGED cuts ELSE Cut
       /\ queued' = IF got = {} THEN queued ELSE queued \cup {m}
       /\ copies' = [copies EXCEPT ![m.id] =
                       [r \in Everyone |-> IF r \in got THEN @[r] + 1 ELSE @[r]]]
       /\ missed' = [missed EXCEPT ![m.id] = (m.to \cap Near) \ got]
       /\ sending' = [sending EXCEPT !.step = "near", !.took = got]
  /\ UNCHANGED <<policy, meant, filed, answer, behind, pressed>>

\* Then one job for all the others, dressed by the MTA's policy.
QueueFar ==
  /\ OnThePort("near")
  /\ LET m == sending.msg IN
     IF "far" \in m.to
     THEN /\ queued' = queued \cup {Apply(policy, m)}
          /\ copies' = [copies EXCEPT ![m.id]["far"] = @ + 1]
          /\ sending' = [sending EXCEPT !.step = "far", !.took = @ \cup {"far"}]
     ELSE UNCHANGED <<queued, copies>> /\ sending' = [sending EXCEPT !.step = "far"]
  /\ UNCHANGED <<policy, meant, filed, missed, answer, behind, pressed, cuts>>

\* That job is not stored: the MTA answers 451, whatever it queued before.
FarFails ==
  /\ OnThePort("near") /\ "far" \in sending.msg.to
  /\ Cut
  /\ AfterError
  /\ UNCHANGED <<policy, meant, filed, delivered, pressed>>

\* DATA is accepted, and QUIT answered.
Accept ==
  /\ OnThePort("far")
  /\ sending' = [sending EXCEPT !.at = "sent"]
  /\ UNCHANGED <<policy, meant, filed, delivered, behind, answer, pressed, cuts>>

\* The MTA accepted, but its reply is lost or QUIT fails: that is an error too.
AcceptUnheard ==
  /\ OnThePort("far")
  /\ Cut
  /\ AfterError
  /\ UNCHANGED <<policy, meant, filed, delivered, pressed>>

\* faulty variant: the answer is the error of AppendToSent
FileOrFail ==
  /\ sending.at = "sent"
  /\ \/ filed' = filed \cup {sending.msg} /\ answer' = [answer EXCEPT ![sending.msg.id] = "sent"] /\ UNCHANGED cuts
     \/ Cut /\ answer' = [answer EXCEPT ![sending.msg.id] = "failed"] /\ UNCHANGED filed
  /\ sending' = NotSending
  /\ UNCHANGED <<policy, meant, delivered, behind, pressed>>

\* AppendToSent may fail at any of its steps; nobody is told.
File ==
  /\ sending.at = "sent"
  /\ \/ filed' = filed \cup {sending.msg} /\ UNCHANGED cuts
     \/ Cut /\ UNCHANGED filed
  /\ answer' = [answer EXCEPT ![sending.msg.id] = "sent"]
  /\ sending' = NotSending
  /\ UNCHANGED <<policy, meant, delivered, behind, pressed>>

\* Another client submits a message of its own, or one of Sent once more.  Of
\* this one only the texts are of interest.
Submit(m) ==
  /\ pressed < Presses
  /\ pressed' = pressed + 1
  /\ LET sent == [m EXCEPT !.id = pressed + 1]
     IN queued' = queued \cup {sent, Apply(policy, sent)}
  /\ UNCHANGED <<policy, meant, sending, filed, answer, copies, missed, behind, cuts>>

ChangePolicy ==
  /\ policy' \in Policies \ {policy}
  /\ UNCHANGED <<sending, meant, filed, delivered, answer, behind, pressed, cuts>>

ComposeNext ==
  \/ \E d \in Drafts, port \in {"smtps", "submission", "plain"} : Press(d, port)
  \/ Refuse
  \/ QueueNear
  \/ QueueFar
  \/ FarFails
  \/ Accept
  \/ AcceptUnheard
  \/ File
  \/ \E d \in Drafts : Submit(BuildMIME(0, d, Composed(d), FALSE))
  \/ \E m \in filed : Submit(m)
  \/ ChangePolicy

ComposeSpec == ComposeInit /\ [][ComposeNext]_composeVars

------------------------------------------------------------------------------
ComposeTypeOK ==
  /\ policy \in Policies
  /\ sending.at \in {"idle", "smtps", "submission", "plain", "fallback", "sent"}
  /\ \A m \in queued \cup filed : m.id \in 1..Presses
  /\ answer \in [1..Presses -> {"none", "sent", "failed"}]
  /\ copies \in [1..Presses -> [Everyone -> 0..2]]
  /\ meant \in [1..Presses -> SUBSET Everyone]
  /\ missed \in [1..Presses -> SUBSET Near]
  /\ behind \in [1..Presses -> SUBSET Everyone]
  /\ pressed \in 0..Presses
  /\ cuts \in 0..MaxCuts

\* What the API answers is what became of the message, for each recipient: one
\* said to be sent is queued once for everyone it was addressed to, and one said
\* to have failed for nobody, whatever becomes of the copy in Sent and of the
\* first port (SendMessageWithPolicy).  Excepted are the recipients for whom a
\* job was stored in a try that the API saw fail, by a reply that got lost or
\* by the 451 after half of the work; and those the MTA could not queue for
\* when it accepted all the same.
SentAsAnswered ==
  \A n \in 1..Presses : \A r \in Everyone \ behind[n] :
    /\ answer[n] = "failed" => copies[n][r] = 0
    /\ answer[n] = "sent" => copies[n][r] = IF r \in meant[n] \ missed[n] THEN 1 ELSE 0

OnceOnly(text) ==
  \A i, j \in DOMAIN text : text[i] = text[j] /\ text[i] \in {"tpl", "foot"} => i = j

\* No text of a queued message carries the template or the footer twice, from
\* whatever client it comes, however often it is sent and whatever policies
\* API and MTA have seen (TransformBodies, Apply).  The twin that the API
\* makes of a plain text is the exception.
DressedOnce ==
  \A m \in queued : \A x \in m.parts :
    \/ m.twin /\ x.media = "html"
    \/ OnceOnly(x.text)

=============================================================================
