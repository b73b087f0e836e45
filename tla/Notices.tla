------------------------------ MODULE Notices -------------------------------
(***************************************************************************)
(* Unread notices (app/notifications.py) of one subject: a human or a      *)
(* machine, for nothing is shared between two.  A human's browser          *)
(* shows counts of responses that may arrive in any order and applies one  *)
(* only if its revision is not older; a machine is told of new notices     *)
(* once, by a watermark, and reads whole categories.                       *)
(***************************************************************************)
EXTENDS Integers, FiniteSetsExt, SequencesExt

CONSTANTS
  Keys,         \* events: [key, category, reference]
  HistoryLimit, \* rows of the inbox
  ReadLimit,    \* rows a machine's list returns
  MaxChanges,   \* bound: changes of one box
  MaxAnswers    \* bound: responses on their way to the browser

VARIABLES
  subject,   \* "human" or "ai"
  box,       \* its notices, oldest first
  revision,  \* notification_subject_states.revision
  answers,   \* responses on their way to the browser
  latest,    \* latestUnreadRevision of the browser
  badge,     \* what the browser's badges count
  shown,     \* game notices the browser displayed and has not acknowledged
  watermark, \* mcp_notification_delivery.last_id of the machine
  told       \* notices a response hinted at, listed or delivered

vars == <<subject, box, revision, answers, latest, badge, shown, watermark, told>>
browser == <<answers, latest, badge, shown>>
machine == <<watermark, told>>

Unread == {i \in DOMAIN box : ~box[i].read}
Of(category) == {i \in Unread : box[i].event.category = category}
About(category, reference) == {i \in Of(category) : box[i].event.reference = reference}

\* create_notification: a key is inserted once, read or not.
Post(event) ==
  /\ revision < MaxChanges /\ revision' = revision + 1
  /\ \A i \in DOMAIN box : box[i].event.key # event.key
  /\ box' = Append(box, [event |-> event, read |-> FALSE])
  /\ UNCHANGED <<subject, browser, machine>>

\* Mutant: reading does not move the revision.
ReadSilently(rows) ==
  /\ box' = [i \in DOMAIN box |-> [box[i] EXCEPT !.read = @ \/ i \in rows]]
  /\ UNCHANGED revision

\* mark_notifications_read, mark_notification_ids_read: what was unread is
\* read, and the revision moves if anything was.
Read(rows) ==
  /\ box' = [i \in DOMAIN box |-> [box[i] EXCEPT !.read = @ \/ i \in rows]]
  /\ IF rows \cap Unread = {} THEN UNCHANGED revision
     ELSE revision < MaxChanges /\ revision' = revision + 1

----------------------------------------------------------------------------
(* The browser of the human.                                               *)

NewestRows == {i \in DOMAIN box : i > Len(box) - HistoryLimit}

\* unread_state with or without the history, in one snapshot.
State(rows) ==
  [revision |-> revision, count |-> Cardinality(Unread), rows |-> rows]

\* The inbox, or any page that carries the counts, is answered.
Fetch(inbox) ==
  /\ Cardinality(answers) < MaxAnswers
  /\ answers' = answers \cup {State(IF inbox THEN NewestRows \cap Of("game") ELSE {})}
  /\ UNCHANGED <<subject, box, revision, latest, badge, shown, machine>>

\* applyHumanUnreadState: an older response is not applied.
Applies(answer) == answer.revision >= latest

\* A response arrives; unread game notices of an inbox pop up.
Arrive(answer) ==
  /\ answer \in answers
  /\ answers' = answers \ {answer}
  /\ IF Applies(answer)
     THEN /\ latest' = answer.revision /\ badge' = answer.count
          /\ shown' = shown \cup answer.rows
     ELSE UNCHANGED <<latest, badge, shown>>
  /\ UNCHANGED <<subject, box, revision, machine>>

\* Acknowledging answers with the state it leaves, in one transaction.
Acknowledge(rows) ==
  /\ Cardinality(answers) < MaxAnswers
  /\ Read(rows)
  /\ answers' = answers \cup
       {[revision |-> revision', count |-> Cardinality(Unread \ rows), rows |-> {}]}
  /\ UNCHANGED <<subject, latest, badge, machine>>

\* What popped up is acknowledged by its ids.
AckShown == shown # {} /\ Acknowledge(shown) /\ shown' = {}

\* A page of the chip center acknowledges its whole category.
AckCategory(category) ==
  category # "game" /\ Acknowledge(Of(category)) /\ UNCHANGED shown

----------------------------------------------------------------------------
(* The tool answers of the machine.                                        *)

\* attach_mcp_unread: the newest unread notice moves the watermark, and all
\* that are unread are hinted at.
Attach ==
  LET newest == Max(Unread \cup {0})
  IN /\ newest > watermark
     /\ watermark' = newest /\ told' = told \cup Unread
     /\ UNCHANGED <<subject, box, revision, browser>>

\* consume_notifications: the oldest rows are listed and all of the category
\* are read; a further line counts the rest.
Consume(category) ==
  LET rows == Of(category)
      listed == {i \in rows : Cardinality({j \in rows : j <= i}) <= ReadLimit}
  IN /\ rows # {} /\ Read(rows)
     /\ told' = told \cup listed
     /\ UNCHANGED <<subject, watermark, browser>>

\* A terminal answer or an unlock delivers its own notices.
Deliver(category, reference) ==
  LET rows == About(category, reference)
  IN /\ rows # {} /\ Read(rows)
     /\ told' = told \cup rows
     /\ UNCHANGED <<subject, watermark, browser>>

Init ==
  /\ subject \in {"human", "ai"} /\ box = <<>> /\ revision = 0
  /\ answers = {} /\ latest = -1 /\ badge = 0 /\ shown = {}
  /\ watermark = 0 /\ told = {}

Categories == {e.category : e \in Keys}
References == {e.reference : e \in Keys}

Next ==
  \/ \E event \in Keys : Post(event)
  \/ subject = "human" /\
       \/ \E inbox \in BOOLEAN : Fetch(inbox)
       \/ \E answer \in answers : Arrive(answer)
       \/ AckShown
       \/ \E category \in Categories : AckCategory(category)
  \/ subject = "ai" /\
       \/ Attach
       \/ \E category \in Categories : Consume(category)
       \/ \E category \in {"game", "achievement"}, reference \in References :
            Deliver(category, reference)

Spec == Init /\ [][Next]_vars

----------------------------------------------------------------------------
(* Properties.                                                             *)

\* The revision tells the browser what its badges are worth: a badge of the
\* current revision counts what is unread, whatever responses were overtaken,
\* and the machine was told of everything unread below its watermark; what it is
\* sent counts as told (notifications.py:143-155, 490-532; static/app.js:228-241).
UnreadHonest ==
  /\ latest = revision => badge = Cardinality(Unread)
  /\ \A a \in answers : a.revision = revision => a.count = Cardinality(Unread)
  /\ subject = "ai" => {i \in Unread : i <= watermark} \subseteq told
=============================================================================
