----------------------------- MODULE BubbleComposer -----------------------------
(***************************************************************************)
(* The bubble form of the chart (components/BubbleCreateModal.tsx): a memo *)
(* on a candle, an AI opinion asked for it, with retries, and the save,    *)
(* which makes the bubble and a note of the opinion.  Nothing the form has *)
(* started is cancelled when it is closed, and its state outlives it.      *)
(*                                                                         *)
(* An opening is the form between two resets of its fields; MaxOpenings,   *)
(* MaxAsks and MaxEdits bound the user.  Retries is MAX_AI_RETRIES (2).    *)
(***************************************************************************)
EXTENDS Naturals, FiniteSets

CONSTANTS Retries, MaxOpenings, MaxAsks, MaxEdits, Nothing

BoundAssumption == {Retries, MaxOpenings, MaxAsks, MaxEdits} \subseteq Nat
NothingAssumption == Nothing \notin Nat

VARIABLES
    bubbles,                \* on the server: the opening they were saved from, their opinion's
    open, openings,
    memo, answer,           \* the memo; aiResponse, as the opening it was asked in
    aiLoading, aiError, aiRetryAttempt,
    asks,                   \* questions under way
    submitting, saves,      \* isSubmitting; saves under way
    asked, edits,
    stale, crossed, lost    \* history, see the properties

form == <<open, openings, memo, answer>>
ai == <<aiLoading, aiError, aiRetryAttempt>>
vars == <<bubbles, form, ai, asks, submitting, saves, asked, edits, stale, crossed, lost>>

Openings == 0 .. MaxOpenings

TypeOK ==
    /\ \A b \in bubbles : b.opening \in Openings /\ b.answer \in Openings \cup {Nothing}
    /\ open \in BOOLEAN /\ openings \in Openings
    /\ memo \in {"", "typed", "answer"} /\ answer \in Openings \cup {Nothing}
    /\ aiLoading \in BOOLEAN /\ aiError \in {"", "retrying", "failed"}
    /\ aiRetryAttempt \in 0 .. Retries
    /\ \A a \in asks : a.opening \in Openings /\ a.at \in {"packet", "sent", "backoff"}
    /\ submitting \in BOOLEAN /\ \A v \in saves : v.at \in {"bubble", "note"}
    /\ asked \in 0 .. MaxAsks /\ edits \in 0 .. MaxEdits
    /\ stale \in BOOLEAN /\ crossed \in BOOLEAN /\ lost \in SUBSET Openings

Init ==
    /\ bubbles = {}
    /\ open = FALSE /\ openings = 0 /\ memo = "" /\ answer = Nothing
    /\ aiLoading = FALSE /\ aiError = "" /\ aiRetryAttempt = 0 /\ asks = {}
    /\ submitting = FALSE /\ saves = {}
    /\ asked = 0 /\ edits = 0 /\ stale = FALSE /\ crossed = FALSE /\ lost = {}

-----------------------------------------------------------------------------
(* The form *)

\* Mutant: the opinion is not among the fields.
ResetKeepsAnswer ==
    /\ openings < MaxOpenings /\ openings' = openings + 1
    /\ memo' = "" /\ UNCHANGED answer
    /\ aiLoading' = FALSE /\ aiError' = ""
    /\ stale' = (asks # {}) /\ crossed' = FALSE
    /\ UNCHANGED <<bubbles, aiRetryAttempt, asks, submitting, saves, asked, edits, lost>>

\* The effect that begins the fields anew; a question or save under way goes on.
Reset ==
    /\ openings < MaxOpenings /\ openings' = openings + 1
    /\ memo' = "" /\ answer' = Nothing
    /\ aiLoading' = FALSE /\ aiError' = ""
    /\ stale' = (asks # {}) /\ crossed' = FALSE
    /\ UNCHANGED <<bubbles, aiRetryAttempt, asks, submitting, saves, asked, edits, lost>>

Open == ~ open /\ open' = TRUE /\ Reset

\* The latest price or the timeframe of the chart changes under the form.
DefaultsChange == open /\ UNCHANGED open /\ Reset

Close ==
    /\ open /\ open' = FALSE
    /\ UNCHANGED <<bubbles, openings, memo, answer, ai, asks, submitting, saves, asked, edits,
                   stale, crossed, lost>>

Type ==
    /\ open /\ edits < MaxEdits /\ edits' = edits + 1
    /\ memo' \in {"", "typed"} /\ memo' # memo
    /\ crossed' = (crossed \/ asks # {})
    /\ UNCHANGED <<bubbles, open, openings, answer, ai, asks, submitting, saves, asked, stale, lost>>

-----------------------------------------------------------------------------
(* The opinion *)

\* The button of a form without an opinion, and the one beside an error.
AskOffered == open /\ ~ aiLoading /\ (answer = Nothing \/ aiError # "")

\* First the packet is built (EvidenceOptions).
Ask ==
    /\ AskOffered
    /\ asked < MaxAsks /\ asked' = asked + 1
    /\ aiLoading' = TRUE /\ aiError' = "" /\ aiRetryAttempt' = 0
    /\ asks' = asks \cup {[id |-> asked, opening |-> openings, at |-> "packet", attempt |-> 0, blank |-> memo = ""]}
    /\ UNCHANGED <<bubbles, form, submitting, saves, edits, stale, crossed, lost>>

Become(a, b) == asks' = (asks \ {a}) \cup {b}

\* With a packet or, if it could not be built, without.
PacketDone(a) ==
    /\ a.at = "packet" /\ Become(a, [a EXCEPT !.at = "sent"])
    /\ UNCHANGED <<bubbles, form, ai, submitting, saves, asked, edits, stale, crossed, lost>>

\* The opinion is on the form that is there now; it is the memo if that was empty when it
\* was asked for.  What the error said of a retry stays.
OpinionAnswered(a) ==
    /\ a.at = "sent" /\ asks' = asks \ {a}
    /\ answer' = a.opening
    /\ memo' = IF a.blank THEN "answer" ELSE memo
    /\ aiLoading' = FALSE /\ aiRetryAttempt' = 0
    /\ UNCHANGED <<bubbles, open, openings, aiError, submitting, saves, asked, edits, stale,
                   crossed, lost>>

\* isRetryableAiError: once more after a while.
OpinionFails(a) ==
    /\ a.at = "sent" /\ a.attempt < Retries
    /\ Become(a, [a EXCEPT !.at = "backoff"])
    /\ aiError' = "retrying"
    /\ UNCHANGED <<bubbles, form, aiLoading, aiRetryAttempt, submitting, saves, asked, edits,
                   stale, crossed, lost>>

\* Any other error, or one more than the retries allow.
OpinionRefused(a) ==
    /\ a.at = "sent" /\ asks' = asks \ {a}
    /\ aiLoading' = FALSE /\ aiError' = "failed" /\ aiRetryAttempt' = 0
    /\ UNCHANGED <<bubbles, form, submitting, saves, asked, edits, stale, crossed, lost>>

\* buildRetryBackoff is over.
Retry(a) ==
    /\ a.at = "backoff"
    /\ Become(a, [a EXCEPT !.at = "sent", !.attempt = @ + 1])
    /\ aiRetryAttempt' = a.attempt + 1
    /\ UNCHANGED <<bubbles, form, aiLoading, aiError, submitting, saves, asked, edits, stale,
                   crossed, lost>>

-----------------------------------------------------------------------------
(* The save *)

\* The save takes the opinion of the moment the button is pressed.
Submit ==
    /\ open /\ ~ submitting /\ edits < MaxEdits /\ edits' = edits + 1
    /\ submitting' = TRUE
    /\ saves' = saves \cup {[id |-> edits, opening |-> openings, answer |-> answer, at |-> "bubble"]}
    /\ UNCHANGED <<bubbles, form, ai, asks, asked, stale, crossed, lost>>

\* After the save the form is closed, whichever opening it is in.
Finish(v) ==
    /\ saves' = saves \ {v} /\ submitting' = FALSE /\ open' = FALSE

Made(v) == bubbles' = bubbles \cup {[id |-> v.id, opening |-> v.opening, answer |-> v.answer]}

\* The bubble is made; with an opinion a note of it follows.
BubbleCreated(v) ==
    /\ v.at = "bubble" /\ Made(v)
    /\ IF v.answer = Nothing THEN Finish(v)
       ELSE saves' = (saves \ {v}) \cup {[v EXCEPT !.at = "note"]} /\ UNCHANGED <<submitting, open>>
    /\ UNCHANGED <<openings, memo, answer, ai, asks, asked, edits, stale, crossed, lost>>

\* The note is stored or, unnoticed, not.
NoteDone(v) ==
    /\ v.at = "note" /\ Finish(v)
    /\ UNCHANGED <<bubbles, openings, memo, answer, ai, asks, asked, edits, stale, crossed, lost>>

\* The form stays; the bubble may have been made and only the answer lost.
CreateFails(v) ==
    /\ v.at = "bubble"
    /\ saves' = saves \ {v} /\ submitting' = FALSE
    /\ \/ UNCHANGED <<bubbles, lost>>
       \/ Made(v) /\ lost' = lost \cup {v.opening}
    /\ UNCHANGED <<form, ai, asks, asked, edits, stale, crossed>>

Next ==
    \/ Open \/ DefaultsChange \/ Close \/ Type
    \/ Ask
    \/ \E a \in asks :
        PacketDone(a) \/ OpinionAnswered(a) \/ OpinionFails(a) \/ OpinionRefused(a) \/ Retry(a)
    \/ Submit
    \/ \E v \in saves : BubbleCreated(v) \/ NoteDone(v) \/ CreateFails(v)

Spec == Init /\ [][Next]_vars

\* Servers answer, for better or worse, and timers fire.
Progress(a) ==
    PacketDone(a) \/ OpinionAnswered(a) \/ OpinionFails(a) \/ OpinionRefused(a) \/ Retry(a)
Answering == \E a \in asks : Progress(a)
FairSpec == Spec /\ WF_vars(Answering)

-----------------------------------------------------------------------------
(* Properties *)

\* A bubble is saved with the opinion that was asked for it, unless a question outlived
\* the opening it was asked in.
OwnOpinion ==
    ~ stale => \A v \in saves : v.opening = openings => v.answer \in {v.opening, Nothing}

\* One opening makes one bubble, unless an answer of the server was lost.
OneBubble ==
    \A b, c \in bubbles : b.opening = c.opening /\ b # c => b.opening \in lost

\* There is one question at a time, and the form says so, unless one outlived its opening.
OneQuestion == ~ stale => Cardinality(asks) = IF aiLoading THEN 1 ELSE 0

\* Without an opinion the form says that it retries only while a question is under way.
RetryingIsHonest == aiError = "retrying" /\ answer = Nothing => asks # {}

\* Each opening of the form has a question and a bubble of its own, and says where it stands.
FormIsSound == OwnOpinion /\ OneBubble /\ OneQuestion /\ RetryingIsHonest

\* What the user typed is not replaced by an opinion, unless it was typed while a question
\* was under way or the question was an earlier opening's.
KeepsMemo == memo = "typed" /\ memo' = "answer" => crossed \/ stale
MemoKept == [][KeepsMemo]_vars

\* A question comes to an end.
Asking == aiLoading
AskEnds == Asking ~> ~ Asking
=============================================================================
