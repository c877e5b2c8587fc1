----------------------------- MODULE JournalProofs -----------------------------
(***************************************************************************)
(* Proofs about the screens that show the journal, each by itself.         *)
(***************************************************************************)
EXTENDS JournalParts, Selection, Integers, FiniteSetTheorems, SequenceTheorems, TLAPS

\* A behaviour stays with its part.
LEMMA PartStays == [Next]_vars => part' = part
  BY DEF Next, vars, SessionStep, ListsStep, ImportStep, LibraryStep, TradeListStep,
         EvidenceStep, ComposerStep, NotesStep, SafetyStep

-----------------------------------------------------------------------------
(* The form of a bubble: its evidence *)

\* An edit that leaves the options alone leaves the packet, any other drops it.
LEMMA SetKeepsPreview ==
    ASSUME Evidence!PreviewFits, NEW e, NEW i, NEW sc, NEW sy, Evidence!Set(e, i, sc, sy)
    PROVE  Evidence!PreviewFits'
<1> DEFINE on == e \/ i \cap {"trades", "summary", "bubbles"} # {}
<1>1. CASE <<on, i, sc, sy>> # <<evidence, included, scope, symbols>>
  <2>1. packet' = None
    BY <1>1, Zenon DEF Evidence!Set
  <2> QED
    BY <2>1 DEF Evidence!PreviewFits
<1>2. CASE <<on, i, sc, sy>> = <<evidence, included, scope, symbols>>
  <2>1. /\ evidence' = on /\ included' = i /\ scope' = sc /\ symbols' = sy
        /\ UNCHANGED <<packet, overtaken>>
    BY <1>2, Zenon DEF Evidence!Set
  <2>2. UNCHANGED <<evidence, included, scope, symbols>>
    BY <1>2, <2>1, Zenon
  <2>3. Evidence!Current' = Evidence!Current
    BY <2>2, Zenon DEF Evidence!Current
  <2> QED
    BY <2>1, <2>3 DEF Evidence!PreviewFits
<1> QED
  BY <1>1, <1>2

\* What a form shows of the evidence follows every step of its options.
LEMMA PreviewKept ==
    ASSUME Evidence!PreviewFits, [Evidence!Next]_Evidence!vars
    PROVE  Evidence!PreviewFits'
<1>1. ASSUME Evidence!Reset PROVE Evidence!PreviewFits'
  BY <1>1 DEF Evidence!Reset, Evidence!PreviewFits
<1>2. ASSUME UNCHANGED <<Evidence!options, packet, overtaken>> PROVE Evidence!PreviewFits'
  <2>1. Evidence!Current' = Evidence!Current
    BY <1>2, Zenon DEF Evidence!options, Evidence!Current
  <2> QED
    BY <1>2, <2>1 DEF Evidence!PreviewFits
<1>3. CASE Evidence!Open \/ Evidence!DefaultsChange
  BY <1>1, <1>3 DEF Evidence!Open, Evidence!DefaultsChange
<1>4. CASE Evidence!Close
  BY <1>2, <1>4, Zenon DEF Evidence!Close
<1>5. CASE Evidence!ToggleEvidence
  BY <1>5, SetKeepsPreview, Zenon DEF Evidence!ToggleEvidence
<1>6. CASE \E p \in Evidence!Parts : Evidence!TogglePart(p)
  BY <1>6, SetKeepsPreview, Zenon DEF Evidence!TogglePart
<1>7. CASE \E p \in Evidence!Presets : Evidence!PickPreset(p)
  BY <1>7, SetKeepsPreview, Zenon DEF Evidence!PickPreset
<1>8. CASE \E s \in Evidence!Scopes : Evidence!PickScope(s)
  BY <1>8, SetKeepsPreview, Zenon DEF Evidence!PickScope
<1>9. CASE \E s \in {"current", "all"} : Evidence!PickSymbols(s)
  BY <1>9, SetKeepsPreview, Zenon DEF Evidence!PickSymbols
<1>10. CASE Evidence!BuildPreview \/ Evidence!BuildForQuestion
  BY <1>2, <1>10, Zenon DEF Evidence!BuildPreview, Evidence!BuildForQuestion, Evidence!Build
<1>11. CASE \E b \in builds : Evidence!BuildAnswered(b) \/ Evidence!BuildFails(b)
  <2>1. PICK b \in builds : Evidence!BuildAnswered(b) \/ Evidence!BuildFails(b)
    BY <1>11
  <2>2. CASE Evidence!BuildAnswered(b)
    <3>1. packet' = b.packet /\ (~ overtaken' => b.packet = Evidence!Current) /\
            UNCHANGED Evidence!options
      BY <2>2, Zenon DEF Evidence!BuildAnswered
    <3>2. Evidence!Current' = Evidence!Current
      BY <3>1, Zenon DEF Evidence!options, Evidence!Current
    <3> QED
      BY <3>1, <3>2 DEF Evidence!PreviewFits
  <2>3. CASE Evidence!BuildFails(b)
    BY <1>2, <2>3, Zenon DEF Evidence!BuildFails
  <2> QED
    BY <2>1, <2>2, <2>3
<1>12. CASE UNCHANGED Evidence!vars
  BY <1>2, <1>12, Zenon DEF Evidence!vars
<1> QED
  BY <1>3, <1>4, <1>5, <1>6, <1>7, <1>8, <1>9, <1>10, <1>11, <1>12, Zenon DEF Evidence!Next

-----------------------------------------------------------------------------
(* The form of a bubble: its question and its save *)

Asks ==
    [id : Nat, opening : Nat, at : {"packet", "sent", "backoff"}, attempt : Nat,
     blank : BOOLEAN]
Saves == [id : Nat, opening : Nat, answer : Nat \cup {None}, at : {"bubble", "note"}]

FormTypes ==
    /\ openings \in Nat /\ asked \in Nat /\ edits \in Nat /\ answer \in Nat \cup {None}
    /\ asks \subseteq Asks /\ saves \subseteq Saves
    /\ \A b \in bubbles : b.opening \in Nat

\* Unless one is stale, there is the question the form says there is, of this opening.
OneAsk ==
    /\ ~ stale => \A a \in asks : a.opening = openings
    /\ ~ stale /\ aiLoading => \E a \in asks : asks = {a}
    /\ ~ stale /\ ~ aiLoading => asks = {}
    /\ ~ stale => answer \in {openings, None}
    /\ Composer!RetryingIsHonest

\* A save is of an opening that has no bubble yet, and a bubble closes the opening.
OneSave ==
    /\ \A v, w \in saves : v = w
    /\ submitting => saves # {}
    /\ saves # {} => submitting
    /\ \A v \in saves : v.opening <= openings
    /\ \A v \in saves : v.at = "bubble" => \A b \in bubbles : b.opening < v.opening \/
         b.opening \in lost
    /\ \A b \in bubbles : /\ b.opening <= openings
                          /\ b.opening = openings /\ open /\ ~ submitting => b.opening \in lost
    /\ Composer!OneBubble

FormInvariant == FormTypes /\ OneAsk /\ OneSave /\ Composer!OwnOpinion

\* An ask that goes on is an ask of the same opening.
LEMMA AskMoves ==
    ASSUME NEW a \in Asks, NEW b,
           \/ b = [a EXCEPT !.at = "sent"]
           \/ b = [a EXCEPT !.at = "backoff"]
           \/ b = [a EXCEPT !.at = "sent", !.attempt = @ + 1]
    PROVE  b \in Asks /\ b.opening = a.opening
<1>1. CASE b = [a EXCEPT !.at = "sent"]
  BY <1>1 DEF Asks
<1>2. CASE b = [a EXCEPT !.at = "backoff"]
  BY <1>2 DEF Asks
<1>3. CASE b = [a EXCEPT !.at = "sent", !.attempt = @ + 1]
  <2>1. PICK c : c = [a EXCEPT !.at = "sent"]
    OBVIOUS
  <2>2. c \in Asks /\ c.opening = a.opening /\ c.attempt = a.attempt
    BY <2>1 DEF Asks
  <2>3. b = [c EXCEPT !.attempt = a.attempt + 1]
    BY <1>3, <2>1, Zenon
  <2> QED
    BY <2>2, <2>3 DEF Asks
<1> QED
  BY <1>1, <1>2, <1>3

\* The fields begin anew.
LEMMA ResetKeeps ==
    ASSUME FormAssumption, FormInvariant, Composer!Reset
    PROVE  FormInvariant'
<1>1. /\ answer' = None /\ ~ aiLoading' /\ aiError' = ""
      /\ asks # {} => stale'
      /\ UNCHANGED <<bubbles, asks, submitting, saves, asked, edits, lost>>
  BY Zenon DEF Composer!Reset
<1>0. openings \in Nat
  BY DEF FormInvariant, FormTypes
<1>11. openings' = openings + 1
  BY Zenon DEF Composer!Reset
<1>8. openings' \in Nat /\ openings < openings'
  BY <1>0, <1>11
<1>2. FormTypes'
  BY <1>1, <1>8 DEF FormInvariant, FormTypes
<1>3. OneAsk'
  <2>1. ~ stale' => asks' = {}
    BY <1>1
  <2> QED
    BY <1>1, <2>1 DEF OneAsk, Composer!RetryingIsHonest
<1>9. \A v \in saves : v.opening \in Nat /\ v.opening <= openings
  BY DEF FormInvariant, FormTypes, OneSave, Saves
<1>4. \A v \in saves : v.opening < openings'
  BY <1>0, <1>8, <1>9
<1>10. \A b \in bubbles : b.opening \in Nat /\ b.opening <= openings
  BY DEF FormInvariant, FormTypes, OneSave
<1>5. \A b \in bubbles : b.opening < openings'
  BY <1>0, <1>8, <1>10
<1>12. UNCHANGED <<bubbles, submitting, saves, lost>>
  BY <1>1
<1>13. \A v \in saves : v.opening <= openings'
  BY <1>4, <1>8, <1>9
<1>14. \A v \in saves : v.opening # openings'
  BY <1>4, <1>8, <1>9
<1>15. \A b \in bubbles : b.opening <= openings' /\ b.opening # openings'
  BY <1>5, <1>8, <1>10
<1>6. OneSave'
  <2>1. Composer!OneBubble'
    BY <1>1 DEF FormInvariant, OneSave, Composer!OneBubble
  <2> QED
    BY <1>12, <1>13, <1>14, <1>15, <2>1 DEF FormInvariant, OneSave
<1>7. Composer!OwnOpinion'
  BY <1>12, <1>14 DEF Composer!OwnOpinion
<1> QED
  BY <1>2, <1>3, <1>6, <1>7 DEF FormInvariant

\* A question, however it goes on, leaves the save alone.
LEMMA SaveStays ==
    ASSUME FormInvariant,
           UNCHANGED <<bubbles, open, openings, submitting, saves, edits, stale, lost>>,
           asked' \in Nat, answer' \in Nat \cup {None}, asks' \subseteq Asks, OneAsk'
    PROVE  FormInvariant'
<1>1. FormTypes'
  BY DEF FormInvariant, FormTypes
<1>2. Composer!OneBubble' /\ Composer!OwnOpinion'
  BY DEF FormInvariant, OneSave, Composer!OneBubble, Composer!OwnOpinion
<1>3. OneSave'
  BY <1>2 DEF FormInvariant, OneSave
<1> QED
  BY <1>1, <1>2, <1>3 DEF FormInvariant

\* A new ask leaves the opinion of the opening what it is.
LEMMA AskKeeps ==
    ASSUME FormAssumption, FormInvariant, Composer!Ask
    PROVE  FormInvariant'
<1>1. /\ ~ aiLoading /\ aiLoading' = TRUE /\ aiError' = "" /\ asked' = asked + 1
      /\ UNCHANGED <<bubbles, open, openings, answer, submitting, saves, edits, stale, lost>>
  BY Zenon DEF Composer!Ask, Composer!AskOffered, Composer!form
<1>2. PICK r \in BOOLEAN : r = (memo = "")
  OBVIOUS
<1>3. PICK a : a = [id |-> asked, opening |-> openings, at |-> "packet", attempt |-> 0,
             blank |-> r]
  OBVIOUS
<1>4. asks' = asks \cup {a}
  BY <1>2, <1>3, Zenon DEF Composer!Ask
<1>5. a \in Asks /\ a.opening = openings
  BY <1>3 DEF FormInvariant, FormTypes, Asks
<1>6. asks' \subseteq Asks
  BY <1>4, <1>5 DEF FormInvariant, FormTypes
<1>7. OneAsk'
  <2>1. ~ stale' => asks' = {a}
    BY <1>1, <1>4 DEF FormInvariant, OneAsk
  <2> QED
    BY <1>1, <1>5, <2>1 DEF FormInvariant, OneAsk, Composer!RetryingIsHonest
<1>8. answer \in Nat \cup {None} /\ asked \in Nat
  BY DEF FormInvariant, FormTypes
<1>9. asked + 1 \in Nat
  BY <1>8
<1>10. asked' \in Nat /\ answer' \in Nat \cup {None}
  BY <1>1, <1>8, <1>9
<1> QED
  BY <1>1, <1>6, <1>7, <1>10, SaveStays

\* A question goes on: sent, waiting, sent again.
LEMMA MoveKeeps ==
    ASSUME FormAssumption, FormInvariant, NEW a \in asks,
           Composer!PacketDone(a) \/ Composer!OpinionFails(a) \/ Composer!Retry(a)
    PROVE  FormInvariant'
<1>1. PICK b : /\ Composer!Become(a, b)
               /\ \/ b = [a EXCEPT !.at = "sent"]
                  \/ b = [a EXCEPT !.at = "backoff"]
                  \/ b = [a EXCEPT !.at = "sent", !.attempt = @ + 1]
  BY Zenon DEF Composer!PacketDone, Composer!OpinionFails, Composer!Retry
<1>2. /\ aiLoading' = aiLoading
      /\ UNCHANGED <<bubbles, open, openings, answer, submitting, saves, asked, edits, stale,
           lost>>
  BY Zenon
     DEF Composer!PacketDone, Composer!OpinionFails, Composer!Retry, Composer!form,
         Composer!ai
<1>3. a \in Asks
  BY DEF FormInvariant, FormTypes
<1>4. b \in Asks /\ b.opening = a.opening
  BY <1>1, <1>3, AskMoves, Zenon
<1>5. asks' = (asks \ {a}) \cup {b}
  BY <1>1 DEF Composer!Become
<1>6. asks' \subseteq Asks
  BY <1>4, <1>5 DEF FormInvariant, FormTypes
<1>7. OneAsk'
  <2>1. ~ stale => aiLoading /\ asks' = {b} /\ b.opening = openings
    BY <1>4, <1>5 DEF FormInvariant, OneAsk
  <2>2. asks' # {}
    BY <1>5
  <2> QED
    BY <1>2, <2>1, <2>2 DEF FormInvariant, OneAsk, Composer!RetryingIsHonest
<1> QED
  BY <1>2, <1>6, <1>7, SaveStays DEF FormInvariant, FormTypes

\* A question ends: with an opinion, or an error that is not retried.
LEMMA EndKeeps ==
    ASSUME FormAssumption, FormInvariant, NEW a \in asks,
           Composer!OpinionAnswered(a) \/ Composer!OpinionRefused(a)
    PROVE  FormInvariant'
<1>1. /\ asks' = asks \ {a} /\ aiLoading' = FALSE
      /\ UNCHANGED <<bubbles, open, openings, submitting, saves, asked, edits, stale, lost>>
  BY Zenon DEF Composer!OpinionAnswered, Composer!OpinionRefused, Composer!form
<1>2. answer' = a.opening \/ (answer' = answer /\ aiError' = "failed")
  BY Zenon DEF Composer!OpinionAnswered, Composer!OpinionRefused, Composer!form
<1>3. a.opening \in Nat /\ a.opening # None
  BY DEF FormInvariant, FormTypes, Asks, FormAssumption, Composer!NothingAssumption
<1>4. OneAsk'
  <2>1. ~ stale => asks' = {} /\ a.opening = openings
    BY <1>1 DEF FormInvariant, OneAsk
  <2>2. ~ stale' => answer' \in {openings', None}
    BY <1>1, <1>2, <2>1 DEF FormInvariant, OneAsk
  <2>3. Composer!RetryingIsHonest'
    BY <1>2, <1>3 DEF Composer!RetryingIsHonest
  <2> QED
    BY <1>1, <2>1, <2>2, <2>3 DEF OneAsk
<1>5. asks' \subseteq Asks /\ answer' \in Nat \cup {None} /\ asked' \in Nat
  BY <1>1, <1>2, <1>3 DEF FormInvariant, FormTypes
<1> QED
  BY <1>1, <1>4, <1>5, SaveStays

\* A step of the save leaves the question alone.
LEMMA AskStays ==
    ASSUME FormInvariant, UNCHANGED <<openings, answer, aiLoading, aiError, asks, asked, stale>>,
           edits' \in Nat, saves' \subseteq Saves, \A b \in bubbles' : b.opening \in Nat,
           OneSave', Composer!OwnOpinion'
    PROVE  FormInvariant'
<1>1. FormTypes'
  BY DEF FormInvariant, FormTypes
<1>2. OneAsk'
  BY DEF FormInvariant, OneAsk, Composer!RetryingIsHonest
<1> QED
  BY <1>1, <1>2 DEF FormInvariant

\* The button: the opening has no bubble, or one whose answer was lost.
LEMMA SubmitKeeps ==
    ASSUME FormAssumption, FormInvariant, Composer!Submit
    PROVE  FormInvariant'
<1>1. PICK v : v = [id |-> edits, opening |-> openings, answer |-> answer, at |-> "bubble"]
  OBVIOUS
<1>2. /\ open /\ ~ submitting /\ submitting' /\ saves' = saves \cup {v}
      /\ UNCHANGED <<bubbles, open, openings, answer, aiLoading, aiError, asks, asked, stale,
           lost>>
  BY <1>1, Zenon DEF Composer!Submit, Composer!form, Composer!ai
<1>3. edits' = edits + 1
  BY Zenon DEF Composer!Submit
<1>4. /\ edits \in Nat /\ openings \in Nat /\ answer \in Nat \cup {None} /\ saves = {}
      /\ \A b \in bubbles : b.opening \in Nat
  BY <1>2 DEF FormInvariant, FormTypes, OneSave
<1>5. edits' \in Nat /\ v \in Saves /\ v.opening = openings /\ v.answer = answer /\
        v.at = "bubble"
  BY <1>1, <1>3, <1>4 DEF Saves
<1>6. saves' = {v}
  BY <1>2, <1>4
<1>7. Composer!OwnOpinion'
  BY <1>2, <1>5, <1>6 DEF FormInvariant, OneAsk, Composer!OwnOpinion
<1>8. \A b \in bubbles : b.opening < v.opening \/ b.opening \in lost
  BY <1>2, <1>4, <1>5 DEF FormInvariant, OneSave
<1>9. Composer!OneBubble'
  BY <1>2 DEF FormInvariant, OneSave, Composer!OneBubble
<1>10. OneSave'
  BY <1>2, <1>4, <1>5, <1>6, <1>8, <1>9 DEF FormInvariant, OneSave
<1> QED
  BY <1>2, <1>4, <1>5, <1>6, <1>7, <1>10, AskStays

\* The bubble a save makes: the others of its opening were lost.
LEMMA MadeKeeps ==
    ASSUME FormAssumption, FormInvariant, NEW v \in saves, v.at = "bubble", Composer!Made(v),
           lost' \in {lost, lost \cup {v.opening}}
    PROVE  /\ \A b \in bubbles' : b.opening \in Nat /\ b.opening <= openings
           /\ \A b \in bubbles' : b.opening < v.opening \/ b.opening = v.opening \/
                b.opening \in lost
           /\ \A b \in bubbles' : b.opening = openings => b.opening = v.opening \/
                b.opening \in lost
           /\ Composer!OneBubble'
<1>1. PICK c : c = [id |-> v.id, opening |-> v.opening, answer |-> v.answer]
  OBVIOUS
<1>2. bubbles' = bubbles \cup {c} /\ c.opening = v.opening
  BY <1>1, Zenon DEF Composer!Made
<1>3. /\ v.opening \in Nat /\ v.opening <= openings /\ openings \in Nat
      /\ \A b \in bubbles : /\ b.opening \in Nat /\ b.opening <= openings
                            /\ b.opening < v.opening \/ b.opening \in lost
  BY DEF FormInvariant, FormTypes, OneSave, Saves
<1>4. Composer!OneBubble'
  BY <1>2, <1>3 DEF FormInvariant, OneSave, Composer!OneBubble
<1> QED
  BY <1>2, <1>3, <1>4

\* The answer to a save, for better or worse, or the end of its note.
LEMMA SaveKeeps ==
    ASSUME FormAssumption, FormInvariant, NEW v \in saves,
           Composer!BubbleCreated(v) \/ Composer!NoteDone(v) \/ Composer!CreateFails(v)
    PROVE  FormInvariant'
<1>0. UNCHANGED <<openings, answer, aiLoading, aiError, asks, asked, edits, stale>>
  BY Zenon
     DEF Composer!BubbleCreated, Composer!NoteDone, Composer!CreateFails, Composer!ai,
         Composer!form
<1>1. /\ saves = {v} /\ v \in Saves /\ submitting /\ v.opening \in Nat /\ openings \in Nat
      /\ edits \in Nat /\ \A b \in bubbles : b.opening \in Nat
  BY DEF FormInvariant, FormTypes, OneSave, Saves
<1>2. ASSUME saves' = saves \ {v}, ~ submitting',
             \A b \in bubbles' : /\ b.opening \in Nat /\ b.opening <= openings
                                 /\ b.opening = openings /\ open' => b.opening \in lost',
             Composer!OneBubble'
      PROVE  FormInvariant'
  <2>1. saves' = {}
    BY <1>1, <1>2
  <2>2. OneSave' /\ Composer!OwnOpinion'
    BY <1>0, <1>2, <2>1 DEF OneSave, Composer!OwnOpinion
  <2> QED
    BY <1>0, <1>1, <1>2, <2>1, <2>2, AskStays
<1>3. CASE Composer!BubbleCreated(v)
  <2>1. v.at = "bubble" /\ Composer!Made(v) /\ lost' = lost
    BY <1>3, Zenon DEF Composer!BubbleCreated
  <2>2. /\ \A b \in bubbles' : b.opening \in Nat /\ b.opening <= openings
        /\ \A b \in bubbles' : b.opening < v.opening \/ b.opening = v.opening \/
             b.opening \in lost
        /\ \A b \in bubbles' : b.opening = openings => b.opening = v.opening \/ b.opening \in lost
        /\ Composer!OneBubble'
    BY <2>1, MadeKeeps, Zenon
  <2>3. CASE v.answer = None
    <3>1. saves' = saves \ {v} /\ ~ submitting' /\ ~ open'
      BY <1>3, <2>3, Zenon DEF Composer!BubbleCreated, Composer!Finish
    <3> QED
      BY <1>2, <2>2, <3>1
  <2>4. CASE v.answer # None
    <3>1. PICK w : w = [v EXCEPT !.at = "note"]
      OBVIOUS
    <3>2. saves' = (saves \ {v}) \cup {w} /\ submitting' = submitting /\ open' = open
      BY <1>3, <2>4, <3>1, Zenon DEF Composer!BubbleCreated
    <3>3. w \in Saves /\ w.opening = v.opening /\ w.answer = v.answer /\ w.at = "note"
      BY <1>1, <3>1 DEF Saves
    <3>4. saves' = {w} /\ submitting'
      BY <1>1, <3>2
    <3>5. Composer!OwnOpinion'
      BY <1>0, <3>3, <3>4 DEF FormInvariant, Composer!OwnOpinion
    <3>6. w.opening <= openings /\ openings' = openings
      BY <1>0, <3>3 DEF FormInvariant, OneSave
    <3>7. OneSave'
      BY <2>2, <3>3, <3>4, <3>6 DEF OneSave
    <3>8. saves' \subseteq Saves
      BY <3>3, <3>4
    <3> QED
      BY <1>0, <1>1, <2>2, <3>5, <3>7, <3>8, AskStays
  <2> QED
    BY <2>3, <2>4
<1>4. CASE Composer!NoteDone(v)
  <2>1. saves' = saves \ {v} /\ ~ submitting' /\ ~ open' /\ UNCHANGED <<bubbles, lost>>
    BY <1>4, Zenon DEF Composer!NoteDone, Composer!Finish
  <2>2. Composer!OneBubble'
    BY <2>1 DEF FormInvariant, OneSave, Composer!OneBubble
  <2>3. \A b \in bubbles' : /\ b.opening \in Nat /\ b.opening <= openings
                            /\ b.opening = openings /\ open' => b.opening \in lost'
    BY <1>1, <2>1 DEF FormInvariant, OneSave
  <2> QED
    BY <1>2, <2>1, <2>2, <2>3
<1>5. CASE Composer!CreateFails(v)
  <2>1. v.at = "bubble" /\ saves' = saves \ {v} /\ ~ submitting' /\ open' = open
    BY <1>5, Zenon DEF Composer!CreateFails, Composer!form
  <2>2. CASE UNCHANGED <<bubbles, lost>>
    <3>1. Composer!OneBubble'
      BY <2>2 DEF FormInvariant, OneSave, Composer!OneBubble
    <3>2. \A b \in bubbles' : /\ b.opening \in Nat /\ b.opening <= openings
                              /\ b.opening = openings /\ open' => b.opening \in lost'
      BY <1>1, <2>1, <2>2 DEF FormInvariant, OneSave
    <3> QED
      BY <1>2, <2>1, <3>1, <3>2
  <2>3. CASE Composer!Made(v) /\ lost' = lost \cup {v.opening}
    <3>1. /\ \A b \in bubbles' : b.opening \in Nat /\ b.opening <= openings
          /\ \A b \in bubbles' : b.opening = openings => b.opening = v.opening \/
               b.opening \in lost
          /\ Composer!OneBubble'
      BY <2>1, <2>3, MadeKeeps
    <3>2. \A b \in bubbles' : b.opening = openings => b.opening \in lost'
      BY <2>3, <3>1
    <3> QED
      BY <1>2, <2>1, <3>1, <3>2
  <2> QED
    BY <1>5, <2>2, <2>3, Zenon DEF Composer!CreateFails
<1> QED
  BY <1>3, <1>4, <1>5

\* Every step of the form keeps the invariant.
LEMMA FormKept ==
    ASSUME FormAssumption, FormInvariant, [Composer!Next]_Composer!vars
    PROVE  FormInvariant'
<1>1. CASE Composer!Open \/ Composer!DefaultsChange
  BY <1>1, ResetKeeps DEF Composer!Open, Composer!DefaultsChange
<1>2. ASSUME UNCHANGED <<bubbles, openings, answer, aiLoading, aiError, asks, asked, submitting,
                         saves, stale, lost>>,
             edits' \in Nat, open' => open
      PROVE  FormInvariant'
  <2>1. Composer!OneBubble' /\ Composer!OwnOpinion'
    BY <1>2 DEF FormInvariant, OneSave, Composer!OneBubble, Composer!OwnOpinion
  <2>2. OneSave'
    BY <1>2, <2>1 DEF FormInvariant, OneSave
  <2>3. saves' \subseteq Saves /\ \A b \in bubbles' : b.opening \in Nat
    BY <1>2 DEF FormInvariant, FormTypes
  <2> QED
    BY <1>2, <2>1, <2>2, <2>3, AskStays
<1>3. edits \in Nat
  BY DEF FormInvariant, FormTypes
<1>4. CASE Composer!Close
  <2>1. /\ UNCHANGED <<bubbles, openings, answer, aiLoading, aiError, asks, asked, submitting,
                       saves, stale, lost, edits>>
        /\ ~ open'
    BY <1>4, Zenon DEF Composer!Close, Composer!ai
  <2> QED
    BY <1>2, <1>3, <2>1
<1>5. CASE Composer!Type
  <2>1. /\ UNCHANGED <<bubbles, openings, answer, aiLoading, aiError, asks, asked, submitting,
                       saves, stale, lost, open>>
    BY <1>5, Zenon DEF Composer!Type, Composer!ai
  <2>2. edits' = edits + 1
    BY <1>5, Zenon DEF Composer!Type
  <2>3. edits' \in Nat
    BY <1>3, <2>2
  <2> QED
    BY <1>2, <2>1, <2>3
<1>6. CASE Composer!Ask
  BY <1>6, AskKeeps
<1>7. CASE \E a \in asks : \/ Composer!PacketDone(a) \/ Composer!OpinionAnswered(a)
                           \/ Composer!OpinionFails(a) \/ Composer!OpinionRefused(a)
                           \/ Composer!Retry(a)
  BY <1>7, MoveKeeps, EndKeeps, Zenon
<1>8. CASE Composer!Submit
  BY <1>8, SubmitKeeps
<1>9. CASE \E v \in saves : \/ Composer!BubbleCreated(v) \/ Composer!NoteDone(v)
                            \/ Composer!CreateFails(v)
  BY <1>9, SaveKeeps, Zenon
<1>10. CASE UNCHANGED Composer!vars
  <2>1. /\ UNCHANGED <<bubbles, openings, answer, aiLoading, aiError, asks, asked, submitting,
                       saves, stale, lost, open, edits>>
    BY <1>10, Zenon DEF Composer!vars, Composer!form, Composer!ai
  <2> QED
    BY <1>2, <1>3, <2>1
<1> QED
  BY <1>1, <1>4, <1>5, <1>6, <1>7, <1>8, <1>9, <1>10, Zenon DEF Composer!Next

\* The invariant says what is checked of the form.
LEMMA FormSound == FormAssumption /\ FormInvariant => Composer!FormIsSound
<1> SUFFICES ASSUME FormAssumption, FormInvariant PROVE Composer!FormIsSound
  OBVIOUS
<1>1. Composer!OneQuestion
  <2>1. CASE stale
    BY <2>1 DEF Composer!OneQuestion
  <2>2. CASE ~ stale /\ aiLoading
    <3>1. PICK a : asks = {a}
      BY <2>2 DEF FormInvariant, OneAsk
    <3>2. Composer!Cardinality(asks) = 1
      <4>1. Cardinality({a}) = 1
        BY FS_Singleton
      <4> QED
        BY <3>1, <4>1 DEF Composer!Cardinality, Cardinality
    <3> QED
      BY <2>2, <3>2 DEF Composer!OneQuestion
  <2>3. CASE ~ stale /\ ~ aiLoading
    <3>1. asks = {}
      BY <2>3 DEF FormInvariant, OneAsk
    <3>2. Composer!Cardinality(asks) = 0
      <4>1. Cardinality({}) = 0
        BY FS_EmptySet
      <4> QED
        BY <3>1, <4>1 DEF Composer!Cardinality, Cardinality
    <3> QED
      BY <2>3, <3>2 DEF Composer!OneQuestion
  <2> QED
    BY <2>1, <2>2, <2>3
<1> QED
  BY <1>1 DEF FormInvariant, OneAsk, OneSave, Composer!FormIsSound

\* A form that was never opened keeps the invariant.
LEMMA FormInvariantInit == ASSUME Composer!Init PROVE FormInvariant
<1>1. /\ openings = 0 /\ asked = 0 /\ edits = 0 /\ answer = None /\ asks = {} /\ saves = {}
      /\ bubbles = {} /\ ~ aiLoading /\ ~ submitting /\ aiError = ""
  BY Zenon DEF Composer!Init
<1>2. FormTypes
  BY <1>1 DEF FormTypes
<1>3. OneAsk
  BY <1>1 DEF OneAsk, Composer!RetryingIsHonest
<1>4. OneSave /\ Composer!OwnOpinion
  BY <1>1 DEF OneSave, Composer!OneBubble, Composer!OwnOpinion
<1> QED
  BY <1>2, <1>3, <1>4 DEF FormInvariant

\* The memo the user typed is not one that a question under way would replace.
MemoIsSafe == memo = "typed" /\ ~ crossed /\ ~ stale => \A a \in asks : ~ a.blank

\* No answer takes a memo away that was typed, and what is said of the memo stays so.
LEMMA MemoSafe ==
    ASSUME FormTypes, MemoIsSafe, [Composer!Next]_Composer!vars
    PROVE  MemoIsSafe' /\ Composer!KeepsMemo
<1>1. asks \subseteq Asks /\ "typed" # "" /\ "typed" # "answer"
  BY DEF FormTypes
<1>2. ASSUME UNCHANGED <<memo, crossed, stale>>, \A b \in asks' : b \in asks \/ \E a \in asks :
               b.blank = a.blank
      PROVE  MemoIsSafe' /\ Composer!KeepsMemo
  <2>1. Composer!KeepsMemo
    BY <1>1, <1>2 DEF Composer!KeepsMemo
  <2>2. MemoIsSafe'
    BY <1>2, Zenon DEF MemoIsSafe
  <2> QED
    BY <2>1, <2>2
<1>3. CASE Composer!Open \/ Composer!DefaultsChange
  <2>1. memo' = ""
    BY <1>3, Zenon DEF Composer!Open, Composer!DefaultsChange, Composer!Reset
  <2> QED
    BY <2>1 DEF MemoIsSafe, Composer!KeepsMemo
<1>4. CASE Composer!Type
  <2>1. memo' \in {"", "typed"} /\ asks' = asks /\ (crossed' <=> crossed \/ asks # {})
    BY <1>4, Zenon DEF Composer!Type, Composer!ai
  <2> QED
    BY <2>1 DEF MemoIsSafe, Composer!KeepsMemo
<1>5. CASE Composer!Ask
  <2> DEFINE b == [id |-> asked, opening |-> openings, at |-> "packet", attempt |-> 0,
        blank |-> memo = ""]
  <2>1. UNCHANGED <<memo, crossed, stale>> /\ asks' = asks \cup {b}
    BY <1>5, Zenon DEF Composer!Ask, Composer!form
  <2>2. memo = "typed" => ~ b.blank
    BY <1>1
  <2> HIDE DEF b
  <2>3. MemoIsSafe'
    BY <2>1, <2>2, Zenon DEF MemoIsSafe
  <2> QED
    BY <1>1, <2>1, <2>3 DEF Composer!KeepsMemo
<1>6. CASE \E a \in asks : Composer!PacketDone(a) \/ Composer!OpinionFails(a) \/ Composer!Retry(a)
  <2>1. PICK a \in asks : Composer!PacketDone(a) \/ Composer!OpinionFails(a) \/ Composer!Retry(a)
    BY <1>6
  <2>2. UNCHANGED <<memo, crossed, stale>>
    BY <2>1, Zenon DEF Composer!PacketDone, Composer!OpinionFails, Composer!Retry, Composer!form
  <2>3. PICK b : /\ Composer!Become(a, b)
                 /\ \/ b = [a EXCEPT !.at = "sent"]
                    \/ b = [a EXCEPT !.at = "backoff"]
                    \/ b = [a EXCEPT !.at = "sent", !.attempt = @ + 1]
    BY <2>1, Zenon DEF Composer!PacketDone, Composer!OpinionFails, Composer!Retry
  <2>4. b.blank = a.blank
    <3>1. a = [id |-> a.id, opening |-> a.opening, at |-> a.at, attempt |-> a.attempt,
            blank |-> a.blank]
      BY <1>1 DEF Asks
    <3> QED
      BY <2>3, <3>1
  <2> QED
    BY <1>2, <2>2, <2>3, <2>4, Zenon DEF Composer!Become
<1>7. CASE \E a \in asks : Composer!OpinionAnswered(a)
  <2>1. PICK a \in asks : Composer!OpinionAnswered(a)
    BY <1>7
  <2>2. /\ asks' = asks \ {a} /\ UNCHANGED <<crossed, stale>>
        /\ memo' = IF a.blank THEN "answer" ELSE memo
    BY <2>1, Zenon DEF Composer!OpinionAnswered
  <2>3. Composer!KeepsMemo
    BY <1>1, <2>2 DEF MemoIsSafe, Composer!KeepsMemo
  <2>4. MemoIsSafe'
    BY <1>1, <2>2 DEF MemoIsSafe
  <2> QED
    BY <2>3, <2>4
<1>8. CASE \E a \in asks : Composer!OpinionRefused(a)
  <2>1. asks' \subseteq asks /\ UNCHANGED <<memo, crossed, stale>>
    BY <1>8, Zenon DEF Composer!OpinionRefused, Composer!form
  <2> QED
    BY <1>2, <2>1
<1>9. CASE Composer!Close
  BY <1>2, <1>9, Zenon DEF Composer!Close
<1>10. CASE Composer!Submit
  BY <1>2, <1>10, Zenon DEF Composer!Submit, Composer!form
<1>11. CASE \E v \in saves : \/ Composer!BubbleCreated(v) \/ Composer!NoteDone(v)
                             \/ Composer!CreateFails(v)
  BY <1>2, <1>11, Zenon
     DEF Composer!BubbleCreated, Composer!NoteDone, Composer!CreateFails, Composer!form
<1>12. CASE UNCHANGED Composer!vars
  <2>1. UNCHANGED <<memo, crossed, stale, asks>>
    BY <1>12, Zenon DEF Composer!vars, Composer!form
  <2> QED
    BY <1>2, <2>1
<1> QED
  BY <1>3, <1>4, <1>5, <1>6, <1>7, <1>8, <1>9, <1>10, <1>11, <1>12, Zenon DEF Composer!Next

-----------------------------------------------------------------------------
(* The notes *)

\* A finite set of numbers has a k-th smallest one, for every k up to its size.
LEMMA NthIs ==
    ASSUME NEW n \in Nat, NEW S \in SUBSET (1 .. n)
    PROVE  /\ IsFiniteSet(S) /\ Cardinality(S) \in 0 .. n
           /\ \A k \in 1 .. Cardinality(S) :
                 Nth(S, k) \in S /\ Cardinality({j \in S : j <= Nth(S, k)}) = k
           /\ \A i \in S : \E k \in 1 .. Cardinality(S) : Nth(S, k) = i
<1> DEFINE Upto(i) == {j \in S : j <= i}
           T == 1 .. Cardinality(S)
           f == [i \in S |-> Cardinality(Upto(i))]
<1>1. IsFiniteSet(1 .. n) /\ Cardinality(1 .. n) = n
  BY FS_Interval
<1>2. IsFiniteSet(S) /\ Cardinality(S) \in 0 .. n
  <2>1. IsFiniteSet(S) /\ Cardinality(S) <= Cardinality(1 .. n)
    BY <1>1, FS_Subset
  <2>2. Cardinality(S) \in Nat
    BY <2>1, FS_CardinalityType
  <2> QED
    BY <1>1, <2>1, <2>2
<1>3. IsFiniteSet(T) /\ Cardinality(T) = Cardinality(S)
  BY <1>2, FS_Interval
<1>4. \A i \in S : /\ IsFiniteSet(Upto(i)) /\ Cardinality(Upto(i)) \in T
  <2> TAKE i \in S
  <2>1. IsFiniteSet(Upto(i)) /\ Cardinality(Upto(i)) <= Cardinality(S)
    BY <1>2, FS_Subset
  <2>2. Upto(i) # {}
    OBVIOUS
  <2>3. Cardinality(Upto(i)) \in Nat \ {0}
    BY <2>1, <2>2, FS_CardinalityType, FS_EmptySet
  <2> QED
    BY <1>2, <2>1, <2>3
<1>5. \A i, j \in S : Cardinality(Upto(i)) = Cardinality(Upto(j)) => i = j
  <2>1. ASSUME NEW i \in S, NEW j \in S, i < j PROVE Cardinality(Upto(i)) # Cardinality(Upto(j))
    <3>0. i \in Int /\ j \in Int /\ \A x \in S : x \in Int
      OBVIOUS
    <3>2. \A x \in S : x <= i => x <= j
      BY <2>1, <3>0
    <3>3. j \in Upto(j) /\ j \notin Upto(i)
      BY <2>1, <3>0
    <3>1. Upto(i) \in SUBSET Upto(j) /\ j \in Upto(j) /\ j \notin Upto(i)
      BY <3>2, <3>3
    <3> QED
      BY <1>4, <3>1, FS_Subset
  <2> QED
    BY <2>1
<1>6. f \in Injection(S, T)
  <2>1. f \in [S -> T]
    BY <1>4, Zenon
  <2>2. \A i, j \in S : f[i] = f[j] => i = j
    BY <1>5, Zenon
  <2> HIDE DEF f
  <2> QED
    BY <2>1, <2>2 DEF Injection, IsInjective
<1>7. f \in Surjection(S, T)
  BY <1>3, <1>6, FS_Injection
<1>8. \A k \in T : \E i \in S : Cardinality(Upto(i)) = k
  BY <1>7 DEF Surjection
<1>9. \A k \in T : Nth(S, k) \in S /\ Cardinality(Upto(Nth(S, k))) = k
  BY <1>8 DEF Nth
<1>10. \A i \in S : \E k \in T : Nth(S, k) = i
  BY <1>4, <1>5, <1>9
<1> QED
  BY <1>2, <1>9, <1>10

\* What a selection is: the items at the positions chosen, each once, and nothing else.
IsSelection(X, s, S, w) ==
    /\ w \in Seq(X) /\ Len(w) <= Len(s)
    /\ \A k \in DOMAIN w : \E i \in S : w[k] = s[i]
    /\ \A i \in S : \E k \in DOMAIN w : w[k] = s[i]
    /\ (\A i, j \in S : s[i] = s[j] => i = j) => \A k, l \in DOMAIN w : w[k] = w[l] => k = l

\* A selection is one.
LEMMA NotesSelected ==
    ASSUME NEW X, NEW s \in Seq(X), NEW S \in SUBSET DOMAIN s
    PROVE  IsSelection(X, s, S, Notes!Selected(s, S))
<1> DEFINE w == Selected(s, S)
<1>0. w = Notes!Selected(s, S)
  BY DEF Notes!Selected, Notes!Nth, Notes!Cardinality, Selected, Nth, Cardinality
<1>1. Len(s) \in Nat /\ DOMAIN s = 1 .. Len(s)
  OBVIOUS
<1>2. /\ IsFiniteSet(S) /\ Cardinality(S) \in 0 .. Len(s)
      /\ \A k \in 1 .. Cardinality(S) :
            Nth(S, k) \in S /\ Cardinality({j \in S : j <= Nth(S, k)}) = k
      /\ \A i \in S : \E k \in 1 .. Cardinality(S) : Nth(S, k) = i
  BY <1>1, NthIs
<1>3. \A k \in 1 .. Cardinality(S) : Selected(s, S)[k] = s[Nth(S, k)]
  BY DEF Selected
<1>4. w \in Seq(X) /\ Len(w) = Cardinality(S) /\ DOMAIN w = 1 .. Cardinality(S)
  <2>1. \A k \in 1 .. Cardinality(S) : s[Nth(S, k)] \in X
    <3> TAKE k \in 1 .. Cardinality(S)
    <3>1. Nth(S, k) \in 1 .. Len(s)
      BY <1>1, <1>2, Zenon
    <3> QED
      BY <3>1
  <2> QED
    BY <1>2, <2>1 DEF Selected
<1>5. \A k, l \in 1 .. Cardinality(S) : Nth(S, k) = Nth(S, l) => k = l
  BY <1>2
<1>6. Len(w) <= Len(s)
  BY <1>2, <1>4
<1>7. \A k \in 1 .. Cardinality(S) : w[k] = s[Nth(S, k)]
  BY <1>3
<1> HIDE DEF w
<1>8. /\ \A k \in 1 .. Cardinality(S) : \E i \in S : w[k] = s[i]
      /\ \A i \in S : \E k \in 1 .. Cardinality(S) : w[k] = s[i]
      /\ (\A i, j \in S : s[i] = s[j] => i = j) =>
            \A k, l \in 1 .. Cardinality(S) : w[k] = w[l] => k = l
  BY <1>2, <1>5, <1>7, ZenonT(40)
<1>9. IsSelection(X, s, S, w)
  BY <1>4, <1>6, <1>8, Zenon DEF IsSelection
<1> QED
  BY <1>0, <1>9, Zenon

NotesAssumption == Notes!BoundAssumption

IsRequest(r) ==
    /\ r \in [k : {"list", "create", "update", "delete"}, at : {"sent", "handled"}, ok : BOOLEAN,
              page : Nat, id : Nat, notes : Seq(Notes!Notes), all : Nat, n : Nat]
    /\ r.ok => r.at = "handled"
    /\ r.ok /\ r.k = "update" => r.notes # <<>>
    /\ r.all \in 0 .. MaxNotes
    /\ r.k = "list" => r.page \in 1 .. MaxNotes + 1

\* What the provers need of the types, and of what holds of a request or an editor.
NoteTypes ==
    /\ server \in Seq(Notes!Notes) /\ made \in 0 .. MaxNotes /\ Len(server) <= made
    /\ notes \in Seq(Notes!Notes)
    /\ pages.page \in 1 .. MaxNotes + 1 /\ pages.all \in 0 .. MaxNotes
    /\ loading \in BOOLEAN /\ error \in BOOLEAN /\ shown \in BOOLEAN /\ crossed \in BOOLEAN
    /\ editor # None => editor \in [of : 1 .. MaxNotes \cup {New}, typed : BOOLEAN] /\ shown
    /\ \A r \in wire : IsRequest(r)
    /\ IsFiniteSet(wire) /\ Cardinality(wire) <= MaxWire
    /\ gets \in 0 .. MaxGets /\ others \in 0 .. MaxOthers

\* NoteJournal has its own copy of the definition of Cardinality.
LEMMA NotesCardinality == \A S : Notes!Cardinality(S) = Cardinality(S)
  BY DEF Notes!Cardinality, Cardinality

\* The bounds are numbers.
LEMMA NotesBounds ==
    ASSUME NotesAssumption
    PROVE  /\ Limit \in Nat \ {0} /\ MaxNotes \in Nat \ {0} /\ MaxWire \in Nat \ {0}
           /\ MaxRevs \in Nat /\ MaxGets \in Nat /\ MaxOthers \in Nat
  BY DEF NotesAssumption, Notes!BoundAssumption

\* A number and a revision are a note.
LEMMA NoteIs ==
    ASSUME NEW i \in 1 .. MaxNotes, NEW v \in 0 .. MaxRevs
    PROVE  [id |-> i, rev |-> v] \in Notes!Notes
  BY DEF Notes!Notes

\* A page holds notes of the server, at their places; there are at most as many pages as notes.
LEMMA PageIs ==
    ASSUME NotesAssumption, server \in Seq(Notes!Notes), NEW p \in Nat \ {0}
    PROVE  /\ Notes!Page(p) \in Seq(Notes!Notes)
           /\ \A k \in DOMAIN Notes!Page(p) :
                 (p - 1) * Limit + k \in DOMAIN server /\
                   Notes!Page(p)[k] = server[(p - 1) * Limit + k]
           /\ Notes!AllPages \in 0 .. Len(server)
<1>1. Limit \in Nat \ {0} /\ Len(server) \in Nat /\ DOMAIN server = 1 .. Len(server)
  BY NotesBounds
<1>2. (p - 1) * Limit \in Nat /\ p * Limit \in Nat
  BY <1>1
<1> DEFINE a == (p - 1) * Limit
           b == IF p * Limit < Len(server) THEN p * Limit ELSE Len(server)
<1>3. a \in Nat /\ b \in 0 .. Len(server) /\ Notes!Page(p) = SubSeq(server, a + 1, b)
  BY <1>1, <1>2 DEF Notes!Page
<1> HIDE DEF a, b
<1>4. \A i \in a + 1 .. b : server[i] \in Notes!Notes
  BY <1>1, <1>3
<1>5. /\ Notes!Page(p) \in Seq(Notes!Notes)
      /\ Len(Notes!Page(p)) = IF a + 1 <= b THEN b - (a + 1) + 1 ELSE 0
      /\ \A i \in 1 .. b - (a + 1) + 1 : Notes!Page(p)[i] = server[(a + 1) + i - 1]
  BY <1>3, <1>4, SubSeqProperties, SMTT(30)
<1>6. \A k \in DOMAIN Notes!Page(p) : a + k \in DOMAIN server /\ Notes!Page(p)[k] = server[a + k]
  <2> TAKE k \in DOMAIN Notes!Page(p)
  <2>1. k \in 1 .. b - (a + 1) + 1 /\ a + 1 <= b
    BY <1>3, <1>5
  <2>2. Notes!Page(p)[k] = server[(a + 1) + k - 1] /\ (a + 1) + k - 1 = a + k
    BY <1>3, <1>5, <2>1
  <2> QED
    BY <1>1, <1>3, <2>1, <2>2
<1>7. Notes!AllPages \in 0 .. Len(server)
  BY <1>1 DEF Notes!AllPages
<1> QED
  BY <1>5, <1>6, <1>7 DEF a

\* A request that is handled or lost takes the place of the one that was sent.
LEMMA WireHandled ==
    ASSUME NotesAssumption, NoteTypes, NEW r \in wire, NEW h, IsRequest(h), Notes!Handled(r, h)
    PROVE  /\ \A q \in wire' : IsRequest(q)
           /\ IsFiniteSet(wire') /\ Cardinality(wire') <= MaxWire
<1>1. wire' = (wire \ {r}) \cup {h}
  BY DEF Notes!Handled
<1>2. IsFiniteSet(wire) /\ Cardinality(wire) <= MaxWire /\ MaxWire \in Nat /\
        Cardinality(wire) \in Nat
  BY NotesBounds, FS_CardinalityType DEF NoteTypes
<1>3. IsFiniteSet(wire \ {r}) /\ Cardinality(wire \ {r}) = Cardinality(wire) - 1
  BY <1>2, FS_RemoveElement
<1>4. IsFiniteSet(wire') /\ (Cardinality(wire') = Cardinality(wire \ {r}) + 1 \/
        Cardinality(wire') = Cardinality(wire \ {r}))
  BY <1>1, <1>3, FS_AddElement
<1> QED
  BY <1>1, <1>2, <1>3, <1>4 DEF NoteTypes

\* One more request stays within the bound.
LEMMA WireAsked ==
    ASSUME NotesAssumption, NoteTypes, NEW q, IsRequest(q), Notes!Ask(q)
    PROVE  /\ \A r \in wire' : IsRequest(r)
           /\ IsFiniteSet(wire') /\ Cardinality(wire') <= MaxWire
           /\ loading' \in BOOLEAN /\ error' \in BOOLEAN
<1>1. wire' = wire \cup {q} /\ Cardinality(wire) < MaxWire /\ loading' = TRUE /\ error' = FALSE
  BY NotesCardinality DEF Notes!Ask
<1>2. IsFiniteSet(wire) /\ MaxWire \in Nat /\ Cardinality(wire) \in Nat
  BY NotesBounds, FS_CardinalityType DEF NoteTypes
<1>4. IsFiniteSet(wire') /\ (Cardinality(wire') = Cardinality(wire) + 1 \/
        Cardinality(wire') = Cardinality(wire))
  BY <1>1, <1>2, FS_AddElement
<1>5. Cardinality(wire') <= MaxWire
  BY <1>1, <1>2, <1>4
<1>6. \A r \in wire' : IsRequest(r)
  BY <1>1 DEF NoteTypes
<1> QED
  BY <1>1, <1>4, <1>5, <1>6, Zenon

\* A request that is answered, or taken, stays within the bound.
LEMMA WireTaken ==
    ASSUME NotesAssumption, NoteTypes, NEW r \in wire, wire' = wire \ {r}
    PROVE  /\ \A q \in wire' : IsRequest(q)
           /\ IsFiniteSet(wire') /\ Cardinality(wire') <= MaxWire
<1>2. IsFiniteSet(wire) /\ Cardinality(wire) <= MaxWire /\ MaxWire \in Nat /\
        Cardinality(wire) \in Nat
  BY NotesBounds, FS_CardinalityType DEF NoteTypes
<1>3. IsFiniteSet(wire \ {r}) /\ Cardinality(wire \ {r}) = Cardinality(wire) - 1
  BY <1>2, FS_RemoveElement
<1> QED
  BY <1>2, <1>3 DEF NoteTypes

\* The types hold at first.
LEMMA NotesTypesInit == ASSUME NotesAssumption, Notes!Init PROVE NoteTypes
<1>1. /\ server = <<>> /\ made = 0 /\ notes = <<>> /\ pages = [page |-> 1, all |-> 0]
      /\ loading = FALSE /\ error = FALSE /\ shown = FALSE /\ editor = None /\ wire = {}
      /\ gets = 0 /\ others = 0 /\ crossed = FALSE
  BY DEF Notes!Init
<1>2. IsFiniteSet(wire) /\ Cardinality(wire) <= MaxWire /\ \A r \in wire : IsRequest(r)
  BY <1>1, FS_EmptySet, NotesBounds
<1>3. /\ server \in Seq(Notes!Notes) /\ Len(server) <= made /\ notes \in Seq(Notes!Notes)
      /\ made \in 0 .. MaxNotes /\ gets \in 0 .. MaxGets /\ others \in 0 .. MaxOthers
      /\ pages.page \in 1 .. MaxNotes + 1 /\ pages.all \in 0 .. MaxNotes
  BY <1>1, NotesBounds
<1>4. loading \in BOOLEAN /\ error \in BOOLEAN /\ shown \in BOOLEAN /\ crossed \in BOOLEAN
  BY <1>1
<1> QED
  BY <1>1, <1>2, <1>3, <1>4, Zenon DEF NoteTypes

\* The server's answers.
LEMMA NotesTypesServed ==
    ASSUME NotesAssumption, NoteTypes, NEW r \in wire,
           \/ Notes!ListNotes(r) \/ Notes!CreateNote(r) \/ Notes!UpdateNote(r) \/
                Notes!DeleteNote(r)
           \/ Notes!Lost(r)
    PROVE  NoteTypes'
<1> USE NotesBounds
<1>0. IsRequest(r) /\ server \in Seq(Notes!Notes) /\ made \in 0 .. MaxNotes /\ Len(server) <= made
  BY DEF NoteTypes
<1>1. CASE Notes!ListNotes(r)
  <2>1. PICK h : h = [r EXCEPT !.at = "handled", !.ok = TRUE, !.notes = Notes!Page(r.page),
               !.all = Notes!AllPages]
    OBVIOUS
  <2>2. /\ Notes!Page(r.page) \in Seq(Notes!Notes) /\ Notes!AllPages \in 0 .. Len(server)
    BY <1>0, <1>1, PageIs DEF Notes!ListNotes, IsRequest
  <2>6. Notes!AllPages \in 0 .. MaxNotes /\ Notes!AllPages \in Nat
    BY <1>0, <2>2
  <2>3. IsRequest(h)
    BY <1>0, <1>1, <2>1, <2>2, <2>6 DEF IsRequest, Notes!ListNotes
  <2>4. Notes!Handled(r, h)
    BY <1>1, <2>1, Zenon DEF Notes!ListNotes
  <2>5. UNCHANGED <<server, made, notes, pages, loading, error, shown, editor, gets,
          others>> /\ crossed' \in BOOLEAN
    BY <1>1 DEF Notes!ListNotes, Notes!store, Notes!Crosses, NoteTypes
  <2> QED
    BY <2>3, <2>4, <2>5, WireHandled DEF NoteTypes
<1>2. CASE Notes!CreateNote(r)
  <2>1. PICK n : n = [id |-> made + 1, rev |-> 0]
    OBVIOUS
  <2>2. n \in Notes!Notes /\ made < MaxNotes
    <3>1. made < MaxNotes
      BY <1>2 DEF Notes!CreateNote
    <3>2. made + 1 \in 1 .. MaxNotes /\ 0 \in 0 .. MaxRevs
      BY <1>0, <3>1
    <3> QED
      BY <2>1, <3>1, <3>2, NoteIs
  <2>3. server' = <<n>> \o server /\ made' = made + 1
    BY <1>2, <2>1 DEF Notes!CreateNote
  <2>4. server' \in Seq(Notes!Notes) /\ Len(server') = Len(server) + 1 /\ Head(server') = n
    BY <1>0, <2>2, <2>3
  <2>5. PICK h : h = [r EXCEPT !.at = "handled", !.ok = TRUE, !.notes = <<Head(server')>>]
    OBVIOUS
  <2>6. IsRequest(h)
    <3>1. <<Head(server')>> \in Seq(Notes!Notes)
      BY <2>2, <2>4
    <3> QED
      BY <1>0, <1>2, <2>5, <3>1 DEF IsRequest, Notes!CreateNote
  <2>7. Notes!Handled(r, h)
    BY <1>2, <2>5, Zenon DEF Notes!CreateNote
  <2>8. UNCHANGED <<notes, pages, loading, error, shown, editor, gets, others>> /\
          crossed' \in BOOLEAN
    BY <1>2 DEF Notes!CreateNote, Notes!store, Notes!Crosses, NoteTypes
  <2>9. made' \in 0 .. MaxNotes /\ Len(server') <= made'
    BY <1>0, <2>2, <2>3, <2>4
  <2> QED
    BY <2>4, <2>6, <2>7, <2>8, <2>9, WireHandled DEF NoteTypes
<1>3. CASE Notes!UpdateNote(r)
  <2>1. /\ \A k \in 1 .. Len(server) : server[k].id = r.id => server[k].rev < MaxRevs
        /\ server' = [k \in 1 .. Len(server) |->
                        IF server[k].id = r.id THEN [server[k] EXCEPT !.rev = @ + 1]
                          ELSE server[k]]
    BY <1>3, Zenon DEF Notes!UpdateNote
  <2>2. \A k \in 1 .. Len(server) : server'[k] \in Notes!Notes
    <3> TAKE k \in 1 .. Len(server)
    <3>1. server[k] \in Notes!Notes
      BY <1>0
    <3>2. CASE server[k].id = r.id
      <4>1. server[k].rev + 1 \in 0 .. MaxRevs /\ server[k].id \in 1 .. MaxNotes
        BY <2>1, <3>1, <3>2 DEF Notes!Notes
      <4>2. server'[k] = [server[k] EXCEPT !.rev = @ + 1]
        BY <2>1, <3>2
      <4>3. server[k] = [id |-> server[k].id, rev |-> server[k].rev]
        BY <3>1 DEF Notes!Notes
      <4>4. server'[k] = [id |-> server[k].id, rev |-> server[k].rev + 1]
        BY <4>2, <4>3
      <4> QED
        BY <4>1, <4>4, NoteIs
    <3>3. CASE server[k].id # r.id
      BY <2>1, <3>1, <3>3
    <3> QED
      BY <3>2, <3>3
  <2>3. server' \in Seq(Notes!Notes) /\ Len(server') = Len(server) /\
          DOMAIN server' = DOMAIN server
    BY <1>0, <2>1, <2>2
  <2>4. PICK now : now = Notes!Selected(server', {k \in DOMAIN server : server[k].id = r.id})
    OBVIOUS
  <2>5. now \in Seq(Notes!Notes)
    <3>1. {k \in DOMAIN server : server[k].id = r.id} \in SUBSET DOMAIN server'
      BY <2>3
    <3> QED
      BY <2>3, <2>4, <3>1, NotesSelected, Zenon DEF IsSelection
  <2>6. PICK h : h = [r EXCEPT !.at = "handled", !.ok = (now # <<>>), !.notes = now]
    OBVIOUS
  <2>7. IsRequest(h)
    BY <1>0, <2>5, <2>6 DEF IsRequest
  <2>8. Notes!Handled(r, h)
    BY <1>3, <2>4, <2>6, Zenon DEF Notes!UpdateNote
  <2>9. UNCHANGED <<made, notes, pages, loading, error, shown, editor, gets, others>> /\
          crossed' \in BOOLEAN
    BY <1>3 DEF Notes!UpdateNote, Notes!store, Notes!Crosses, NoteTypes
  <2> QED
    BY <1>0, <2>3, <2>7, <2>8, <2>9, WireHandled DEF NoteTypes
<1>4. CASE Notes!DeleteNote(r)
  <2>1. server' = Notes!Selected(server, {k \in DOMAIN server : server[k].id # r.id})
    BY <1>4, Zenon DEF Notes!DeleteNote, Notes!Without
  <2>2. server' \in Seq(Notes!Notes) /\ Len(server') <= Len(server)
    <3>1. {k \in DOMAIN server : server[k].id # r.id} \in SUBSET DOMAIN server
      OBVIOUS
    <3> QED
      BY <1>0, <2>1, <3>1, NotesSelected, Zenon DEF IsSelection
  <2>3. PICK h : h = [r EXCEPT !.at = "handled", !.ok = TRUE]
    OBVIOUS
  <2>4. IsRequest(h)
    BY <1>0, <1>4, <2>3 DEF IsRequest, Notes!DeleteNote
  <2>5. Notes!Handled(r, h)
    BY <1>4, <2>3, Zenon DEF Notes!DeleteNote
  <2>6. UNCHANGED <<made, notes, pages, loading, error, shown, editor, gets, others>> /\
          crossed' \in BOOLEAN
    BY <1>4 DEF Notes!DeleteNote, Notes!store, Notes!Crosses, NoteTypes
  <2>7. Len(server') <= made
    BY <1>0, <2>2
  <2> QED
    BY <2>2, <2>4, <2>5, <2>6, <2>7, WireHandled DEF NoteTypes
<1>5. CASE Notes!Lost(r)
  <2>1. PICK h : h = [r EXCEPT !.at = "handled", !.ok = FALSE]
    OBVIOUS
  <2>2. IsRequest(h)
    BY <1>0, <2>1 DEF IsRequest
  <2>3. Notes!Handled(r, h)
    BY <1>5, <2>1, Zenon DEF Notes!Lost
  <2>4. UNCHANGED <<server, made, notes, pages, loading, error, shown, editor, gets,
          others>> /\ crossed' \in BOOLEAN
    BY <1>5 DEF Notes!Lost, Notes!store, NoteTypes
  <2> QED
    BY <2>2, <2>3, <2>4, WireHandled DEF NoteTypes
<1> QED
  BY <1>1, <1>2, <1>3, <1>4, <1>5

Editors == [of : 1 .. MaxNotes \cup {New}, typed : BOOLEAN]

\* The editor that is kept after a change of the list is an editor.
LEMMA KeptIs ==
    ASSUME NEW ed, ed # None => ed \in Editors, NEW on, NEW busy, NEW ns
    PROVE  Notes!Kept(ed, on, busy, ns) # None =>
               Notes!Kept(ed, on, busy, ns) \in Editors /\ ed # None
<1>1. ASSUME ed \in Editors PROVE [ed EXCEPT !.typed = FALSE] \in Editors
  BY <1>1 DEF Editors
<1> QED
  BY <1>1 DEF Notes!Kept

\* What is asked is a request.
LEMMA RequestIs ==
    ASSUME NotesAssumption, NoteTypes, NEW k \in {"list", "create", "update", "delete"},
           NEW p \in Nat, NEW i \in Nat, k = "list" => p \in 1 .. MaxNotes + 1
    PROVE  IsRequest(Notes!Request(k, p, i))
<1>1. gets \in Nat /\ MaxNotes \in Nat
  BY NotesBounds DEF NoteTypes
<1>2. <<>> \in Seq(Notes!Notes)
  OBVIOUS
<1> QED
  BY <1>1, <1>2 DEF IsRequest, Notes!Request

\* The lists that are asked for.
LEMMA NotesTypesFetched ==
    ASSUME NotesAssumption, NoteTypes, NEW p \in 1 .. MaxNotes + 1, Notes!FetchNotes(p),
           UNCHANGED <<server, made, notes, pages, others, crossed>>,
           shown' \in BOOLEAN, editor' # None => editor' \in Editors /\ shown'
    PROVE  NoteTypes'
<1>1. IsRequest(Notes!Request("list", p, 0))
  BY RequestIs, NotesBounds
<1>2. Notes!Ask(Notes!Request("list", p, 0)) /\ gets' \in 0 .. MaxGets
  BY NotesBounds DEF Notes!FetchNotes, NoteTypes
<1>3. /\ \A r \in wire' : IsRequest(r)
      /\ IsFiniteSet(wire') /\ Cardinality(wire') <= MaxWire
      /\ loading' \in BOOLEAN /\ error' \in BOOLEAN
  BY <1>1, <1>2, WireAsked, Zenon
<1>4. /\ server \in Seq(Notes!Notes) /\ made \in 0 .. MaxNotes /\ Len(server) <= made
      /\ notes \in Seq(Notes!Notes)
      /\ pages.page \in 1 .. MaxNotes + 1 /\ pages.all \in 0 .. MaxNotes
      /\ crossed \in BOOLEAN /\ others \in 0 .. MaxOthers
  BY Zenon DEF NoteTypes
<1> QED
  BY <1>2, <1>3, <1>4, Zenon DEF NoteTypes, Editors

\* What changes nothing but the editor and whether the list is there.
LEMMA NotesTypesEdited ==
    ASSUME NotesAssumption, NoteTypes,
           UNCHANGED <<server, made, notes, pages, loading, error, wire, gets, others, crossed>>,
           shown' \in BOOLEAN, editor' # None => editor' \in Editors /\ shown'
    PROVE  NoteTypes'
  BY Zenon DEF NoteTypes, Editors

\* What the user does keeps the types.
LEMMA NotesTypesScreen ==
    ASSUME NotesAssumption, NoteTypes,
           \/ Notes!ShowJournal \/ Notes!HideJournal
           \/ \E p \in 1 .. MaxNotes + 1 : Notes!TurnPage(p) \/ Notes!JumpTo(p)
           \/ \E i \in 1 .. MaxNotes \cup {New} : Notes!OpenEditor(i)
           \/ Notes!Type \/ Notes!CloseEditor \/ Notes!Submit
           \/ \E i \in 1 .. MaxNotes : Notes!Delete(i)
    PROVE  NoteTypes'
<1>0. /\ shown \in BOOLEAN /\ MaxNotes \in Nat
      /\ editor # None => editor \in Editors /\ shown
  BY NotesBounds DEF NoteTypes, Editors
<1>1. CASE Notes!ShowJournal
  <2>1. 1 \in 1 .. MaxNotes + 1
    BY <1>0
  <2> QED
    BY <1>1, <2>1, NotesTypesFetched DEF Notes!ShowJournal
<1>2. CASE Notes!HideJournal
  BY <1>2, NotesTypesEdited DEF Notes!HideJournal, Notes!store
<1>3. CASE \E p \in 1 .. MaxNotes + 1 : Notes!TurnPage(p) \/ Notes!JumpTo(p)
  BY <1>0, <1>3, NotesTypesFetched DEF Notes!TurnPage, Notes!JumpTo
<1>4. ASSUME NEW i \in 1 .. MaxNotes \cup {New}, Notes!OpenEditor(i) PROVE NoteTypes'
  <2>1. [of |-> i, typed |-> FALSE] \in Editors
    BY DEF Editors
  <2> QED
    BY <1>0, <1>4, <2>1, NotesTypesEdited DEF Notes!OpenEditor, Notes!store, Notes!List
<1>5. CASE Notes!Type
  <2>1. editor \in Editors /\ editor' = [editor EXCEPT !.typed = TRUE]
    BY <1>0, <1>5 DEF Notes!Type
  <2>2. editor' \in Editors
    BY <2>1 DEF Editors
  <2> QED
    BY <1>0, <1>5, <2>2, NotesTypesEdited DEF Notes!Type, Notes!store
<1>6. CASE Notes!CloseEditor
  BY <1>0, <1>6, NotesTypesEdited DEF Notes!CloseEditor, Notes!store
<1>7. CASE Notes!Submit
  <2>1. editor \in Editors /\ shown
    BY <1>0, <1>7 DEF Notes!Submit
  <2>2. PICK q : /\ q = IF editor.of = New THEN Notes!Request("create", 0, 0)
                        ELSE Notes!Request("update", 0, editor.of)
                 /\ Notes!Ask(q)
    BY <1>7 DEF Notes!Submit
  <2>3. IsRequest(q)
    <3>1. editor.of # New => editor.of \in Nat
      BY <1>0, <2>1 DEF Editors
    <3> QED
      BY <2>2, <3>1, RequestIs
  <2>4. editor' # None => editor' \in Editors
    BY <1>7, <2>1, KeptIs, Zenon DEF Notes!Submit
  <2>5. UNCHANGED <<server, made, notes, pages, shown, gets, others, crossed>>
    BY <1>7 DEF Notes!Submit
  <2>6. /\ \A r \in wire' : IsRequest(r)
        /\ IsFiniteSet(wire') /\ Cardinality(wire') <= MaxWire
        /\ loading' \in BOOLEAN /\ error' \in BOOLEAN
    BY <2>2, <2>3, WireAsked, Zenon
  <2> QED
    BY <2>1, <2>4, <2>5, <2>6, Zenon DEF NoteTypes, Editors
<1>8. ASSUME NEW i \in 1 .. MaxNotes, Notes!Delete(i) PROVE NoteTypes'
  <2>1. IsRequest(Notes!Request("delete", 0, i))
    BY <1>0, RequestIs
  <2>2. /\ Notes!Ask(Notes!Request("delete", 0, i))
        /\ UNCHANGED <<server, made, notes, pages, shown, editor, gets, others, crossed>>
    BY <1>8 DEF Notes!Delete
  <2>3. /\ \A r \in wire' : IsRequest(r)
        /\ IsFiniteSet(wire') /\ Cardinality(wire') <= MaxWire
        /\ loading' \in BOOLEAN /\ error' \in BOOLEAN
    BY <2>1, <2>2, WireAsked, Zenon
  <2> QED
    BY <2>2, <2>3, Zenon DEF NoteTypes
<1> QED
  BY <1>1, <1>2, <1>3, <1>4, <1>5, <1>6, <1>7, <1>8

\* What is done on another screen keeps the types.
LEMMA NotesTypesElsewhere ==
    ASSUME NotesAssumption, NoteTypes, Notes!Elsewhere
    PROVE  NoteTypes'
<1>0. /\ server \in Seq(Notes!Notes) /\ made \in 0 .. MaxNotes /\ Len(server) <= made
      /\ others' \in 0 .. MaxOthers /\ crossed' = TRUE
      /\ UNCHANGED <<notes, pages, loading, error, shown, editor, wire, gets>>
  BY NotesBounds DEF Notes!Elsewhere, Notes!store, NoteTypes
<1>1. server' \in Seq(Notes!Notes) /\ made' \in 0 .. MaxNotes /\ Len(server') <= made'
  <2>1. CASE made < MaxNotes /\ made' = made + 1 /\ server' = <<[id |-> made + 1,
               rev |-> 0]>> \o server
    <3>1. made + 1 \in 1 .. MaxNotes /\ 0 \in 0 .. MaxRevs
      BY <1>0, <2>1, NotesBounds
    <3>2. [id |-> made + 1, rev |-> 0] \in Notes!Notes
      BY <3>1, NoteIs
    <3>3. server' \in Seq(Notes!Notes) /\ Len(server') = Len(server) + 1
      BY <1>0, <2>1, <3>2
    <3> QED
      BY <1>0, <2>1, <3>1, <3>3
  <2>2. ASSUME NEW j \in 1 .. Len(server), server' = Notes!Without(server, server[j].id),
                 made' = made
        PROVE  server' \in Seq(Notes!Notes) /\ Len(server') <= Len(server)
    <3>1. {k \in DOMAIN server : server[k].id # server[j].id} \in SUBSET DOMAIN server
      OBVIOUS
    <3> QED
      BY <1>0, <2>2, <3>1, NotesSelected, Zenon DEF Notes!Without, IsSelection
  <2> QED
    BY <1>0, <2>1, <2>2 DEF Notes!Elsewhere
<1> QED
  BY <1>0, <1>1, Zenon DEF NoteTypes

\* An answer that arrives keeps the types.
LEMMA NotesTypesArrives ==
    ASSUME NotesAssumption, NoteTypes, NEW r \in wire, Notes!Arrives(r)
    PROVE  NoteTypes'
<1>0. /\ IsRequest(r) /\ notes \in Seq(Notes!Notes) /\ shown \in BOOLEAN
      /\ editor # None => editor \in Editors /\ shown
      /\ UNCHANGED <<server, made, shown, gets, others>> /\ wire' = wire \ {r}
  BY DEF Notes!Arrives, NoteTypes, Editors
<1>1. /\ \A q \in wire' : IsRequest(q)
      /\ IsFiniteSet(wire') /\ Cardinality(wire') <= MaxWire
  BY <1>0, WireTaken
<1>2. /\ notes' \in Seq(Notes!Notes) /\ pages'.page \in 1 .. MaxNotes + 1 /\
           pages'.all \in 0 .. MaxNotes
      /\ loading' \in BOOLEAN /\ error' \in BOOLEAN /\ crossed' \in BOOLEAN
      /\ editor' # None => editor' \in Editors /\ shown
  <2>0. /\ pages.page \in 1 .. MaxNotes + 1 /\ pages.all \in 0 .. MaxNotes
        /\ error \in BOOLEAN /\ crossed \in BOOLEAN /\ r.notes \in Seq(Notes!Notes)
    BY <1>0 DEF NoteTypes, IsRequest
  <2>1. CASE Notes!Fails(r)
    BY <1>0, <2>0, <2>1, KeptIs, Zenon DEF Notes!Fails, Notes!Ends
  <2>2. CASE Notes!Listed(r)
    <3>1. /\ pages' = [page |-> r.page, all |-> r.all] /\ r.page \in 1 .. MaxNotes + 1 /\
               r.all \in 0 .. MaxNotes
          /\ crossed' \in BOOLEAN
      BY <1>0, <2>2 DEF Notes!Listed, IsRequest
    <3>2. error' = error /\ loading' = FALSE /\ notes' = r.notes /\
            editor' = Notes!Kept(editor, shown, FALSE, r.notes)
      BY <2>2, Zenon DEF Notes!Listed, Notes!Ends
    <3>3. pages'.page \in 1 .. MaxNotes + 1 /\ pages'.all \in 0 .. MaxNotes
      BY <3>1
    <3> QED
      BY <1>0, <2>0, <3>1, <3>2, <3>3, KeptIs, Zenon
  <2>3. CASE Notes!Created(r)
    <3>1. error' = error /\ loading' = FALSE /\ notes' = r.notes \o notes /\
            editor' = Notes!Kept(None, shown, FALSE, r.notes \o notes)
          /\ UNCHANGED <<pages, crossed>>
      BY <2>3, Zenon DEF Notes!Created, Notes!Ends
    <3>2. r.notes \o notes \in Seq(Notes!Notes)
      BY <1>0, <2>0
    <3> QED
      BY <1>0, <2>0, <3>1, <3>2, KeptIs, Zenon
  <2>4. CASE Notes!Updated(r)
    <3>1. PICK ns : ns = [k \in 1 .. Len(notes) |-> IF notes[k].id = r.id THEN r.notes[1]
                 ELSE notes[k]]
      OBVIOUS
    <3>2. error' = error /\ loading' = FALSE /\ notes' = ns /\ editor' = Notes!Kept(None,
            shown, FALSE, ns)
          /\ UNCHANGED <<pages, crossed>>
      BY <2>4, <3>1, Zenon DEF Notes!Updated, Notes!Ends
    <3>3. ns \in Seq(Notes!Notes)
      <4>1. r.notes # <<>>
        BY <1>0, <2>4 DEF IsRequest, Notes!Updated
      <4>2. r.notes[1] \in Notes!Notes
        BY <2>0, <4>1
      <4>3. \A k \in 1 .. Len(notes) : ns[k] \in Notes!Notes
        BY <1>0, <3>1, <4>2
      <4> QED
        BY <1>0, <3>1, <4>3
    <3> QED
      BY <1>0, <2>0, <3>2, <3>3, KeptIs, Zenon
  <2>5. CASE Notes!Deleted(r)
    <3>1. error' = error /\ loading' = FALSE /\ notes' = Notes!Without(notes, r.id)
          /\ editor' = Notes!Kept(editor, shown, FALSE, Notes!Without(notes, r.id))
          /\ UNCHANGED <<pages, crossed>>
      BY <2>5, Zenon DEF Notes!Deleted, Notes!Ends
    <3>2. {k \in DOMAIN notes : notes[k].id # r.id} \in SUBSET DOMAIN notes
      OBVIOUS
    <3>3. Notes!Without(notes, r.id) \in Seq(Notes!Notes)
      BY <1>0, <3>2, NotesSelected, Zenon DEF Notes!Without, IsSelection
    <3> QED
      BY <1>0, <2>0, <3>1, <3>3, KeptIs, Zenon
  <2> QED
    BY <2>1, <2>2, <2>3, <2>4, <2>5 DEF Notes!Arrives
<1>3. server \in Seq(Notes!Notes) /\ made \in 0 .. MaxNotes /\ Len(server) <= made /\
        gets \in 0 .. MaxGets /\ others \in 0 .. MaxOthers
  BY DEF NoteTypes
<1> QED
  BY <1>0, <1>1, <1>2, <1>3, Zenon DEF NoteTypes, Editors

\* Every step keeps the types.
LEMMA NotesTypesNext ==
    ASSUME NotesAssumption, NoteTypes, [Notes!Next]_Notes!vars
    PROVE  NoteTypes'
<1>1. CASE Notes!Next
  BY <1>1, NotesTypesServed, NotesTypesArrives, NotesTypesElsewhere, NotesTypesScreen
     DEF Notes!Next
<1>2. CASE UNCHANGED Notes!vars
  BY <1>2, Zenon DEF NoteTypes, Notes!vars, Notes!store
<1> QED
  BY <1>1, <1>2

Unique(s) == \A j, k \in DOMAIN s : s[j].id = s[k].id => j = k
IsStored(n) == \E j \in DOMAIN server : server[j] = n

\* The ids of notes count up, and the server has a note once.
NoteIds ==
    /\ Unique(server) /\ \A k \in DOMAIN server : server[k].id <= made
    /\ \A k \in DOMAIN notes : notes[k].id <= made
    /\ \A r \in wire : \A k \in DOMAIN r.notes : r.notes[k].id <= made

\* As long as nothing crossed: one answer that changes the list is on its way, and all notes of
\* the list but the one it changes are at the server.
NotesFollow ==
    ~ crossed =>
        /\ \A q, r \in wire : q.ok /\ r.ok => q = r
        /\ \A k \in DOMAIN notes :
              \/ IsStored(notes[k])
              \/ \E r \in wire : r.ok /\ r.k \in {"update", "delete"} /\ r.id = notes[k].id
        /\ \A r \in wire : r.ok /\ r.k = "create" =>
              /\ server # <<>> /\ r.notes = <<server[1]>>
              /\ \A k \in DOMAIN notes : notes[k].id # server[1].id
        /\ \A r \in wire : r.ok /\ r.k = "update" => IsStored(r.notes[1]) /\ r.notes[1].id = r.id
        /\ Unique(notes)

NotesInvariant == NoteTypes /\ NoteIds /\ NotesFollow

\* The invariant holds at first.
LEMMA NotesHoldInit == ASSUME NotesAssumption, Notes!Init PROVE NotesInvariant
<1>1. server = <<>> /\ made = 0 /\ notes = <<>> /\ wire = {}
  BY DEF Notes!Init
<1>2. NoteIds
  BY <1>1 DEF NoteIds, Unique
<1>3. NotesFollow
  BY <1>1 DEF NotesFollow, Unique
<1> QED
  BY <1>2, <1>3, NotesTypesInit DEF NotesInvariant

\* What is asked for changes no note.
NotesQuiet ==
    /\ UNCHANGED <<server, made, notes, crossed>> /\ wire \subseteq wire'
    /\ \A r \in wire' : r \in wire \/ (~ r.ok /\ r.notes = <<>>)

\* What the user does changes neither the list nor what the server has.
LEMMA ScreenIsQuiet ==
    ASSUME NotesAssumption, NoteTypes,
           \/ Notes!ShowJournal \/ Notes!HideJournal
           \/ \E p \in 1 .. MaxNotes + 1 : Notes!TurnPage(p) \/ Notes!JumpTo(p)
           \/ \E i \in 1 .. MaxNotes \cup {New} : Notes!OpenEditor(i)
           \/ Notes!Type \/ Notes!CloseEditor \/ Notes!Submit
           \/ \E i \in 1 .. MaxNotes : Notes!Delete(i)
    PROVE  NotesQuiet
<1>1. \A k, p, i : ~ Notes!Request(k, p, i).ok /\ Notes!Request(k, p, i).notes = <<>>
  BY DEF Notes!Request
<1>2. ASSUME NEW k, NEW p, NEW i, Notes!Ask(Notes!Request(k, p, i)), UNCHANGED <<server, made,
               notes, crossed>>
      PROVE  NotesQuiet
  BY <1>1, <1>2 DEF NotesQuiet, Notes!Ask
<1>3. ASSUME NEW p, Notes!FetchNotes(p), UNCHANGED <<server, made, notes, crossed>>
      PROVE  NotesQuiet
  BY <1>2, <1>3, Zenon DEF Notes!FetchNotes
<1>4. ASSUME UNCHANGED <<server, made, notes, wire, crossed>> PROVE NotesQuiet
  BY <1>4 DEF NotesQuiet
<1>5. Notes!ShowJournal => NotesQuiet
  BY <1>3, Zenon DEF Notes!ShowJournal
<1>6. \A p : Notes!TurnPage(p) \/ Notes!JumpTo(p) => NotesQuiet
  BY <1>3, Zenon DEF Notes!TurnPage, Notes!JumpTo
<1>7. Notes!HideJournal \/ Notes!Type \/ Notes!CloseEditor => NotesQuiet
  BY <1>4, Zenon DEF Notes!HideJournal, Notes!Type, Notes!CloseEditor, Notes!store
<1>8. \A i : Notes!OpenEditor(i) => NotesQuiet
  BY <1>4, Zenon DEF Notes!OpenEditor, Notes!store
<1>9. Notes!Submit => NotesQuiet
  <2> SUFFICES ASSUME Notes!Submit PROVE NotesQuiet
    OBVIOUS
  <2>1. /\ UNCHANGED <<server, made, notes, crossed>>
        /\ \/ Notes!Ask(Notes!Request("create", 0, 0)) \/ Notes!Ask(Notes!Request("update", 0,
                editor.of))
    BY DEF Notes!Submit
  <2> QED
    BY <1>2, <2>1, Zenon
<1>10. \A i : Notes!Delete(i) => NotesQuiet
  BY <1>2, Zenon DEF Notes!Delete
<1> QED
  BY <1>5, <1>6, <1>7, <1>8, <1>9, <1>10, Zenon

\* Such a step keeps what is said of the list.
LEMMA QuietKeeps ==
    ASSUME NoteIds, NotesFollow, NotesQuiet
    PROVE  NoteIds' /\ NotesFollow'
<1>1. NoteIds'
  BY DEF NoteIds, Unique, NotesQuiet
<1>2. NotesFollow'
  <2> SUFFICES ASSUME ~ crossed' PROVE NotesFollow'
    BY DEF NotesFollow
  <2>1. /\ server' = server /\ notes' = notes /\ ~ crossed /\ \A r \in wire' : r.ok => r \in wire
        /\ \A r \in wire : r \in wire'
    BY DEF NotesQuiet
  <2>2. \A q, r \in wire' : q.ok /\ r.ok => q = r
    BY <2>1, Zenon DEF NotesFollow
  <2>3. \A k \in DOMAIN notes' :
           \/ IsStored(notes[k])'
           \/ \E r \in wire' : r.ok /\ r.k \in {"update", "delete"} /\ r.id = notes'[k].id
    BY <2>1, Zenon DEF NotesFollow, IsStored
  <2>4. \A r \in wire' : r.ok /\ r.k = "create" =>
              /\ server' # <<>> /\ r.notes = <<server'[1]>>
              /\ \A k \in DOMAIN notes' : notes'[k].id # server'[1].id
    BY <2>1, Zenon DEF NotesFollow
  <2>5. \A r \in wire' : r.ok /\ r.k = "update" => IsStored(r.notes[1])' /\ r.notes[1].id = r.id
    BY <2>1, Zenon DEF NotesFollow, IsStored
  <2>6. Unique(notes)'
    BY <2>1, Zenon DEF NotesFollow, Unique
  <2> QED
    BY <2>2, <2>3, <2>4, <2>5, <2>6, Zenon DEF NotesFollow
<1> QED
  BY <1>1, <1>2

\* A new note goes to the front; the others are where they were, one place on.
LEMMA Prepended ==
    ASSUME NEW n \in Notes!Notes, NEW s \in Seq(Notes!Notes)
    PROVE  /\ <<n>> \o s \in Seq(Notes!Notes) /\ DOMAIN (<<n>> \o s) = 1 .. Len(s) + 1
           /\ (<<n>> \o s)[1] = n /\ Head(<<n>> \o s) = n
           /\ \A k \in DOMAIN s : k + 1 \in DOMAIN (<<n>> \o s) /\ (<<n>> \o s)[k + 1] = s[k]
           /\ \A k \in DOMAIN (<<n>> \o s) : k # 1 => k - 1 \in DOMAIN s /\ (<<n>> \o
                s)[k] = s[k - 1]
<1>1. /\ <<n>> \o s \in Seq(Notes!Notes) /\ Len(<<n>> \o s) = Len(s) + 1 /\ Len(s) \in Nat
      /\ DOMAIN s = 1 .. Len(s)
  OBVIOUS
<1>2. DOMAIN (<<n>> \o s) = 1 .. Len(s) + 1
  BY <1>1
<1>3. \A k \in 1 .. Len(s) + 1 : (<<n>> \o s)[k] = IF k = 1 THEN n ELSE s[k - 1]
  OBVIOUS
<1>4. (<<n>> \o s)[1] = n /\ Head(<<n>> \o s) = n
  BY <1>1, <1>3
<1> QED
  BY <1>1, <1>2, <1>3, <1>4

\* Identifiers are numbers, wherever a note is.
LEMMA IdsAreNumbers ==
    ASSUME NEW s \in Seq(Notes!Notes), NEW k \in DOMAIN s
    PROVE  s[k] \in Notes!Notes /\ s[k].id \in Nat
<1>1. s[k] \in Notes!Notes
  OBVIOUS
<1> QED
  BY <1>1 DEF Notes!Notes

\* The server lists a page.
LEMMA ListKeeps ==
    ASSUME NotesAssumption, NoteTypes, NoteIds, NotesFollow, NEW r \in wire, Notes!ListNotes(r)
    PROVE  NoteIds' /\ NotesFollow'
<1>0. /\ IsRequest(r) /\ server \in Seq(Notes!Notes) /\ r.k = "list"
      /\ UNCHANGED <<server, made, notes>>
  BY DEF NoteTypes, Notes!ListNotes, Notes!store
<1>1. PICK h : h = [r EXCEPT !.at = "handled", !.ok = TRUE, !.notes = Notes!Page(r.page),
             !.all = Notes!AllPages]
  OBVIOUS
<1>2. h.k = "list" /\ h.notes = Notes!Page(r.page)
  BY <1>0, <1>1 DEF IsRequest
<1>3. wire' = (wire \ {r}) \cup {h}
  BY <1>1, Zenon DEF Notes!ListNotes, Notes!Handled
<1>4. \A k \in DOMAIN h.notes : h.notes[k].id <= made
  <2>1. \A k \in DOMAIN Notes!Page(r.page) : \E j \in DOMAIN server :
          Notes!Page(r.page)[k] = server[j]
    BY <1>0, PageIs DEF IsRequest
  <2> QED
    BY <1>2, <2>1 DEF NoteIds
<1>5. NoteIds'
  BY <1>0, <1>3, <1>4 DEF NoteIds, Unique
<1>6. NotesFollow'
  <2> SUFFICES ASSUME ~ crossed' PROVE NotesFollow'
    BY DEF NotesFollow
  <2>1. ~ crossed /\ \A q \in wire \ {r} : q.at # "handled"
    BY DEF Notes!ListNotes, Notes!Crosses
  <2>2. \A q \in wire \ {r} : ~ q.ok
    BY <2>1 DEF NoteTypes, IsRequest
  <2>3. ~ r.ok
    BY <1>0 DEF IsRequest, Notes!ListNotes
  <2>4. \A k \in DOMAIN notes : IsStored(notes[k])
    BY <2>1, <2>2, <2>3 DEF NotesFollow
  <2>5. \A q \in wire' : q.ok => q = h
    BY <1>3, <2>2
  <2>6. \A k \in DOMAIN notes' : IsStored(notes[k])'
    BY <1>0, <2>4, Zenon DEF IsStored
  <2>7. Unique(notes)'
    BY <1>0, <2>1, Zenon DEF NotesFollow, Unique
  <2> QED
    BY <1>2, <2>5, <2>6, <2>7, Zenon DEF NotesFollow
<1> QED
  BY <1>5, <1>6

\* The server makes a note.
LEMMA CreateKeeps ==
    ASSUME NotesAssumption, NoteTypes, NoteIds, NotesFollow, NEW r \in wire, Notes!CreateNote(r)
    PROVE  NoteIds' /\ NotesFollow'
<1>0. /\ IsRequest(r) /\ server \in Seq(Notes!Notes) /\ made \in Nat /\ made < MaxNotes /\
           made' = made + 1
      /\ notes' = notes /\ notes \in Seq(Notes!Notes) /\ r.k = "create" /\ r.at = "sent"
  BY DEF NoteTypes, Notes!CreateNote, Notes!store
<1>1. PICK n \in Notes!Notes : n.id = made + 1 /\ server' = <<n>> \o server
  <2>1. made + 1 \in 1 .. MaxNotes /\ 0 \in 0 .. MaxRevs
    BY <1>0, NotesBounds
  <2>2. [id |-> made + 1, rev |-> 0] \in Notes!Notes
    BY <2>1, NoteIs
  <2> QED
    BY <2>2 DEF Notes!CreateNote
<1>2. PICK h : h = [r EXCEPT !.at = "handled", !.ok = TRUE, !.notes = <<Head(server')>>]
  OBVIOUS
<1>3. /\ server'[1] = n /\ server' # <<>> /\ Head(server') = n
      /\ \A k \in DOMAIN server : k + 1 \in DOMAIN server' /\ server'[k + 1] = server[k]
      /\ \A k \in DOMAIN server' : k # 1 => k - 1 \in DOMAIN server /\ server'[k] = server[k - 1]
  <2>1. <<n>> \o server # <<>>
    BY <1>0
  <2> QED
    BY <1>0, <1>1, <2>1, Prepended
<1>4. h.k = "create" /\ h.notes = <<n>>
  BY <1>0, <1>2, <1>3 DEF IsRequest
<1>5. wire' = (wire \ {r}) \cup {h}
  BY <1>2, Zenon DEF Notes!CreateNote, Notes!Handled
<1>6. NoteIds'
  <2>1. \A k \in DOMAIN server : server[k].id <= made /\ server[k].id \in Nat
    BY <1>0, IdsAreNumbers DEF NoteIds
  <2>2. \A k \in DOMAIN server' : server'[k].id <= made'
    <3> TAKE k \in DOMAIN server'
    <3>1. CASE k = 1
      BY <1>0, <1>1, <1>3, <3>1
    <3>2. CASE k # 1
      BY <1>0, <1>3, <2>1, <3>2
    <3> QED
      BY <3>1, <3>2
  <2>3. Unique(server)'
    <3> SUFFICES ASSUME NEW j \in DOMAIN server', NEW k \in DOMAIN server',
                          server'[j].id = server'[k].id
                 PROVE  j = k
      BY DEF Unique
    <3>1. \A x \in DOMAIN server' : x # 1 => server'[x].id <= made /\ server'[x].id \in Nat
      BY <1>3, <2>1
    <3>2. server'[1].id = made + 1
      BY <1>1, <1>3
    <3>3. j = 1 <=> k = 1
      BY <1>0, <3>1, <3>2
    <3>4. CASE j # 1
      <4>1. server[j - 1].id = server[k - 1].id /\ j - 1 \in DOMAIN server /\
              k - 1 \in DOMAIN server
        BY <1>3, <3>3, <3>4
      <4>2. j - 1 = k - 1
        BY <4>1 DEF NoteIds, Unique
      <4>3. DOMAIN server' \subseteq Int
        BY <1>0, <1>1, Prepended
      <4> QED
        BY <4>2, <4>3
    <3> QED
      BY <3>3, <3>4
  <2>4. \A k \in DOMAIN notes' : notes'[k].id <= made'
    <3>1. \A k \in DOMAIN notes : notes[k].id <= made /\ notes[k].id \in Nat
      BY <1>0, IdsAreNumbers DEF NoteIds
    <3> QED
      BY <1>0, <3>1
  <2>5. \A q \in wire' : \A k \in DOMAIN q.notes : q.notes[k].id <= made'
    <3>1. \A q \in wire : \A k \in DOMAIN q.notes : q.notes[k].id <= made /\ q.notes[k].id \in Nat
      <4> SUFFICES ASSUME NEW q \in wire, NEW k \in DOMAIN q.notes
                            PROVE q.notes[k].id <= made /\ q.notes[k].id \in Nat
        OBVIOUS
      <4>1. q.notes \in Seq(Notes!Notes)
        BY DEF NoteTypes, IsRequest
      <4> QED
        BY <4>1, IdsAreNumbers DEF NoteIds
    <3>2. \A k \in DOMAIN h.notes : h.notes[k].id <= made'
      BY <1>0, <1>1, <1>4
    <3>3. \A q \in wire : \A k \in DOMAIN q.notes : q.notes[k].id <= made'
      BY <1>0, <3>1
    <3> QED
      BY <1>5, <3>2, <3>3
  <2> QED
    BY <2>2, <2>3, <2>4, <2>5 DEF NoteIds
<1>7. NotesFollow'
  <2> SUFFICES ASSUME ~ crossed' PROVE NotesFollow'
    BY DEF NotesFollow
  <2>1. ~ crossed /\ \A q \in wire \ {r} : q.at # "handled"
    BY DEF Notes!CreateNote, Notes!Crosses
  <2>2. \A q \in wire : ~ q.ok
    BY <1>0, <2>1 DEF NoteTypes, IsRequest
  <2>4. \A k \in DOMAIN notes : IsStored(notes[k])
    BY <2>1, <2>2 DEF NotesFollow
  <2>5. \A q \in wire' : q.ok => q = h
    BY <1>5, <2>2
  <2>6. \A k \in DOMAIN notes' : IsStored(notes[k])'
    BY <1>0, <1>3, <2>4 DEF IsStored
  <2>7. Unique(notes)'
    BY <1>0, <2>1, Zenon DEF NotesFollow, Unique
  <2>8. h.notes = <<server'[1]>> /\ \A k \in DOMAIN notes' : notes'[k].id # server'[1].id
    <3>1. \A k \in DOMAIN notes : notes[k].id <= made /\ notes[k].id \in Nat
      BY <1>0, IdsAreNumbers DEF NoteIds
    <3> QED
      BY <1>0, <1>1, <1>3, <1>4, <3>1
  <2> QED
    BY <1>3, <1>4, <2>5, <2>6, <2>7, <2>8, Zenon DEF NotesFollow
<1> QED
  BY <1>6, <1>7

\* The server changes a note.
LEMMA UpdateKeeps ==
    ASSUME NotesAssumption, NoteTypes, NoteIds, NotesFollow, NEW r \in wire, Notes!UpdateNote(r)
    PROVE  NoteIds' /\ NotesFollow'
<1>0. /\ IsRequest(r) /\ server \in Seq(Notes!Notes) /\ made' = made /\ notes' = notes
      /\ r.k = "update" /\ r.at = "sent" /\ DOMAIN server = 1 .. Len(server)
  BY DEF NoteTypes, Notes!UpdateNote, Notes!store
<1>1. server' = [k \in 1 .. Len(server) |->
                    IF server[k].id = r.id THEN [server[k] EXCEPT !.rev = @ + 1] ELSE server[k]]
  BY Zenon DEF Notes!UpdateNote
<1>2. /\ DOMAIN server' = DOMAIN server
      /\ \A k \in DOMAIN server : server'[k].id = server[k].id
      /\ \A k \in DOMAIN server : server[k].id # r.id => server'[k] = server[k]
  <2>1. ASSUME NEW k \in DOMAIN server
                 PROVE server'[k].id = server[k].id /\ (server[k].id # r.id =>
                         server'[k] = server[k])
    <3>1. server[k] = [id |-> server[k].id, rev |-> server[k].rev]
      BY <1>0, IdsAreNumbers DEF Notes!Notes
    <3>2. server'[k] = IF server[k].id = r.id THEN [server[k] EXCEPT !.rev = @ + 1] ELSE server[k]
      BY <1>0, <1>1
    <3>3. [server[k] EXCEPT !.rev = @ + 1].id = server[k].id
      BY <3>1
    <3> QED
      BY <3>2, <3>3
  <2> QED
    BY <1>0, <1>1, <2>1
<1>3. PICK S : S = {k \in DOMAIN server : server[k].id = r.id}
  OBVIOUS
<1>4. PICK now : now = Notes!Selected(server', S)
  OBVIOUS
<1>5. server' \in Seq(Notes!Notes)
  BY NotesTypesServed DEF NoteTypes
<1>6. /\ now \in Seq(Notes!Notes) /\ \A k \in DOMAIN now : \E i \in S : now[k] = server'[i]
      /\ \A i \in S : \E k \in DOMAIN now : now[k] = server'[i]
  <2>1. S \in SUBSET DOMAIN server'
    BY <1>2, <1>3
  <2>2. IsSelection(Notes!Notes, server', S, now)
    BY <1>4, <1>5, <2>1, NotesSelected, Zenon
  <2> QED
    BY <2>2, Zenon DEF IsSelection
<1>7. PICK h : h = [r EXCEPT !.at = "handled", !.ok = (now # <<>>), !.notes = now]
  OBVIOUS
<1>8. h.k = "update" /\ h.notes = now /\ h.id = r.id /\ h.ok = (now # <<>>)
  BY <1>0, <1>7 DEF IsRequest
<1>9. wire' = (wire \ {r}) \cup {h}
  BY <1>3, <1>4, <1>7, Zenon DEF Notes!UpdateNote, Notes!Handled
<1>10. NoteIds'
  <2>1. \A k \in DOMAIN h.notes : h.notes[k].id <= made
    BY <1>2, <1>3, <1>6, <1>8 DEF NoteIds
  <2>2. Unique(server)' /\ \A k \in DOMAIN server' : server'[k].id <= made
    BY <1>2 DEF NoteIds, Unique
  <2> QED
    BY <1>0, <1>9, <2>1, <2>2 DEF NoteIds
<1>11. NotesFollow'
  <2> SUFFICES ASSUME ~ crossed' PROVE NotesFollow'
    BY DEF NotesFollow
  <2>1. ~ crossed /\ \A q \in wire \ {r} : q.at # "handled"
    BY DEF Notes!UpdateNote, Notes!Crosses
  <2>2. \A q \in wire : ~ q.ok
    BY <1>0, <2>1 DEF NoteTypes, IsRequest
  <2>4. \A k \in DOMAIN notes : IsStored(notes[k])
    BY <2>1, <2>2 DEF NotesFollow
  <2>5. \A q \in wire' : q.ok => q = h
    BY <1>9, <2>2
  <2>6. \A k \in DOMAIN notes' :
           \/ IsStored(notes[k])'
           \/ \E q \in wire' : q.ok /\ q.k \in {"update", "delete"} /\ q.id = notes'[k].id
    <3> TAKE k \in DOMAIN notes'
    <3>1. PICK j \in DOMAIN server : server[j] = notes[k]
      BY <1>0, <2>4 DEF IsStored
    <3>2. CASE server[j].id = r.id
      <4>1. now # <<>>
        BY <1>3, <1>6, <3>2
      <4> QED
        BY <1>0, <1>8, <1>9, <3>1, <3>2, <4>1
    <3>3. CASE server[j].id # r.id
      BY <1>0, <1>2, <3>1, <3>3 DEF IsStored
    <3> QED
      BY <3>2, <3>3
  <2>7. Unique(notes)'
    BY <1>0, <2>1, Zenon DEF NotesFollow, Unique
  <2>8. h.ok => IsStored(h.notes[1])' /\ h.notes[1].id = h.id
    <3> SUFFICES ASSUME h.ok PROVE IsStored(h.notes[1])' /\ h.notes[1].id = h.id
      OBVIOUS
    <3>0. now \in Seq(Notes!Notes) /\ now # <<>>
      BY <1>6, <1>8
    <3>1. 1 \in DOMAIN now
      BY <3>0
    <3>2. PICK i \in S : now[1] = server'[i]
      BY <1>6, <3>1
    <3>3. i \in DOMAIN server' /\ server'[i].id = r.id
      BY <1>2, <1>3
    <3>4. h.notes[1] = server'[i]
      BY <1>8, <3>2
    <3> QED
      BY <1>8, <3>3, <3>4 DEF IsStored
  <2>9. \A q \in wire' : q.ok => q.k = "update"
    BY <1>8, <2>5
  <2> QED
    BY <2>5, <2>6, <2>7, <2>8, <2>9, Zenon DEF NotesFollow
<1> QED
  BY <1>10, <1>11

\* The notes without one of them.
IsWithout(s, i, w) ==
    /\ \A k \in DOMAIN w : \E j \in DOMAIN s : s[j].id # i /\ w[k] = s[j]
    /\ \A j \in DOMAIN s : s[j].id # i => \E k \in DOMAIN w : w[k] = s[j]
    /\ Unique(s) => Unique(w)

\* What a list is without a note.
LEMMA WithoutIs ==
    ASSUME NEW s \in Seq(Notes!Notes), NEW i
    PROVE  IsWithout(s, i, Notes!Without(s, i))
<1>1. PICK S : S = {k \in DOMAIN s : s[k].id # i}
  OBVIOUS
<1>2. PICK w : w = Notes!Selected(s, S)
  OBVIOUS
<1>3. S \in SUBSET DOMAIN s
  BY <1>1
<1>4. /\ w \in Seq(Notes!Notes) /\ \A k \in DOMAIN w : \E j \in S : w[k] = s[j]
      /\ \A j \in S : \E k \in DOMAIN w : w[k] = s[j]
      /\ (\A j, k \in S : s[j] = s[k] => j = k) => \A k, l \in DOMAIN w : w[k] = w[l] => k = l
  <2>1. IsSelection(Notes!Notes, s, S, w)
    BY <1>2, <1>3, NotesSelected, Zenon
  <2> QED
    BY <2>1, Zenon DEF IsSelection
<1>5. Notes!Without(s, i) = w
  BY <1>1, <1>2, Zenon DEF Notes!Without
<1>6. Unique(s) => Unique(w)
  <2> SUFFICES ASSUME Unique(s), NEW k \in DOMAIN w, NEW l \in DOMAIN w,
                        w[k].id = w[l].id PROVE k = l
    BY DEF Unique
  <2>1. PICK x \in S : w[k] = s[x]
    BY <1>4
  <2>2. PICK y \in S : w[l] = s[y]
    BY <1>4
  <2>3. x = y
    BY <1>3, <2>1, <2>2 DEF Unique
  <2>4. \A a, b \in S : s[a] = s[b] => a = b
    BY <1>3 DEF Unique
  <2> QED
    BY <1>4, <2>1, <2>2, <2>3, <2>4
<1>7. IsWithout(s, i, w)
  BY <1>1, <1>4, <1>6 DEF IsWithout
<1> QED
  BY <1>5, <1>7

\* The server deletes a note.
LEMMA DeleteKeeps ==
    ASSUME NotesAssumption, NoteTypes, NoteIds, NotesFollow, NEW r \in wire, Notes!DeleteNote(r)
    PROVE  NoteIds' /\ NotesFollow'
<1>0. /\ IsRequest(r) /\ server \in Seq(Notes!Notes) /\ made' = made /\ notes' = notes
      /\ r.k = "delete" /\ r.at = "sent" /\ server' = Notes!Without(server, r.id)
  BY DEF NoteTypes, Notes!DeleteNote, Notes!store
<1>1. PICK h : h = [r EXCEPT !.at = "handled", !.ok = TRUE]
  OBVIOUS
<1>2. h.k = "delete" /\ h.ok /\ h.id = r.id /\ h.notes = r.notes
  BY <1>0, <1>1 DEF IsRequest
<1>3. wire' = (wire \ {r}) \cup {h}
  BY <1>1, Zenon DEF Notes!DeleteNote, Notes!Handled
<1>4. /\ \A k \in DOMAIN server' : \E j \in DOMAIN server : server'[k] = server[j]
      /\ \A j \in DOMAIN server : server[j].id # r.id => \E k \in DOMAIN server' :
           server'[k] = server[j]
      /\ Unique(server) => Unique(server)'
  <2>1. IsWithout(server, r.id, server')
    BY <1>0, WithoutIs, Zenon
  <2> QED
    BY <2>1 DEF IsWithout, Unique
<1>5. NoteIds'
  <2>1. \A k \in DOMAIN server' : server'[k].id <= made
    BY <1>4 DEF NoteIds
  <2>2. \A k \in DOMAIN h.notes : h.notes[k].id <= made
    BY <1>2 DEF NoteIds
  <2> QED
    BY <1>0, <1>3, <1>4, <2>1, <2>2 DEF NoteIds
<1>6. NotesFollow'
  <2> SUFFICES ASSUME ~ crossed' PROVE NotesFollow'
    BY DEF NotesFollow
  <2>1. ~ crossed /\ \A q \in wire \ {r} : q.at # "handled"
    BY DEF Notes!DeleteNote, Notes!Crosses
  <2>2. \A q \in wire : ~ q.ok
    BY <1>0, <2>1 DEF NoteTypes, IsRequest
  <2>4. \A k \in DOMAIN notes : IsStored(notes[k])
    BY <2>1, <2>2 DEF NotesFollow
  <2>5. \A q \in wire' : q.ok => q = h
    BY <1>3, <2>2
  <2>6. \A k \in DOMAIN notes' :
           \/ IsStored(notes[k])'
           \/ \E q \in wire' : q.ok /\ q.k \in {"update", "delete"} /\ q.id = notes'[k].id
    <3> TAKE k \in DOMAIN notes'
    <3>1. PICK j \in DOMAIN server : server[j] = notes[k]
      BY <1>0, <2>4 DEF IsStored
    <3>2. CASE server[j].id = r.id
      BY <1>0, <1>2, <1>3, <3>1, <3>2
    <3>3. CASE server[j].id # r.id
      BY <1>0, <1>4, <3>1, <3>3 DEF IsStored
    <3> QED
      BY <3>2, <3>3
  <2>7. Unique(notes)'
    BY <1>0, <2>1, Zenon DEF NotesFollow, Unique
  <2>8. \A q \in wire' : q.ok => q.k = "delete"
    BY <1>2, <2>5
  <2> QED
    BY <2>5, <2>6, <2>7, <2>8, Zenon DEF NotesFollow
<1> QED
  BY <1>5, <1>6

\* A request fails.
LEMMA LostKeeps ==
    ASSUME NotesAssumption, NoteTypes, NoteIds, NotesFollow, NEW r \in wire, Notes!Lost(r)
    PROVE  NoteIds' /\ NotesFollow'
<1>0. /\ IsRequest(r) /\ UNCHANGED <<server, made, notes>>
      /\ crossed' = (crossed \/ (r.at = "handled" /\ r.k # "list"))
  BY DEF NoteTypes, Notes!Lost, Notes!store
<1>1. PICK h : h = [r EXCEPT !.at = "handled", !.ok = FALSE]
  OBVIOUS
<1>2. ~ h.ok /\ h.notes = r.notes
  BY <1>0, <1>1 DEF IsRequest
<1>3. wire' = (wire \ {r}) \cup {h}
  BY <1>1, Zenon DEF Notes!Lost, Notes!Handled
<1>4. NoteIds'
  <2>1. \A q \in wire' : \A k \in DOMAIN q.notes : q.notes[k].id <= made
    BY <1>2, <1>3 DEF NoteIds
  <2> QED
    BY <1>0, <2>1, Zenon DEF NoteIds, Unique
<1>5. NotesFollow'
  <2> SUFFICES ASSUME ~ crossed' PROVE NotesFollow'
    BY DEF NotesFollow
  <2>1. ~ crossed /\ (r.ok => r.k = "list")
    BY <1>0 DEF IsRequest
  <2>2. \A q \in wire' : q.ok => q \in wire
    BY <1>2, <1>3
  <2>3. \A q \in wire : q.ok /\ q.k \in {"update", "delete"} => q \in wire'
    BY <1>3, <2>1
  <2>4. \A q, s \in wire' : q.ok /\ s.ok => q = s
    BY <2>1, <2>2, Zenon DEF NotesFollow
  <2>5. \A k \in DOMAIN notes' :
           \/ IsStored(notes[k])'
           \/ \E q \in wire' : q.ok /\ q.k \in {"update", "delete"} /\ q.id = notes'[k].id
    BY <1>0, <2>1, <2>3, Zenon DEF NotesFollow, IsStored
  <2>6. \A q \in wire' : q.ok /\ q.k = "create" =>
              /\ server' # <<>> /\ q.notes = <<server'[1]>>
              /\ \A k \in DOMAIN notes' : notes'[k].id # server'[1].id
    BY <1>0, <2>1, <2>2, Zenon DEF NotesFollow
  <2>7. \A q \in wire' : q.ok /\ q.k = "update" => IsStored(q.notes[1])' /\ q.notes[1].id = q.id
    BY <1>0, <2>1, <2>2, Zenon DEF NotesFollow, IsStored
  <2>8. Unique(notes)'
    BY <1>0, <2>1, Zenon DEF NotesFollow, Unique
  <2> QED
    BY <2>4, <2>5, <2>6, <2>7, <2>8, Zenon DEF NotesFollow
<1> QED
  BY <1>4, <1>5

\* A list of the server's notes with one more in front.
LEMMA IdsWithOneMore ==
    ASSUME server \in Seq(Notes!Notes), made \in Nat, Unique(server),
           \A k \in DOMAIN server : server[k].id <= made,
           NEW n \in Notes!Notes, n.id = made + 1
    PROVE  /\ Unique(<<n>> \o server)
           /\ \A k \in DOMAIN (<<n>> \o server) : (<<n>> \o server)[k].id <= made + 1
<1>1. PICK s : s = <<n>> \o server
  OBVIOUS
<1>2. /\ s[1] = n /\ DOMAIN s = 1 .. Len(server) + 1
      /\ \A k \in DOMAIN s : k # 1 => k - 1 \in DOMAIN server /\ s[k] = server[k - 1]
  BY <1>1, Prepended
<1>3. \A k \in DOMAIN server : server[k].id <= made /\ server[k].id \in Nat
  BY IdsAreNumbers
<1>4. \A k \in DOMAIN s : s[k].id <= made + 1
  <2> TAKE k \in DOMAIN s
  <2>1. CASE k = 1
    BY <1>2, <2>1
  <2>2. CASE k # 1
    BY <1>2, <1>3, <2>2
  <2> QED
    BY <2>1, <2>2
<1>5. Unique(s)
  <2> SUFFICES ASSUME NEW j \in DOMAIN s, NEW k \in DOMAIN s, s[j].id = s[k].id PROVE j = k
    BY DEF Unique
  <2>1. \A x \in DOMAIN s : x # 1 => s[x].id <= made /\ s[x].id \in Nat
    BY <1>2, <1>3
  <2>2. j = 1 <=> k = 1
    BY <1>2, <2>1
  <2>3. CASE j # 1
    <3>1. server[j - 1].id = server[k - 1].id /\ j - 1 \in DOMAIN server /\
            k - 1 \in DOMAIN server
      BY <1>2, <2>2, <2>3
    <3>2. j - 1 = k - 1
      BY <3>1 DEF Unique
    <3> QED
      BY <1>2, <3>2
  <2> QED
    BY <2>2, <2>3
<1> QED
  BY <1>1, <1>4, <1>5

\* After a change on another screen nothing is promised until the next list.
LEMMA ElsewhereKeeps ==
    ASSUME NotesAssumption, NoteTypes, NoteIds, Notes!Elsewhere
    PROVE  NoteIds' /\ NotesFollow'
<1>0. /\ server \in Seq(Notes!Notes) /\ made \in Nat /\ crossed' = TRUE
      /\ notes \in Seq(Notes!Notes) /\ \A r \in wire : r.notes \in Seq(Notes!Notes)
      /\ UNCHANGED <<notes, wire>>
  BY DEF Notes!Elsewhere, Notes!store, NoteTypes, IsRequest
<1>1. /\ Unique(server)' /\ (\A k \in DOMAIN server' : server'[k].id <= made')
      /\ made' \in {made, made + 1}
  <2>1. CASE made < MaxNotes /\ made' = made + 1 /\ server' = <<[id |-> made + 1,
               rev |-> 0]>> \o server
    <3>1. PICK n : n = [id |-> made + 1, rev |-> 0]
      OBVIOUS
    <3>2. made + 1 \in 1 .. MaxNotes /\ 0 \in 0 .. MaxRevs
      BY <1>0, <2>1, NotesBounds
    <3>3. n \in Notes!Notes /\ n.id = made + 1
      BY <3>1, <3>2, NoteIs
    <3>4. server' = <<n>> \o server
      BY <2>1, <3>1
    <3> QED
      BY <1>0, <2>1, <3>3, <3>4, IdsWithOneMore DEF NoteIds, Unique
  <2>2. ASSUME NEW j \in 1 .. Len(server), server' = Notes!Without(server, server[j].id),
                 made' = made
        PROVE  Unique(server)' /\ \A k \in DOMAIN server' : server'[k].id <= made'
    <3>0. IsWithout(server, server[j].id, server')
      BY <1>0, <2>2, WithoutIs, Zenon
    <3>1. Unique(server)'
      BY <3>0, Zenon DEF IsWithout, NoteIds, Unique
    <3>2. \A k \in DOMAIN server' : \E x \in DOMAIN server : server'[k] = server[x]
      BY <3>0 DEF IsWithout
    <3> QED
      BY <2>2, <3>1, <3>2 DEF NoteIds
  <2> QED
    BY <2>1, <2>2 DEF Notes!Elsewhere
<1>2. \A k \in DOMAIN notes' : notes'[k].id <= made'
  <2>1. \A k \in DOMAIN notes : notes[k].id <= made /\ notes[k].id \in Nat
    BY <1>0, IdsAreNumbers DEF NoteIds
  <2> QED
    BY <1>0, <1>1, <2>1
<1>3. \A r \in wire' : \A k \in DOMAIN r.notes : r.notes[k].id <= made'
  <2>1. \A r \in wire : \A k \in DOMAIN r.notes : r.notes[k].id <= made /\ r.notes[k].id \in Nat
    BY <1>0, IdsAreNumbers DEF NoteIds
  <2> QED
    BY <1>0, <1>1, <2>1
<1> QED
  BY <1>0, <1>1, <1>2, <1>3 DEF NoteIds, NotesFollow

\* An answer that arrives does to the list what was done at the server.
LEMMA ArrivesKeeps ==
    ASSUME NotesAssumption, NoteTypes, NoteIds, NotesFollow, NEW r \in wire, Notes!Arrives(r)
    PROVE  NoteIds' /\ NotesFollow'
<1>0. /\ IsRequest(r) /\ server \in Seq(Notes!Notes) /\ notes \in Seq(Notes!Notes) /\
           r.notes \in Seq(Notes!Notes)
      /\ UNCHANGED <<server, made>> /\ wire' = wire \ {r} /\ r.at = "handled"
  BY DEF Notes!Arrives, NoteTypes, IsRequest
<1>1. \A ns : notes' = ns /\ (\A k \in DOMAIN ns : ns[k].id <= made) => NoteIds'
  BY <1>0 DEF NoteIds, Unique
\* While nothing crossed, an answer that changes the list is the only one.
<1>2. ASSUME ~ crossed, r.ok PROVE \A q \in wire' : ~ q.ok
  BY <1>0, <1>2 DEF NotesFollow
<1>3. \A ns : /\ notes' = ns /\ (\A q \in wire' : ~ q.ok)
              /\ (\A k \in DOMAIN ns : IsStored(ns[k])) /\ Unique(ns)
              => NotesFollow'
  <2> SUFFICES ASSUME NEW ns, notes' = ns, \A q \in wire' : ~ q.ok,
                      \A k \in DOMAIN ns : IsStored(ns[k]), Unique(ns)
               PROVE  NotesFollow'
    OBVIOUS
  <2>1. \A k \in DOMAIN notes' : IsStored(notes[k])'
    BY <1>0, Zenon DEF IsStored
  <2>2. Unique(notes)'
    BY Zenon DEF Unique
  <2> QED
    BY <2>1, <2>2, Zenon DEF NotesFollow
<1>4. CASE Notes!Fails(r)
  <2>0. ~ r.ok /\ notes' = notes /\ crossed' = crossed
    BY <1>4, Zenon DEF Notes!Fails, Notes!Ends
  <2>1. NoteIds'
    BY <1>1, <2>0 DEF NoteIds
  <2>2. NotesFollow'
    <3> SUFFICES ASSUME ~ crossed PROVE NotesFollow'
      BY <2>0 DEF NotesFollow
    <3>1. \A q : q \in wire /\ q.ok <=> q \in wire' /\ q.ok
      BY <1>0, <2>0
    <3>0. /\ \A k \in DOMAIN notes :
                \/ IsStored(notes[k])
                \/ \E q \in wire : q.ok /\ q.k \in {"update", "delete"} /\ q.id = notes[k].id
          /\ \A q \in wire : q.ok /\ q.k = "update" =>
                IsStored(q.notes[1]) /\ q.notes[1].id = q.id
      BY <1>0, Zenon DEF NotesFollow
    <3>5. \A n : IsStored(n)' <=> IsStored(n)
      BY <1>0, Zenon DEF IsStored
    <3>2. /\ \A k \in DOMAIN notes' :
                \/ IsStored(notes[k])'
                \/ \E q \in wire' : q.ok /\ q.k \in {"update", "delete"} /\ q.id = notes'[k].id
          /\ \A q \in wire' : q.ok /\ q.k = "update" =>
                IsStored(q.notes[1])' /\ q.notes[1].id = q.id
      <4>1. ASSUME NEW k \in DOMAIN notes'
            PROVE  \/ IsStored(notes[k])'
                   \/ \E q \in wire' : q.ok /\ q.k \in {"update", "delete"} /\ q.id = notes'[k].id
        <5>1. IsStored(notes[k])' <=> IsStored(notes[k])
          BY <1>0, <2>0, Zenon DEF IsStored
        <5>2. k \in DOMAIN notes
          BY <2>0, <4>1
        <5>3. CASE IsStored(notes[k])
          BY <5>1, <5>3
        <5>4. CASE \E q \in wire : q.ok /\ q.k \in {"update", "delete"} /\ q.id = notes[k].id
          BY <2>0, <3>1, <5>4, Zenon
        <5> QED
          BY <3>0, <5>2, <5>3, <5>4, Zenon
      <4>2. ASSUME NEW q \in wire', q.ok, q.k = "update"
            PROVE  IsStored(q.notes[1])' /\ q.notes[1].id = q.id
        BY <3>0, <3>1, <3>5, <4>2, Zenon
      <4> QED
        BY <4>1, <4>2
    <3>3. /\ \A q, s \in wire' : q.ok /\ s.ok => q = s
          /\ \A q \in wire' : q.ok /\ q.k = "create" =>
                /\ server' # <<>> /\ q.notes = <<server'[1]>>
                /\ \A k \in DOMAIN notes' : notes'[k].id # server'[1].id
      BY <1>0, <2>0, <3>1, Zenon DEF NotesFollow
    <3>4. Unique(notes)'
      BY <2>0, Zenon DEF NotesFollow, Unique
    <3> QED
      BY <3>2, <3>3, <3>4, Zenon DEF NotesFollow
  <2> QED
    BY <2>1, <2>2
<1>5. CASE Notes!Listed(r)
  <2>0. /\ r.ok /\ r.k = "list" /\ notes' = r.notes
        /\ crossed' = (r.notes # Notes!Page(r.page) \/ \E q \in wire \ {r} : q.at = "handled")
    BY <1>5, Zenon DEF Notes!Listed, Notes!Ends
  <2>1. NoteIds'
    BY <1>1, <2>0 DEF NoteIds
  <2>2. NotesFollow'
    <3> SUFFICES ASSUME ~ crossed' PROVE NotesFollow'
      BY DEF NotesFollow
    <3>1. r.notes = Notes!Page(r.page) /\ r.page \in Nat \ {0} /\ \A q \in wire' : ~ q.ok
      <4>1. r.notes = Notes!Page(r.page) /\ \A q \in wire \ {r} : q.at # "handled"
        BY <2>0
      <4>2. r.page \in Nat \ {0}
        BY <1>0, <2>0, NotesBounds DEF IsRequest
      <4> QED
        BY <1>0, <4>1, <4>2 DEF NoteTypes, IsRequest
    <3>2. \A k \in DOMAIN r.notes :
             (r.page - 1) * Limit + k \in DOMAIN server /\
               r.notes[k] = server[(r.page - 1) * Limit + k]
      BY <1>0, <3>1, PageIs
    <3>3. \A k \in DOMAIN r.notes : IsStored(r.notes[k])
      BY <3>2, Zenon DEF IsStored
    <3>4. Unique(r.notes)
      <4> SUFFICES ASSUME NEW j \in DOMAIN r.notes, NEW k \in DOMAIN r.notes,
                            r.notes[j].id = r.notes[k].id
                   PROVE  j = k
        BY DEF Unique
      <4>1. PICK a : a = (r.page - 1) * Limit
        OBVIOUS
      <4>2. a + j = a + k
        BY <3>2, <4>1 DEF NoteIds, Unique
      <4>3. j \in Int /\ k \in Int
        BY <1>0
      <4>4. a \in Int
        BY <3>1, <4>1, NotesBounds
      <4>5. \A x, y \in Int : a + x = a + y => x = y
        BY <4>4
      <4> QED
        BY <4>2, <4>3, <4>5
    <3> QED
      BY <1>3, <2>0, <3>1, <3>3, <3>4
  <2> QED
    BY <2>1, <2>2
<1>6. CASE Notes!Created(r)
  <2>0. r.ok /\ r.k = "create" /\ notes' = r.notes \o notes /\ crossed' = crossed
    BY <1>6, Zenon DEF Notes!Created, Notes!Ends
  <2>1. NoteIds'
    <3>1. \A k \in DOMAIN (r.notes \o notes) :
             \/ k \in DOMAIN r.notes /\ (r.notes \o notes)[k] = r.notes[k]
             \/ \E j \in DOMAIN notes : (r.notes \o notes)[k] = notes[j]
      <4> TAKE k \in DOMAIN (r.notes \o notes)
      <4>0. /\ Len(r.notes) \in Nat /\ Len(notes) \in Nat /\ k \in 1 .. Len(r.notes) + Len(notes)
            /\ DOMAIN r.notes = 1 .. Len(r.notes) /\ DOMAIN notes = 1 .. Len(notes)
        BY <1>0
      <4>1. CASE k <= Len(r.notes)
        BY <1>0, <4>0, <4>1
      <4>2. CASE k > Len(r.notes)
        <5>1. k - Len(r.notes) \in DOMAIN notes /\ (r.notes \o notes)[k] = notes[k - Len(r.notes)]
          BY <1>0, <4>0, <4>2
        <5> QED
          BY <5>1
      <4> QED
        BY <4>0, <4>1, <4>2
    <3>2. \A k \in DOMAIN (r.notes \o notes) : (r.notes \o notes)[k].id <= made
      BY <3>1 DEF NoteIds
    <3> QED
      BY <1>1, <2>0, <3>2
  <2>2. NotesFollow'
    <3> SUFFICES ASSUME ~ crossed PROVE NotesFollow'
      BY <2>0 DEF NotesFollow
    <3>0. PICK n : n = server[1]
      OBVIOUS
    <3>1. /\ server # <<>> /\ r.notes = <<n>> /\ \A k \in DOMAIN notes : notes[k].id # n.id
          /\ Unique(notes)
      BY <2>0, <3>0 DEF NotesFollow
    <3>2. \A k \in DOMAIN notes : IsStored(notes[k])
      <4> TAKE k \in DOMAIN notes
      <4>1. \A q \in wire : q.ok => q = r
        BY <2>0 DEF NotesFollow
      <4> QED
        BY <2>0, <4>1 DEF NotesFollow
    <3>3. n \in Notes!Notes /\ IsStored(n)
      BY <1>0, <3>0, <3>1 DEF IsStored
    <3>4. PICK s : s = <<n>> \o notes
      OBVIOUS
    <3>5. /\ s[1] = n /\ DOMAIN s = 1 .. Len(notes) + 1
          /\ \A k \in DOMAIN s : k # 1 => k - 1 \in DOMAIN notes /\ s[k] = notes[k - 1]
      BY <1>0, <3>3, <3>4, Prepended
    <3>6. \A k \in DOMAIN s : IsStored(s[k])
      BY <3>2, <3>3, <3>5, Zenon
    <3>7. Unique(s)
      <4> SUFFICES ASSUME NEW j \in DOMAIN s, NEW k \in DOMAIN s, s[j].id = s[k].id PROVE j = k
        BY DEF Unique
      <4>1. j = 1 <=> k = 1
        BY <3>1, <3>5
      <4>2. CASE j # 1
        <5>1. notes[j - 1].id = notes[k - 1].id /\ j - 1 \in DOMAIN notes /\
                k - 1 \in DOMAIN notes
          BY <3>5, <4>1, <4>2
        <5>2. j - 1 = k - 1
          BY <3>1, <5>1 DEF Unique
        <5> QED
          BY <3>5, <5>2
      <4> QED
        BY <4>1, <4>2
    <3> QED
      BY <1>2, <1>3, <2>0, <3>1, <3>4, <3>6, <3>7
  <2> QED
    BY <2>1, <2>2
<1>7. CASE Notes!Updated(r)
  <2>0. PICK ns : ns = [k \in 1 .. Len(notes) |-> IF notes[k].id = r.id THEN r.notes[1]
               ELSE notes[k]]
    OBVIOUS
  <2>1. r.ok /\ r.k = "update" /\ notes' = ns /\ crossed' = crossed
    BY <1>7, <2>0, Zenon DEF Notes!Updated, Notes!Ends
  <2>2. /\ DOMAIN ns = DOMAIN notes
        /\ \A k \in DOMAIN notes : ns[k] = IF notes[k].id = r.id THEN r.notes[1] ELSE notes[k]
    BY <1>0, <2>0
  <2>3. NoteIds'
    <3>1. r.notes # <<>>
      BY <1>0, <2>1 DEF IsRequest
    <3>2. 1 \in DOMAIN r.notes
      BY <1>0, <3>1
    <3>3. \A k \in DOMAIN ns : ns[k].id <= made
      BY <2>2, <3>2 DEF NoteIds
    <3> QED
      BY <1>1, <2>1, <3>3
  <2>4. NotesFollow'
    <3> SUFFICES ASSUME ~ crossed PROVE NotesFollow'
      BY <2>1 DEF NotesFollow
    <3>1. IsStored(r.notes[1]) /\ r.notes[1].id = r.id /\ Unique(notes)
      BY <2>1 DEF NotesFollow
    <3>2. \A k \in DOMAIN notes : IsStored(notes[k]) \/ notes[k].id = r.id
      <4>1. \A q \in wire : q.ok => q = r
        BY <2>1 DEF NotesFollow
      <4> QED
        BY <2>1, <4>1 DEF NotesFollow
    <3>3. \A k \in DOMAIN ns : IsStored(ns[k])
      <4> TAKE k \in DOMAIN ns
      <4>1. CASE notes[k].id = r.id
        BY <2>2, <3>1, <4>1
      <4>2. CASE notes[k].id # r.id
        BY <2>2, <3>2, <4>2
      <4> QED
        BY <4>1, <4>2
    <3>4. \A k \in DOMAIN ns : ns[k].id = notes[k].id
      BY <2>2, <3>1
    <3>5. Unique(ns)
      BY <2>2, <3>1, <3>4, Zenon DEF Unique
    <3> QED
      BY <1>2, <1>3, <2>1, <3>3, <3>5
  <2> QED
    BY <2>3, <2>4
<1>8. CASE Notes!Deleted(r)
  <2> DEFINE ns == Notes!Without(notes, r.id)
  <2>1. r.ok /\ r.k = "delete" /\ notes' = ns /\ crossed' = crossed
    BY <1>8, Zenon DEF Notes!Deleted, Notes!Ends
  <2>2. /\ \A k \in DOMAIN ns : \E j \in DOMAIN notes : notes[j].id # r.id /\ ns[k] = notes[j]
        /\ Unique(notes) => Unique(ns)
    <3>1. IsWithout(notes, r.id, ns)
      BY <1>0, WithoutIs, Zenon
    <3> QED
      BY <3>1, Zenon DEF IsWithout
  <2> HIDE DEF ns
  <2>3. NoteIds'
    <3>1. \A k \in DOMAIN ns : ns[k].id <= made
      BY <2>2 DEF NoteIds
    <3> QED
      BY <1>1, <2>1, <3>1
  <2>4. NotesFollow'
    <3> SUFFICES ASSUME ~ crossed PROVE NotesFollow'
      BY <2>1 DEF NotesFollow
    <3>1. Unique(notes)
      BY DEF NotesFollow
    <3>2. \A k \in DOMAIN notes : IsStored(notes[k]) \/ notes[k].id = r.id
      <4>1. \A q \in wire : q.ok => q = r
        BY <2>1 DEF NotesFollow
      <4> QED
        BY <2>1, <4>1 DEF NotesFollow
    <3>3. \A k \in DOMAIN ns : IsStored(ns[k])
      BY <2>2, <3>2, Zenon
    <3> QED
      BY <1>2, <1>3, <2>1, <2>2, <3>1, <3>3
  <2> QED
    BY <2>3, <2>4
<1> QED
  BY <1>4, <1>5, <1>6, <1>7, <1>8 DEF Notes!Arrives

\* Every step keeps the invariant.
LEMMA NotesHoldNext ==
    ASSUME NotesAssumption, NotesInvariant, [Notes!Next]_Notes!vars
    PROVE  NotesInvariant'
<1>1. NoteTypes /\ NoteIds /\ NotesFollow /\ NoteTypes'
  BY NotesTypesNext DEF NotesInvariant
<1>2. CASE Notes!Next
  BY <1>1, <1>2, ListKeeps, CreateKeeps, UpdateKeeps, DeleteKeeps, LostKeeps, ArrivesKeeps,
     ElsewhereKeeps, ScreenIsQuiet, QuietKeeps
     DEF Notes!Next, NotesInvariant
<1>3. CASE UNCHANGED Notes!vars
  <2>1. NotesQuiet
    BY <1>3 DEF Notes!vars, Notes!store, NotesQuiet
  <2> QED
    BY <1>1, <2>1, QuietKeeps DEF NotesInvariant
<1> QED
  BY <1>2, <1>3

\* The invariant says what is checked of the list.
LEMMA NotesAreListed == NotesInvariant => Notes!ListIsTrue
<1> SUFFICES ASSUME NotesInvariant PROVE Notes!ListIsTrue
  OBVIOUS
<1>1. /\ server \in Seq(Notes!Notes) /\ notes \in Seq(Notes!Notes) /\ NotesFollow
  BY DEF NotesInvariant, NoteTypes
<1>2. Notes!NothingTwice
  BY <1>1 DEF Notes!NothingTwice, NotesFollow, Unique
<1>3. Notes!NotesExist
  <2> SUFFICES ASSUME ~ crossed, ~ Notes!Writing, NEW n \in Notes!Range(notes)
               PROVE  n \in Notes!Range(server)
    BY DEF Notes!NotesExist
  <2>1. \A r \in wire : r.k = "list"
    BY DEF Notes!Writing
  <2>2. PICK k \in DOMAIN notes : n = notes[k]
    BY DEF Notes!Range
  <2>3. IsStored(n)
    BY <1>1, <2>1, <2>2 DEF NotesFollow
  <2> QED
    BY <2>3 DEF IsStored, Notes!Range
<1> QED
  BY <1>2, <1>3 DEF Notes!ListIsTrue

\* What is typed into a note stays but where the module says so.
LEMMA TextKept ==
    ASSUME NotesAssumption, NoteTypes, [Notes!Next]_Notes!vars
    PROVE  Notes!KeepsText
<1> SUFFICES ASSUME editor # None, editor.typed, editor' = None \/ ~ editor'.typed,
                    ~ Notes!CloseEditor, ~ Notes!HideJournal, ~ (notes = <<>> /\ loading')
             PROVE  \E r \in wire : Notes!Arrives(r) /\ r.ok /\ r.k \in {"create", "update"}
  BY Zenon DEF Notes!KeepsText
<1>1. shown /\ editor \in Editors /\ editor' # editor
  BY DEF NoteTypes, Editors
<1>2. CASE \E r \in wire : \/ Notes!ListNotes(r) \/ Notes!CreateNote(r) \/ Notes!UpdateNote(r)
                           \/ Notes!DeleteNote(r) \/ Notes!Lost(r)
  BY <1>1, <1>2, Zenon
     DEF Notes!ListNotes, Notes!CreateNote, Notes!UpdateNote, Notes!DeleteNote, Notes!Lost
<1>3. CASE \E r \in wire : Notes!Arrives(r)
  <2>1. PICK r \in wire : Notes!Arrives(r)
    BY <1>3
  <2>2. ASSUME NEW ns, Notes!Ends(ns, editor) PROVE FALSE
    <3>1. editor' = editor
      BY <1>1, <2>2 DEF Notes!Ends, Notes!Kept, Notes!Skeleton
    <3> QED
      BY <1>1, <3>1
  <2>3. Notes!Created(r) \/ Notes!Updated(r)
    BY <2>1, <2>2, Zenon DEF Notes!Arrives, Notes!Fails, Notes!Listed, Notes!Deleted
  <2> QED
    BY <2>1, <2>3 DEF Notes!Created, Notes!Updated
<1>4. CASE Notes!Elsewhere
  BY <1>1, <1>4, Zenon DEF Notes!Elsewhere
<1>5. CASE Notes!ShowJournal
  BY <1>1, <1>5, Zenon DEF Notes!ShowJournal
<1>6. CASE \E p \in 1 .. MaxNotes + 1 : Notes!TurnPage(p) \/ Notes!JumpTo(p)
  BY <1>1, <1>6, Zenon DEF Notes!TurnPage, Notes!JumpTo
<1>7. CASE \E i \in 1 .. MaxNotes \cup {New} : Notes!OpenEditor(i)
  BY <1>7, Zenon DEF Notes!OpenEditor
<1>8. CASE Notes!Type
  <2>1. editor' = [editor EXCEPT !.typed = TRUE]
    BY <1>8, Zenon DEF Notes!Type
  <2>2. editor' \in Editors /\ editor'.typed
    BY <1>1, <2>1 DEF Editors
  <2> QED
    BY <2>2 DEF NotesAssumption, Notes!BoundAssumption, Editors
<1>9. CASE Notes!Submit
  <2>1. loading' = TRUE /\ editor' = Notes!Kept(editor, shown, TRUE, notes)
    BY <1>9, Zenon DEF Notes!Submit, Notes!Ask
  <2> QED
    BY <1>1, <2>1 DEF Notes!Kept, Notes!Skeleton
<1>10. CASE \E i \in 1 .. MaxNotes : Notes!Delete(i)
  BY <1>1, <1>10, Zenon DEF Notes!Delete
<1>11. CASE UNCHANGED Notes!vars
  BY <1>1, <1>11, Zenon DEF Notes!vars
<1> QED
  BY <1>2, <1>3, <1>4, <1>5, <1>6, <1>7, <1>8, <1>9, <1>10, <1>11, Zenon DEF Notes!Next

\* The types of the proof say more than those that are checked.
LEMMA NotesTyped == NotesAssumption /\ NoteTypes => Notes!TypeOK
<1> SUFFICES ASSUME NotesAssumption, NoteTypes PROVE Notes!TypeOK
  OBVIOUS
<1>1. Notes!Cardinality(wire) <= MaxWire
  BY NotesCardinality, Zenon DEF NoteTypes
<1>2. editor = None \/ (editor.of \in 1 .. MaxNotes \cup {New} /\ editor.typed \in BOOLEAN)
  BY DEF NoteTypes
<1>3. /\ server \in Seq(Notes!Notes) /\ made \in 0 .. MaxNotes /\ notes \in Seq(Notes!Notes)
      /\ pages.page \in 1 .. MaxNotes + 1 /\ pages.all \in 0 .. MaxNotes
      /\ {loading, error, shown, crossed} \subseteq BOOLEAN
      /\ gets \in 0 .. MaxGets /\ others \in 0 .. MaxOthers
  BY Zenon DEF NoteTypes
<1> QED
  BY <1>1, <1>2, <1>3, Zenon DEF Notes!TypeOK

-----------------------------------------------------------------------------
(* The safety check *)

\* SafetyCheck has its own copy of the definition of Cardinality.
LEMMA SafetyCardinality == \A S : Safety!Cardinality(S) = Cardinality(S)
  BY DEF Safety!Cardinality, Cardinality

SafetyTrades == [at : 1 .. MaxTime, venue : Venues, verdict : Verdicts \cup {None}]

\* The bounds are numbers.
LEMMA SafetyBounds ==
    ASSUME Safety!BoundAssumption
    PROVE  /\ MaxTrades \in Nat \ {0} /\ MaxTime \in Nat \ {0} /\ CardLimit \in Nat \ {0}
           /\ Window \in Nat /\ MaxLoads \in Nat /\ MaxSubmits \in Nat /\ MaxFaults \in Nat
           /\ None \notin Verdicts /\ Everything \notin Venues
  BY DEF Safety!BoundAssumption

\* The list of a filter is of trades, as many as the filter lets through and the limit allows.
LEMMA ListedIs ==
    ASSUME Safety!BoundAssumption, trades \in Seq(SafetyTrades), NEW f
    PROVE  Safety!Listed(f) \in Seq(Safety!Ids)
<1> DEFINE all == Safety!Through(f)
           Below(i) == {j \in all : Safety!Before(j, i)}
           n == Cardinality(all)
           rank == [i \in all |-> Cardinality(Below(i))]
           skipped == IF n > CardLimit THEN n - CardLimit ELSE 0
<1>1. Len(trades) \in Nat /\ Safety!Ids = 1 .. Len(trades) /\ all \in SUBSET (1 .. Len(trades))
  BY DEF Safety!Ids, Safety!Through
<1>2. IsFiniteSet(all) /\ n \in Nat
  <2>1. IsFiniteSet(1 .. Len(trades))
    BY <1>1, FS_Interval
  <2> QED
    BY <1>1, <2>1, FS_Subset, FS_CardinalityType
<1>3. \A i \in all : trades[i].at \in Int /\ i \in Int
  <2>1. MaxTime \in Nat
    BY SafetyBounds
  <2> TAKE i \in all
  <2>2. trades[i] \in SafetyTrades /\ i \in Int
    BY <1>1
  <2>3. trades[i].at \in 1 .. MaxTime
    BY <2>2 DEF SafetyTrades
  <2> QED
    BY <2>1, <2>2, <2>3
<1> HIDE DEF all
<1>4. /\ \A i \in all : ~ Safety!Before(i, i)
      /\ \A i, j \in all : i # j => Safety!Before(i, j) \/ Safety!Before(j, i)
      /\ \A i, j, k \in all : Safety!Before(i, j) /\ Safety!Before(j, k) => Safety!Before(i, k)
  BY <1>3 DEF Safety!Before
<1>5. \A i \in all : IsFiniteSet(Below(i)) /\ Cardinality(Below(i)) \in 0 .. n - 1
  <2> TAKE i \in all
  <2>1. Below(i) \in SUBSET (all \ {i})
    BY <1>4
  <2>2. IsFiniteSet(all \ {i}) /\ Cardinality(all \ {i}) = n - 1
    BY <1>2, FS_RemoveElement
  <2>3. IsFiniteSet(Below(i)) /\ Cardinality(Below(i)) <= n - 1
    BY <2>1, <2>2, FS_Subset
  <2>4. Cardinality(Below(i)) \in Nat
    BY <2>3, FS_CardinalityType
  <2> QED
    BY <1>2, <2>3, <2>4
<1>6. \A i, j \in all : Cardinality(Below(i)) = Cardinality(Below(j)) => i = j
  <2>1. ASSUME NEW i \in all, NEW j \in all, Safety!Before(i, j)
        PROVE  Cardinality(Below(i)) # Cardinality(Below(j))
    <3>1. Below(i) \in SUBSET Below(j) /\ i \in Below(j) /\ i \notin Below(i)
      BY <1>4, <2>1
    <3> QED
      BY <1>5, <3>1, FS_Subset
  <2> QED
    BY <1>4, <2>1
<1>7. IsFiniteSet(0 .. n - 1) /\ Cardinality(0 .. n - 1) = n
  <2>1. ASSUME NEW m \in Nat PROVE IsFiniteSet(0 .. m - 1) /\ Cardinality(0 .. m - 1) = m
    <3>1. 0 \in Int /\ m - 1 \in Int /\ (IF 0 > m - 1 THEN 0 ELSE m - 1 - 0 + 1) = m
      OBVIOUS
    <3> QED
      BY <3>1, FS_Interval, Zenon
  <2> QED
    BY <1>2, <2>1, Zenon
<1>8. rank \in Injection(all, 0 .. n - 1)
  <2>1. rank \in [all -> 0 .. n - 1]
    BY <1>5, Zenon
  <2>2. \A i, j \in all : rank[i] = rank[j] => i = j
    BY <1>6, Zenon
  <2> HIDE DEF rank
  <2> QED
    BY <2>1, <2>2 DEF Injection, IsInjective
<1>9. rank \in Surjection(all, 0 .. n - 1)
  BY <1>7, <1>8, FS_Injection
<1>10. \A r \in 0 .. n - 1 : \E i \in all : Cardinality(Below(i)) = r
  BY <1>9 DEF Surjection
<1>11. skipped \in 0 .. n
  BY <1>2, SafetyBounds
<1>12. \A k \in 1 .. n - skipped : skipped + k - 1 \in 0 .. n - 1
  BY <1>2, <1>11
<1>13. \A k \in 1 .. n - skipped :
          (CHOOSE i \in all : Cardinality(Below(i)) = skipped + k - 1) \in all
  BY <1>10, <1>12
<1>14. Safety!Listed(f) = [k \in 1 .. n - skipped |->
          CHOOSE i \in all : Cardinality(Below(i)) = skipped + k - 1]
  BY DEF Safety!Listed, Safety!Cardinality, Cardinality, all
<1>15. n - skipped \in Nat
  BY <1>2, <1>11
<1>16. \A k \in 1 .. n - skipped : Safety!Listed(f)[k] \in Safety!Ids
  BY <1>1, <1>13, <1>14
<1>17. DOMAIN Safety!Listed(f) = 1 .. n - skipped
  BY <1>14
<1>18. Safety!Listed(f) \in [1 .. n - skipped -> Safety!Ids]
  BY <1>14, <1>16, <1>17, Zenon
<1> HIDE DEF n, skipped
<1> QED
  BY <1>15, <1>18, SeqDef, Zenon

\* A group is a sequence of trades that are there, and not empty.
LEMMA GroupsAre ==
    ASSUME Safety!BoundAssumption, trades \in Seq(SafetyTrades), NEW f, NEW g \in Safety!Groups(f)
    PROVE  g \in Seq(Safety!Ids) \ {<<>>}
<1>1. Safety!Listed(f) \in Seq(Safety!Ids)
  BY ListedIs
<1>2. PICK a \in DOMAIN Safety!Listed(f), b \in DOMAIN Safety!Listed(f) :
          a <= b /\ g = SubSeq(Safety!Listed(f), a, b)
  BY DEF Safety!Groups
<1> QED
  BY <1>1, <1>2

\* A label is a verdict all trades of the group have.
LEMMA LabelIs ==
    ASSUME Safety!BoundAssumption, trades \in Seq(SafetyTrades),
             NEW g \in Seq(Safety!Ids) \ {<<>>}
    PROVE  /\ Safety!Label(g) \in Verdicts \cup {None}
           /\ Safety!Label(g) # None =>
                \A k \in DOMAIN g : trades[g[k]].verdict = Safety!Label(g)
<1>1. CASE Safety!Reviewed(g) /\ Safety!Cardinality(Safety!VerdictsOf(g)) = 1
  <2>1. \A k \in DOMAIN g : g[k] \in DOMAIN trades
    BY DEF Safety!Ids
  <2>2. \A i \in DOMAIN trades : trades[i].verdict \in Verdicts \cup {None}
    <3> TAKE i \in DOMAIN trades
    <3>1. trades[i] \in SafetyTrades
      OBVIOUS
    <3> QED
      BY <3>1 DEF SafetyTrades
  <2>3. Safety!VerdictsOf(g) \in SUBSET Verdicts
    BY <2>1, <2>2 DEF Safety!VerdictsOf
  <2>4. IsFiniteSet(Safety!VerdictsOf(g))
    <3> DEFINE h == [k \in 1 .. Len(g) |-> trades[g[k]].verdict]
               T == {trades[g[k]].verdict : k \in 1 .. Len(g)}
    <3>1. h \in Surjection(1 .. Len(g), T)
      BY DEF Surjection
    <3>2. IsFiniteSet(1 .. Len(g))
      BY FS_Interval
    <3>3. IsFiniteSet(T)
      BY <3>1, <3>2, FS_Surjection
    <3>4. Safety!VerdictsOf(g) \in SUBSET T
      BY DEF Safety!VerdictsOf
    <3> QED
      BY <3>3, <3>4, FS_Subset
  <2>5. Cardinality(Safety!VerdictsOf(g)) = 1
    BY <1>1, SafetyCardinality, Zenon
  <2>6. PICK v : Safety!VerdictsOf(g) = {v}
    BY <2>4, <2>5, FS_Singleton, Zenon
  <2>7. Safety!Label(g) = v
    BY <1>1, <2>6 DEF Safety!Label
  <2>8. \A k \in DOMAIN g : trades[g[k]].verdict = v
    BY <1>1, <2>6 DEF Safety!Reviewed, Safety!VerdictsOf
  <2> QED
    BY <2>3, <2>6, <2>7, <2>8, Zenon
<1>2. CASE ~ (Safety!Reviewed(g) /\ Safety!Cardinality(Safety!VerdictsOf(g)) = 1)
  <2>1. Safety!Label(g) = None
    BY <1>2, Zenon DEF Safety!Label
  <2> QED
    BY <2>1
<1> QED
  BY <1>1, <1>2

SafetyItems ==
    [members : Seq(Safety!Ids) \ {<<>>}, reviewed : BOOLEAN, verdict : Verdicts \cup {None}]
SafetyLoads ==
    [of : Safety!Filters, by : Nat \cup {None}, done : BOOLEAN, ok : BOOLEAN,
     items : SUBSET SafetyItems, n : Nat]
SafetySubmits ==
    [members : Seq(Safety!Ids) \ {<<>>}, verdict : Verdicts, next : Nat, of : Safety!Filters,
      n : Nat]

SafetyTypes ==
    /\ trades \in Seq(SafetyTrades)
    /\ safety = None \/ safety \in [of : Safety!Filters, items : SUBSET SafetyItems]
    /\ loading \in BOOLEAN /\ error \in BOOLEAN /\ crossed \in BOOLEAN
    /\ submitting \in Safety!Ids \cup {None} /\ venue \in Safety!Filters
    /\ mixed \in SUBSET Safety!Ids
    /\ loads \in SUBSET SafetyLoads /\ \A l \in loads : l.n <= asked
    /\ submits \in SUBSET SafetySubmits
    /\ \A s \in submits : s.next \in 1 .. Len(s.members) + 1
    /\ asked \in Nat /\ given \in 0 .. MaxSubmits /\ faults \in 0 .. MaxFaults
    /\ IsFiniteSet(submits) /\ Cardinality(submits) <= given
    /\ asked + Cardinality(submits) <= MaxLoads + given

\* The types of the proof say more than those that are checked.
LEMMA SafetyTyped == ASSUME Safety!BoundAssumption, SafetyTypes PROVE Safety!TypeOK
<1>1. safety = None \/ (safety.of \in Safety!Filters /\ \A x \in safety.items : x.members # <<>>)
  BY DEF SafetyTypes, SafetyItems
<1>2. /\ {loading, error, crossed} \subseteq BOOLEAN
      /\ trades \in Seq([at : 1 .. MaxTime, venue : Venues, verdict : Verdicts \cup {None}])
      /\ submitting \in Safety!Ids \cup {None} /\ venue \in Safety!Filters /\
           mixed \subseteq Safety!Ids
      /\ \A s \in submits : s.next \in 1 .. Len(s.members) + 1
      /\ given \in 0 .. MaxSubmits /\ faults \in 0 .. MaxFaults
  BY DEF SafetyTypes, SafetyTrades
<1>3. asked \in 0 .. MaxLoads + MaxSubmits
  <2>1. Cardinality(submits) \in Nat
    BY FS_CardinalityType DEF SafetyTypes
  <2> QED
    BY <2>1, SafetyBounds DEF SafetyTypes
<1> QED
  BY <1>1, <1>2, <1>3, Zenon DEF Safety!TypeOK

\* With more trades an item of the card remains one.
LEMMA ItemsGrow ==
    ASSUME trades \in Seq(SafetyTrades), trades' \in Seq(SafetyTrades),
             Len(trades) <= Len(trades')
    PROVE  /\ Safety!Ids \subseteq Safety!Ids' /\ SafetyItems \subseteq SafetyItems'
           /\ SafetyLoads \subseteq SafetyLoads' /\ SafetySubmits \subseteq SafetySubmits'
<1>1. Safety!Ids \subseteq Safety!Ids'
  BY DEF Safety!Ids
<1>2. Seq(Safety!Ids) \ {<<>>} \subseteq Seq(Safety!Ids') \ {<<>>}
  BY <1>1, SeqMonotonic
<1>3. SafetyItems \subseteq SafetyItems'
  BY <1>2 DEF SafetyItems
<1>4. SafetyLoads \subseteq SafetyLoads'
  BY <1>3 DEF SafetyLoads, Safety!Filters
<1>5. SafetySubmits \subseteq SafetySubmits'
  BY <1>2 DEF SafetySubmits, Safety!Filters
<1> QED
  BY <1>1, <1>3, <1>4, <1>5

\* A verdict is written to one trade and no other.
LEMMA UpsertIs ==
    ASSUME trades \in Seq(SafetyTrades), NEW i \in Safety!Ids, NEW v \in Verdicts,
             Safety!Upsert(i, v)
    PROVE  /\ trades' \in Seq(SafetyTrades) /\ Len(trades') = Len(trades)
           /\ trades'[i].verdict = v
           /\ \A j \in Safety!Ids : j # i => trades'[j] = trades[j]
<1>1. trades' = [trades EXCEPT ![i] = [trades[i] EXCEPT !.verdict = v]]
  BY DEF Safety!Upsert
<1>2. trades[i] \in SafetyTrades /\ i \in 1 .. Len(trades)
  BY DEF Safety!Ids
<1>3. [trades[i] EXCEPT !.verdict = v] \in SafetyTrades /\
        [trades[i] EXCEPT !.verdict = v].verdict = v
  BY <1>2 DEF SafetyTrades
<1>4. PICK e \in SafetyTrades : e.verdict = v /\ e = [trades[i] EXCEPT !.verdict = v]
  BY <1>3
<1>5. trades' = [trades EXCEPT ![i] = e]
  BY <1>1, <1>4, Zenon
<1> HIDE DEF SafetyTrades
<1>6. trades' \in Seq(SafetyTrades) /\ Len(trades') = Len(trades) /\
        DOMAIN trades' = DOMAIN trades
  BY <1>2, <1>5
<1>7. trades'[i] = e
  BY <1>2, <1>5
<1>8. \A j \in Safety!Ids : j # i => trades'[j] = trades[j]
  BY <1>5, Zenon DEF Safety!Ids
<1> QED
  BY <1>4, <1>6, <1>7, <1>8

\* The types hold at first.
LEMMA SafetyTypesInit == ASSUME Safety!BoundAssumption, Safety!Init PROVE SafetyTypes
<1>1. /\ trades = <<>> /\ safety = None /\ loading = TRUE /\ error = FALSE /\ submitting = None
      /\ venue = Everything /\ submits = {} /\ asked = 0 /\ given = 0 /\ faults = 0
      /\ crossed = FALSE /\ mixed = {}
      /\ loads = {[of |-> Everything, by |-> None, done |-> FALSE, ok |-> FALSE, items |-> {},
           n |-> 0]}
  BY Zenon DEF Safety!Init
<1>2. Cardinality(submits) = 0 /\ IsFiniteSet(submits)
  BY <1>1, FS_EmptySet
<1>3. loads \in SUBSET SafetyLoads /\ \A l \in loads : l.n = 0
  BY <1>1 DEF SafetyLoads, Safety!Filters
<1>4. trades \in Seq(SafetyTrades)
  BY <1>1
<1>5. venue \in Safety!Filters
  BY <1>1, Zenon DEF Safety!Filters
<1>6. /\ asked \in Nat /\ given \in 0 .. MaxSubmits /\ faults \in 0 .. MaxFaults
      /\ asked + Cardinality(submits) <= MaxLoads + given /\ Cardinality(submits) <= given
  BY <1>1, <1>2, SafetyBounds
<1>7. \A l \in loads : l.n <= asked
  BY <1>1, <1>3
<1> QED
  BY <1>1, <1>2, <1>3, <1>4, <1>5, <1>6, <1>7 DEF SafetyTypes

ListedItems(f) ==
    {[members |-> g, reviewed |-> Safety!Reviewed(g), verdict |-> Safety!Label(g)] :
      g \in Safety!Groups(f)}

\* What the server lists are items.
LEMMA ListedItemsAre ==
    ASSUME Safety!BoundAssumption, trades \in Seq(SafetyTrades), NEW f
    PROVE  ListedItems(f) \in SUBSET SafetyItems
<1> SUFFICES ASSUME NEW g \in Safety!Groups(f)
             PROVE  [members |-> g, reviewed |-> Safety!Reviewed(g), verdict |-> Safety!Label(g)]
                        \in SafetyItems
  BY DEF ListedItems
<1>1. g \in Seq(Safety!Ids) \ {<<>>}
  BY GroupsAre
<1>2. Safety!Label(g) \in Verdicts \cup {None}
  BY <1>1, LabelIs
<1>3. Safety!Reviewed(g) \in BOOLEAN
  BY DEF Safety!Reviewed
<1> QED
  BY <1>1, <1>2, <1>3 DEF SafetyItems

\* How a load is changed by an answer, or by the loss of one.
LEMMA AnswerIs ==
    ASSUME Safety!BoundAssumption, trades \in Seq(SafetyTrades), NEW l \in loads,
           loads \in SUBSET SafetyLoads, Safety!ListDaily(l) \/ Safety!LoadLost(l)
    PROVE  \E m \in SafetyLoads :
              /\ loads' = (loads \ {l}) \cup {m} /\ m.n = l.n /\ m.of = l.of
              /\ m.items = {} \/ m.items = ListedItems(l.of)
<1>1. PICK xs, ok, m :
          /\ xs \in SUBSET SafetyItems /\ ok \in BOOLEAN
          /\ xs = {} \/ xs = ListedItems(l.of)
          /\ m = [l EXCEPT !.done = TRUE, !.ok = ok, !.items = xs]
          /\ loads' = (loads \ {l}) \cup {m}
  <2>1. CASE Safety!ListDaily(l)
    <3>1. ListedItems(l.of) \in SUBSET SafetyItems
      BY ListedItemsAre
    <3>2. loads' = (loads \ {l}) \cup {[l EXCEPT !.done = TRUE, !.ok = TRUE,
            !.items = ListedItems(l.of)]}
      BY <2>1, Zenon DEF Safety!ListDaily, ListedItems
    <3> QED
      BY <3>1, <3>2, Zenon
  <2>2. CASE Safety!LoadLost(l)
    <3>1. loads' = (loads \ {l}) \cup {[l EXCEPT !.done = TRUE, !.ok = FALSE, !.items = {}]}
      BY <2>2, Zenon DEF Safety!LoadLost
    <3>2. {} \in SUBSET SafetyItems
      OBVIOUS
    <3> QED
      BY <3>1, <3>2, Zenon
  <2> QED
    BY <2>1, <2>2
<1>2. l = [of |-> l.of, by |-> l.by, done |-> l.done, ok |-> l.ok, items |-> l.items, n |-> l.n]
  BY DEF SafetyLoads
<1>3. m = [of |-> l.of, by |-> l.by, done |-> TRUE, ok |-> ok, items |-> xs, n |-> l.n]
  BY <1>1, <1>2
<1>4. m \in SafetyLoads /\ m.n = l.n /\ m.of = l.of /\ m.items = xs
  BY <1>1, <1>3 DEF SafetyLoads
<1> QED
  BY <1>1, <1>4, Zenon

\* The answer to a load keeps the types.
LEMMA TypesAnswered ==
    ASSUME Safety!BoundAssumption, SafetyTypes, NEW l \in loads,
           Safety!ListDaily(l) \/ Safety!LoadLost(l)
    PROVE  SafetyTypes'
<1>1. PICK m \in SafetyLoads :
          /\ loads' = (loads \ {l}) \cup {m} /\ m.n = l.n
  BY AnswerIs, Zenon DEF SafetyTypes
<1>2. /\ UNCHANGED <<trades, safety, loading, error, submitting, venue, submits, asked, given,
           crossed, mixed>>
      /\ faults' = faults \/ (faults < MaxFaults /\ faults' = faults + 1)
  BY Zenon DEF Safety!ListDaily, Safety!LoadLost, Safety!card
<1>3. Safety!Ids' = Safety!Ids /\ SafetyItems' = SafetyItems /\ SafetyLoads' = SafetyLoads
      /\ SafetySubmits' = SafetySubmits /\ Safety!Filters' = Safety!Filters
  BY <1>2 DEF Safety!Ids, SafetyItems, SafetyLoads, SafetySubmits, Safety!Filters
<1>4. faults' \in 0 .. MaxFaults
  BY <1>2, SafetyBounds DEF SafetyTypes
<1>5. loads' \in SUBSET SafetyLoads /\ \A q \in loads' : q.n <= asked
  BY <1>1 DEF SafetyTypes
<1> QED
  BY <1>2, <1>3, <1>4, <1>5, Zenon DEF SafetyTypes

\* A new trade keeps the types.
LEMMA TypesTraded ==
    ASSUME Safety!BoundAssumption, SafetyTypes, NEW t \in 1 .. MaxTime, NEW v \in Venues,
             Safety!Trade(t, v)
    PROVE  /\ SafetyTypes'
           /\ \A i \in Safety!Ids : trades'[i] = trades[i]
<1>1. /\ trades' = Append(trades, [at |-> t, venue |-> v, verdict |-> None])
      /\ UNCHANGED <<safety, loading, error, submitting, venue, loads, submits, asked, given,
           faults,
                     crossed, mixed>>
  BY Zenon DEF Safety!Trade, Safety!card
<1>2. PICK e \in SafetyTrades : trades' = Append(trades, e)
  BY <1>1 DEF SafetyTrades
<1> HIDE DEF SafetyTrades
<1>3. trades \in Seq(SafetyTrades)
  BY DEF SafetyTypes
<1>4. /\ trades' \in Seq(SafetyTrades) /\ Len(trades) <= Len(trades')
      /\ \A i \in Safety!Ids : trades'[i] = trades[i]
  BY <1>2, <1>3 DEF Safety!Ids
<1>5. /\ Safety!Ids \subseteq Safety!Ids' /\ SafetyItems \subseteq SafetyItems'
      /\ SafetyLoads \subseteq SafetyLoads' /\ SafetySubmits \subseteq SafetySubmits'
  BY <1>3, <1>4, ItemsGrow
<1>6. safety' = None \/ safety' \in [of : Safety!Filters, items : SUBSET SafetyItems']
  BY <1>1, <1>5 DEF SafetyTypes
<1>7. /\ submitting' \in Safety!Ids' \cup {None} /\ mixed' \in SUBSET Safety!Ids'
      /\ loads' \in SUBSET SafetyLoads' /\ submits' \in SUBSET SafetySubmits'
  BY <1>1, <1>5 DEF SafetyTypes
<1>8. Safety!Filters' = Safety!Filters
  BY DEF Safety!Filters
<1> QED
  BY <1>1, <1>4, <1>6, <1>7, <1>8, Zenon DEF SafetyTypes

\* A load that is asked for is the last.
LoadAsked(f) ==
    \E by \in Nat \cup {None} :
        loads' = loads \cup {[of |-> f, by |-> by, done |-> FALSE, ok |-> FALSE, items |-> {},
          n |-> asked + 1]}

\* A new load keeps the types.
LEMMA LoadTyped ==
    ASSUME Safety!BoundAssumption, SafetyTypes, NEW f \in Safety!Filters, LoadAsked(f),
             asked' = asked + 1
    PROVE  /\ loads' \in SUBSET SafetyLoads /\ \A l \in loads' : l.n <= asked'
           /\ \E m \in SafetyLoads : /\ loads' = loads \cup {m} /\ m.of = f /\ m.items = {}
                                     /\ m.n = asked + 1
<1>1. PICK by \in Nat \cup {None} :
          loads' = loads \cup {[of |-> f, by |-> by, done |-> FALSE, ok |-> FALSE,
            items |-> {}, n |-> asked + 1]}
  BY DEF LoadAsked
<1>2. asked \in Nat /\ loads \in SUBSET SafetyLoads /\ \A l \in loads : l.n <= asked
  BY DEF SafetyTypes
<1>3. PICK m : m = [of |-> f, by |-> by, done |-> FALSE, ok |-> FALSE, items |-> {},
             n |-> asked + 1]
  OBVIOUS
<1>4. m \in SafetyLoads /\ m.of = f /\ m.items = {} /\ m.n = asked + 1
  BY <1>2, <1>3 DEF SafetyLoads
<1>5. loads' = loads \cup {m}
  BY <1>1, <1>3, Zenon
<1>6. \A l \in loads : l.n \in Nat
  BY <1>2 DEF SafetyLoads
<1> QED
  BY <1>2, <1>4, <1>5, <1>6

\* A load asked for by hand.
LEMMA TypesAsked ==
    ASSUME Safety!BoundAssumption, SafetyTypes,
           Safety!Refresh \/ \E f \in Safety!Filters : Safety!ChooseVenue(f)
    PROVE  SafetyTypes' /\ LoadAsked(venue')
<1>1. /\ venue' \in Safety!Filters /\ loads' = loads \cup {Safety!Load(venue', None)}
      /\ asked < MaxLoads /\ asked' = asked + 1 /\ loading' = TRUE /\ error' = FALSE
      /\ UNCHANGED <<trades, safety, submitting, submits, given, faults, crossed, mixed>>
  BY Zenon DEF Safety!Refresh, Safety!ChooseVenue, Safety!LoadSafety, SafetyTypes
<1>2. LoadAsked(venue')
  BY <1>1, Zenon DEF LoadAsked, Safety!Load
<1>3. loads' \in SUBSET SafetyLoads /\ \A l \in loads' : l.n <= asked'
  <2>1. PICK f \in Safety!Filters : f = venue'
    BY <1>1
  <2>2. LoadAsked(f)
    BY <1>2, <2>1, Zenon
  <2> QED
    BY <1>1, <2>2, LoadTyped
<1>4. Safety!Ids' = Safety!Ids /\ SafetyItems' = SafetyItems /\ SafetyLoads' = SafetyLoads
      /\ SafetySubmits' = SafetySubmits /\ Safety!Filters' = Safety!Filters
  BY <1>1 DEF Safety!Ids, SafetyItems, SafetyLoads, SafetySubmits, Safety!Filters
<1>5. asked' \in Nat /\ asked' + Cardinality(submits') <= MaxLoads + given'
  <2>1. /\ asked \in Nat /\ given \in Nat /\ IsFiniteSet(submits) /\ Cardinality(submits) <= given
        /\ MaxLoads \in Nat
    BY SafetyBounds DEF SafetyTypes
  <2>2. Cardinality(submits) \in Nat
    BY <2>1, FS_CardinalityType
  <2>3. asked + 1 <= MaxLoads /\ asked + 1 + Cardinality(submits) <= MaxLoads + given
    BY <1>1, <2>1, <2>2
  <2> QED
    BY <1>1, <2>1, <2>3
<1>6. loading' \in BOOLEAN /\ error' \in BOOLEAN
  BY <1>1
<1>7. SafetyTypes'
  BY <1>1, <1>3, <1>4, <1>5, <1>6, Zenon DEF SafetyTypes
<1> QED
  BY <1>2, <1>7

\* What the card shows are items.
LEMMA ItemsTyped == SafetyTypes => Safety!Items \in SUBSET SafetyItems
<1> SUFFICES ASSUME SafetyTypes PROVE Safety!Items \in SUBSET SafetyItems
  OBVIOUS
<1>1. CASE safety = None
  BY <1>1 DEF Safety!Items
<1>2. CASE safety # None
  <2>1. safety \in [of : Safety!Filters, items : SUBSET SafetyItems]
    BY <1>2 DEF SafetyTypes
  <2>2. safety.items \in SUBSET SafetyItems
    BY <2>1
  <2> QED
    BY <1>2, <2>2 DEF Safety!Items
<1> QED
  BY <1>1, <1>2

\* The two operators for the members of a verdict on its way say the same.
LEMMA MembersAre ==
    ASSUME SafetyTypes, NEW s \in submits
    PROVE  Safety!ToSet(s.members) = Safety!Range(s.members) /\
             Safety!Range(s.members) \in SUBSET Safety!Ids
<1>1. s.members \in Seq(Safety!Ids)
  BY DEF SafetyTypes, SafetySubmits
<1> QED
  BY <1>1 DEF Safety!ToSet, Safety!Range

\* A verdict that is given keeps the types.
LEMMA TypesSubmitted ==
    ASSUME Safety!BoundAssumption, SafetyTypes, NEW x \in Safety!Items, NEW v \in Verdicts,
           Safety!Submit(x, v)
    PROVE  /\ SafetyTypes'
           /\ \E q \in SafetySubmits :
                 q.members = x.members /\ q.next = 1 /\ submits' = submits \cup {q}
<1>1. /\ given < MaxSubmits /\ given' = given + 1
      /\ submitting' = x.members[1] /\ error' = FALSE
      /\ submits' = submits \cup {[members |-> x.members, verdict |-> v, next |-> 1,
           of |-> venue, n |-> given]}
      /\ UNCHANGED <<trades, safety, loading, venue, loads, asked, faults, crossed>>
      /\ mixed' = mixed \cup UNION {Safety!ToSet(s.members) :
                      s \in {q \in submits :
                        Safety!Range(q.members) \cap Safety!Range(x.members) # {}}}
  BY Zenon DEF Safety!Submit
<1>2. x.members \in Seq(Safety!Ids) \ {<<>>}
  BY ItemsTyped DEF SafetyItems
<1>3. venue \in Safety!Filters /\ given \in Nat
  BY DEF SafetyTypes
<1>4. PICK q : q = [members |-> x.members, verdict |-> v, next |-> 1, of |-> venue, n |-> given]
  OBVIOUS
<1>5. q \in SafetySubmits /\ q.members = x.members /\ q.next = 1 /\ submits' = submits \cup {q}
  BY <1>1, <1>2, <1>3, <1>4 DEF SafetySubmits
<1>6. Safety!Ids' = Safety!Ids /\ SafetyItems' = SafetyItems /\ SafetyLoads' = SafetyLoads
      /\ SafetySubmits' = SafetySubmits /\ Safety!Filters' = Safety!Filters
  BY <1>1 DEF Safety!Ids, SafetyItems, SafetyLoads, SafetySubmits, Safety!Filters
<1>7. submitting' \in Safety!Ids
  BY <1>1, <1>2
<1>8. mixed' \in SUBSET Safety!Ids
  BY <1>1, MembersAre DEF SafetyTypes
<1>9. /\ submits' \in SUBSET SafetySubmits
      /\ \A s \in submits' : s.next \in 1 .. Len(s.members) + 1
  BY <1>2, <1>5 DEF SafetyTypes
<1>10. /\ IsFiniteSet(submits') /\ Cardinality(submits') <= given'
       /\ asked + Cardinality(submits') <= MaxLoads + given' /\ given' \in 0 .. MaxSubmits
  <2>1. /\ asked \in Nat /\ given \in Nat /\ IsFiniteSet(submits) /\ Cardinality(submits) <= given
        /\ asked + Cardinality(submits) <= MaxLoads + given /\ MaxLoads \in Nat /\
             MaxSubmits \in Nat
    BY SafetyBounds DEF SafetyTypes
  <2>2. Cardinality(submits) \in Nat
    BY <2>1, FS_CardinalityType
  <2>3. /\ IsFiniteSet(submits')
        /\ Cardinality(submits') = Cardinality(submits) \/
             Cardinality(submits') = Cardinality(submits) + 1
    BY <1>5, <2>1, FS_AddElement
  <2> QED
    BY <1>1, <2>1, <2>2, <2>3
<1>11. SafetyTypes'
  BY <1>1, <1>6, <1>7, <1>8, <1>9, <1>10, Zenon DEF SafetyTypes
<1> QED
  BY <1>5, <1>11, Zenon

\* A verdict that is sent for the next trade of its item.
LEMMA TypesPosted ==
    ASSUME Safety!BoundAssumption, SafetyTypes, NEW s \in submits, Safety!Post(s)
    PROVE  /\ SafetyTypes'
           /\ s.next \in DOMAIN s.members
           /\ trades'[s.members[s.next]].verdict = s.verdict
           /\ \A j \in Safety!Ids : j # s.members[s.next] => trades'[j] = trades[j]
           /\ \E q \in SafetySubmits : /\ q.members = s.members /\ q.verdict = s.verdict
                                       /\ q.next = s.next + 1
                                       /\ submits' = (submits \ {s}) \cup {q}
<1>1. s \in SafetySubmits /\ s.next \in 1 .. Len(s.members) + 1
  BY DEF SafetyTypes
<1>2. /\ s.next <= Len(s.members) /\ Safety!Upsert(s.members[s.next], s.verdict)
      /\ submits' = (submits \ {s}) \cup {[s EXCEPT !.next = @ + 1]}
      /\ UNCHANGED <<safety, loading, error, submitting, venue, loads, asked, given, faults,
           crossed, mixed>>
  BY Zenon DEF Safety!Post, Safety!card
<1>3. /\ s.members \in Seq(Safety!Ids) /\ s.verdict \in Verdicts /\ s.next \in Nat
      /\ s = [members |-> s.members, verdict |-> s.verdict, next |-> s.next, of |-> s.of,
           n |-> s.n]
  BY <1>1 DEF SafetySubmits
<1>4. s.next \in DOMAIN s.members /\ s.members[s.next] \in Safety!Ids
  BY <1>1, <1>2, <1>3
<1>5. trades \in Seq(SafetyTrades)
  BY DEF SafetyTypes
<1>6. /\ trades' \in Seq(SafetyTrades) /\ Len(trades') = Len(trades)
      /\ trades'[s.members[s.next]].verdict = s.verdict
      /\ \A j \in Safety!Ids : j # s.members[s.next] => trades'[j] = trades[j]
  <2>1. PICK i \in Safety!Ids : i = s.members[s.next]
    BY <1>4
  <2>2. PICK v \in Verdicts : v = s.verdict
    BY <1>3
  <2>3. Safety!Upsert(i, v)
    BY <1>2, <2>1, <2>2, Zenon
  <2> QED
    BY <1>5, <2>1, <2>2, <2>3, UpsertIs
<1>7. PICK q : q = [s EXCEPT !.next = @ + 1]
  OBVIOUS
<1>8. q = [members |-> s.members, verdict |-> s.verdict, next |-> s.next + 1, of |-> s.of,
        n |-> s.n]
  BY <1>3, <1>7
<1>9. q \in SafetySubmits /\ q.members = s.members /\ q.verdict = s.verdict /\ q.next = s.next + 1
  BY <1>1, <1>8 DEF SafetySubmits
<1>10. submits' = (submits \ {s}) \cup {q}
  BY <1>2, <1>7, Zenon
<1>11. q.next \in 1 .. Len(q.members) + 1
  BY <1>2, <1>3, <1>9
<1>12. Safety!Ids' = Safety!Ids /\ SafetyItems' = SafetyItems /\ SafetyLoads' = SafetyLoads
      /\ SafetySubmits' = SafetySubmits /\ Safety!Filters' = Safety!Filters
  <2>1. Safety!Ids' = Safety!Ids
    BY <1>5, <1>6 DEF Safety!Ids
  <2> QED
    BY <2>1, Zenon DEF SafetyItems, SafetyLoads, SafetySubmits, Safety!Filters
<1>13. /\ IsFiniteSet(submits') /\ Cardinality(submits') <= given
       /\ asked + Cardinality(submits') <= MaxLoads + given
  <2>1. /\ asked \in Nat /\ given \in Nat /\ IsFiniteSet(submits) /\ Cardinality(submits) <= given
        /\ asked + Cardinality(submits) <= MaxLoads + given /\ MaxLoads \in Nat
    BY SafetyBounds DEF SafetyTypes
  <2>2. IsFiniteSet(submits \ {s}) /\ Cardinality(submits \ {s}) = Cardinality(submits) - 1
    BY <2>1, FS_RemoveElement
  <2>3. Cardinality(submits) \in Nat
    BY <2>1, FS_CardinalityType
  <2>4. PICK rest : rest = submits \ {s}
    OBVIOUS
  <2>5. IsFiniteSet(rest \cup {q}) /\ Cardinality(rest \cup {q}) <= Cardinality(rest) + 1
    <3>1. Cardinality(rest) \in Nat /\ IsFiniteSet(rest)
      BY <2>2, <2>4, FS_CardinalityType
    <3>2. /\ IsFiniteSet(rest \cup {q})
          /\ Cardinality(rest \cup {q}) = IF q \in rest THEN Cardinality(rest)
               ELSE Cardinality(rest) + 1
      BY <3>1, FS_AddElement, Zenon
    <3> QED
      BY <3>1, <3>2
  <2>6. Cardinality(rest \cup {q}) \in Nat
    BY <2>5, FS_CardinalityType
  <2> QED
    BY <1>10, <2>1, <2>2, <2>3, <2>4, <2>5, <2>6
<1>14. /\ submits' \in SUBSET SafetySubmits
       /\ \A r \in submits' : r.next \in 1 .. Len(r.members) + 1
  BY <1>9, <1>10, <1>11 DEF SafetyTypes
<1>15. SafetyTypes'
  BY <1>2, <1>6, <1>12, <1>13, <1>14, Zenon DEF SafetyTypes
<1> QED
  BY <1>4, <1>6, <1>9, <1>10, <1>15, Zenon

\* With a verdict taken away the counts stay within their bounds.
LEMMA FewerSubmits ==
    ASSUME SafetyTypes, NEW s \in submits
    PROVE  /\ IsFiniteSet(submits \ {s}) /\ Cardinality(submits \ {s}) <= given
           /\ asked + 1 + Cardinality(submits \ {s}) <= MaxLoads + given
<1>1. /\ asked \in Nat /\ given \in Nat /\ IsFiniteSet(submits) /\ Cardinality(submits) <= given
      /\ asked + Cardinality(submits) <= MaxLoads + given
  BY DEF SafetyTypes
<1>2. IsFiniteSet(submits \ {s}) /\ Cardinality(submits \ {s}) = Cardinality(submits) - 1
  BY <1>1, FS_RemoveElement
<1>3. Cardinality(submits) \in Nat
  BY <1>1, FS_CardinalityType
<1> QED
  BY <1>1, <1>2, <1>3

\* A verdict that is lost, half way through its item.
LEMMA TypesFailed ==
    ASSUME Safety!BoundAssumption, SafetyTypes, NEW s \in submits, Safety!PostFails(s)
    PROVE  /\ SafetyTypes'
           /\ s.next \in DOMAIN s.members
           /\ trades' = trades \/ trades'[s.members[s.next]].verdict = s.verdict
           /\ \A j \in Safety!Ids : j # s.members[s.next] => trades'[j] = trades[j]
           /\ submits' = submits \ {s} /\ mixed' = mixed \cup Safety!Range(s.members)
<1>1. s \in SafetySubmits /\ s.next \in 1 .. Len(s.members) + 1
  BY DEF SafetyTypes
<1>2. /\ s.next <= Len(s.members)
      /\ Safety!Upsert(s.members[s.next], s.verdict) \/ trades' = trades
      /\ submits' = submits \ {s} /\ error' = TRUE /\ submitting' = None
      /\ mixed' = mixed \cup Safety!Range(s.members)
      /\ faults < MaxFaults /\ faults' = faults + 1
      /\ UNCHANGED <<safety, loading, venue, loads, asked, given, crossed>>
  BY MembersAre, Zenon DEF Safety!PostFails
<1>3. s.members \in Seq(Safety!Ids) /\ s.verdict \in Verdicts /\ s.next \in Nat
  BY <1>1 DEF SafetySubmits
<1>4. s.next \in DOMAIN s.members /\ s.members[s.next] \in Safety!Ids
  BY <1>1, <1>2, <1>3
<1>5. trades \in Seq(SafetyTrades)
  BY DEF SafetyTypes
<1>6. /\ trades' \in Seq(SafetyTrades) /\ Len(trades') = Len(trades)
      /\ trades' = trades \/ trades'[s.members[s.next]].verdict = s.verdict
      /\ \A j \in Safety!Ids : j # s.members[s.next] => trades'[j] = trades[j]
  <2>1. CASE trades' = trades
    BY <1>5, <2>1
  <2>2. CASE Safety!Upsert(s.members[s.next], s.verdict)
    <3>1. PICK i \in Safety!Ids : i = s.members[s.next]
      BY <1>4
    <3>2. PICK v \in Verdicts : v = s.verdict
      BY <1>3
    <3>3. Safety!Upsert(i, v)
      BY <2>2, <3>1, <3>2, Zenon
    <3> QED
      BY <1>5, <3>1, <3>2, <3>3, UpsertIs
  <2> QED
    BY <1>2, <2>1, <2>2
<1>7. Safety!Ids' = Safety!Ids /\ SafetyItems' = SafetyItems /\ SafetyLoads' = SafetyLoads
      /\ SafetySubmits' = SafetySubmits /\ Safety!Filters' = Safety!Filters
  <2>1. Safety!Ids' = Safety!Ids
    BY <1>5, <1>6 DEF Safety!Ids
  <2> QED
    BY <2>1, Zenon DEF SafetyItems, SafetyLoads, SafetySubmits, Safety!Filters
<1>8. /\ IsFiniteSet(submits') /\ Cardinality(submits') <= given
      /\ asked + Cardinality(submits') <= MaxLoads + given
  <2>1. /\ IsFiniteSet(submits \ {s}) /\ Cardinality(submits \ {s}) <= given
        /\ asked + 1 + Cardinality(submits \ {s}) <= MaxLoads + given
    BY FewerSubmits
  <2>2. Cardinality(submits \ {s}) \in Nat
    BY <2>1, FS_CardinalityType
  <2>3. asked \in Nat /\ given \in Nat /\ MaxLoads \in Nat
    BY SafetyBounds DEF SafetyTypes
  <2> QED
    BY <1>2, <2>1, <2>2, <2>3
<1>9. /\ submits' \in SUBSET SafetySubmits
      /\ \A r \in submits' : r.next \in 1 .. Len(r.members) + 1
  BY <1>2 DEF SafetyTypes
<1>10. mixed' \in SUBSET Safety!Ids
  BY <1>2, MembersAre DEF SafetyTypes
<1>11. faults' \in 0 .. MaxFaults
  BY <1>2, SafetyBounds DEF SafetyTypes
<1>12. error' \in BOOLEAN /\ submitting' \in Safety!Ids \cup {None}
  BY <1>2
<1>13. SafetyTypes'
  BY <1>2, <1>6, <1>7, <1>8, <1>9, <1>10, <1>11, <1>12, Zenon DEF SafetyTypes
<1> QED
  BY <1>2, <1>4, <1>6, <1>13, Zenon

\* The load after the last verdict of an item.
LEMMA TypesLoaded ==
    ASSUME Safety!BoundAssumption, SafetyTypes, NEW s \in submits, Safety!Posted(s)
    PROVE  SafetyTypes' /\ LoadAsked(s.of) /\ s.of \in Safety!Filters
<1>1. /\ loads' = loads \cup {Safety!Load(s.of, s.n)}
      /\ asked' = asked + 1 /\ loading' = TRUE /\ error' = FALSE
      /\ submits' = submits \ {s} /\ crossed' = (crossed \/ s.of # venue)
      /\ UNCHANGED <<trades, safety, submitting, venue, given, faults, mixed>>
  BY Zenon DEF Safety!Posted, Safety!LoadSafety
<1>2. s.of \in Safety!Filters /\ s.n \in Nat
  BY DEF SafetyTypes, SafetySubmits
<1>3. LoadAsked(s.of)
  BY <1>1, <1>2, Zenon DEF LoadAsked, Safety!Load
<1>4. loads' \in SUBSET SafetyLoads /\ \A l \in loads' : l.n <= asked'
  <2>1. PICK f \in Safety!Filters : f = s.of
    BY <1>2
  <2>2. LoadAsked(f)
    BY <1>3, <2>1, Zenon
  <2> QED
    BY <1>1, <2>2, LoadTyped
<1>5. Safety!Ids' = Safety!Ids /\ SafetyItems' = SafetyItems /\ SafetyLoads' = SafetyLoads
      /\ SafetySubmits' = SafetySubmits /\ Safety!Filters' = Safety!Filters
  BY <1>1 DEF Safety!Ids, SafetyItems, SafetyLoads, SafetySubmits, Safety!Filters
<1>6. /\ IsFiniteSet(submits') /\ Cardinality(submits') <= given
      /\ asked' + Cardinality(submits') <= MaxLoads + given /\ asked' \in Nat
  BY <1>1, FewerSubmits DEF SafetyTypes
<1>7. /\ submits' \in SUBSET SafetySubmits
      /\ \A r \in submits' : r.next \in 1 .. Len(r.members) + 1
  BY <1>1 DEF SafetyTypes
<1>8. loading' \in BOOLEAN /\ error' \in BOOLEAN /\ crossed' \in BOOLEAN
  BY <1>1
<1>9. SafetyTypes'
  BY <1>1, <1>4, <1>5, <1>6, <1>7, <1>8, Zenon DEF SafetyTypes
<1> QED
  BY <1>2, <1>3, <1>9

\* A load that arrives keeps the types.
LEMMA TypesArrived ==
    ASSUME Safety!BoundAssumption, SafetyTypes, NEW l \in loads, Safety!LoadArrives(l)
    PROVE  SafetyTypes'
<1>1. /\ loads' = loads \ {l} /\ loading' = FALSE
      /\ \/ safety' = [of |-> l.of, items |-> l.items] /\ error' = error
         \/ safety' = safety /\ error' = TRUE
      /\ submitting' = submitting \/ submitting' = None
      /\ UNCHANGED <<trades, venue, submits, asked, given, faults, mixed>>
      /\ crossed' = (crossed \/ ~ l.ok \/ \E q \in loads \ {l} : q.n < l.n)
  BY Zenon DEF Safety!LoadArrives
<1>2. l.of \in Safety!Filters /\ l.items \in SUBSET SafetyItems
  BY DEF SafetyTypes, SafetyLoads
<1>3. safety' = None \/ safety' \in [of : Safety!Filters, items : SUBSET SafetyItems]
  BY <1>1, <1>2 DEF SafetyTypes
<1>4. Safety!Ids' = Safety!Ids /\ SafetyItems' = SafetyItems /\ SafetyLoads' = SafetyLoads
      /\ SafetySubmits' = SafetySubmits /\ Safety!Filters' = Safety!Filters
  BY <1>1 DEF Safety!Ids, SafetyItems, SafetyLoads, SafetySubmits, Safety!Filters
<1>5. loading' \in BOOLEAN /\ error' \in BOOLEAN /\ crossed' \in BOOLEAN
  BY <1>1 DEF SafetyTypes
<1>6. submitting' \in Safety!Ids \cup {None} /\ loads' \in SUBSET SafetyLoads
  BY <1>1 DEF SafetyTypes
<1>7. \A q \in loads' : q.n <= asked'
  BY <1>1 DEF SafetyTypes
<1> QED
  BY <1>1, <1>3, <1>4, <1>5, <1>6, <1>7, Zenon DEF SafetyTypes

-----------------------------------------------------------------------------
(* Verdicts on their way *)

\* Two verdicts have no trade in common that is not known to be mixed, and what was sent of a
\* verdict is stored, where none was mixed with another.
SubmitsFollow ==
    /\ \A s, q \in submits :
          s # q => Safety!Range(s.members) \cap Safety!Range(q.members) \subseteq mixed
    /\ \A s \in submits :
          Safety!Range(s.members) \cap mixed = {} =>
              \A k \in 1 .. s.next - 1 : trades[s.members[k]].verdict = s.verdict

\* The next member of a verdict on its way.
LEMMA MemberIs ==
    ASSUME SafetyTypes, NEW s \in submits, NEW k \in 1 .. s.next - 1
    PROVE  k \in DOMAIN s.members /\ s.members[k] \in Safety!Ids /\
             s.members[k] \in Safety!Range(s.members)
<1>1. s \in SafetySubmits /\ s.next \in 1 .. Len(s.members) + 1
  BY DEF SafetyTypes
<1>2. s.members \in Seq(Safety!Ids) /\ s.next \in Nat
  BY <1>1 DEF SafetySubmits
<1>3. k \in DOMAIN s.members
  BY <1>1, <1>2
<1> QED
  BY <1>2, <1>3 DEF Safety!Range

\* Where no verdict changes, fewer of them are on their way and no fewer mixed.
LEMMA FollowFewer ==
    ASSUME SafetyTypes, SubmitsFollow, submits' \subseteq submits, mixed \subseteq mixed',
           \A i \in Safety!Ids : trades'[i] = trades[i]
    PROVE  SubmitsFollow'
<1>1. \A s, q \in submits' :
          s # q => Safety!Range(s.members) \cap Safety!Range(q.members) \subseteq mixed'
  BY DEF SubmitsFollow
<1>2. ASSUME NEW s \in submits', Safety!Range(s.members) \cap mixed' = {},
               NEW k \in 1 .. s.next - 1
      PROVE  trades'[s.members[k]].verdict = s.verdict
  <2>1. s \in submits /\ Safety!Range(s.members) \cap mixed = {}
    BY <1>2
  <2>2. s.members[k] \in Safety!Ids
    BY <1>2, <2>1, MemberIs
  <2> QED
    BY <1>2, <2>1, <2>2 DEF SubmitsFollow
<1> QED
  BY <1>1, <1>2 DEF SubmitsFollow

\* A verdict that is given: none of its members is written yet.
LEMMA FollowSubmitted ==
    ASSUME Safety!BoundAssumption, SafetyTypes, SubmitsFollow,
           NEW x \in Safety!Items, NEW v \in Verdicts, Safety!Submit(x, v)
    PROVE  SubmitsFollow'
<1>1. PICK n \in SafetySubmits : n.members = x.members /\ n.next = 1 /\
             submits' = submits \cup {n}
  BY TypesSubmitted
<1>2. /\ trades' = trades
      /\ mixed' = mixed \cup UNION {Safety!ToSet(s.members) :
                      s \in {q \in submits :
                        Safety!Range(q.members) \cap Safety!Range(x.members) # {}}}
  BY Zenon DEF Safety!Submit
<1>3. \A s \in submits : Safety!Range(s.members) \cap Safety!Range(n.members) \subseteq mixed'
  <2> SUFFICES ASSUME NEW s \in submits,
                        NEW i \in Safety!Range(s.members) \cap Safety!Range(n.members)
               PROVE  i \in mixed'
    OBVIOUS
  <2>1. Safety!ToSet(s.members) = Safety!Range(s.members)
    BY MembersAre
  <2>2. Safety!Range(s.members) \cap Safety!Range(x.members) # {} /\ i \in Safety!ToSet(s.members)
    BY <1>1, <2>1
  <2> QED
    BY <1>2, <2>2
<1>4. mixed \subseteq mixed'
  BY <1>2
<1>5. \A s, q \in submits' :
          s # q => Safety!Range(s.members) \cap Safety!Range(q.members) \subseteq mixed'
  BY <1>1, <1>3, <1>4 DEF SubmitsFollow
<1>6. \A s \in submits' :
          Safety!Range(s.members) \cap mixed' = {} =>
              \A k \in 1 .. s.next - 1 : trades'[s.members[k]].verdict = s.verdict
  BY <1>1, <1>2, <1>4 DEF SubmitsFollow
<1> QED
  BY <1>5, <1>6 DEF SubmitsFollow

\* A member is written: it has the verdict that is on its way.
LEMMA FollowPosted ==
    ASSUME Safety!BoundAssumption, SafetyTypes, SubmitsFollow, NEW s \in submits, Safety!Post(s)
    PROVE  SubmitsFollow'
<1>1. /\ s.next \in DOMAIN s.members
      /\ trades'[s.members[s.next]].verdict = s.verdict
      /\ \A j \in Safety!Ids : j # s.members[s.next] => trades'[j] = trades[j]
  BY TypesPosted
<1>2. PICK n \in SafetySubmits : /\ n.members = s.members /\ n.verdict = s.verdict
                                 /\ n.next = s.next + 1
                                 /\ submits' = (submits \ {s}) \cup {n}
  BY TypesPosted
<1>3. mixed' = mixed
  BY Zenon DEF Safety!Post
<1>4. s.members[s.next] \in Safety!Range(s.members)
  BY <1>1 DEF Safety!Range
<1>5. \A q, r \in submits' :
          q # r => Safety!Range(q.members) \cap Safety!Range(r.members) \subseteq mixed'
  BY <1>2, <1>3 DEF SubmitsFollow
<1>6. ASSUME NEW q \in submits', Safety!Range(q.members) \cap mixed' = {},
               NEW k \in 1 .. q.next - 1
      PROVE  trades'[q.members[k]].verdict = q.verdict
  <2>1. CASE q = n
    <3>1. CASE k = s.next
      BY <1>1, <1>2, <2>1, <3>1
    <3>2. CASE k # s.next
      <4>1. s.next \in Nat
        BY DEF SafetyTypes, SafetySubmits
      <4>2. k \in 1 .. s.next - 1
        BY <1>2, <1>6, <2>1, <3>2, <4>1
      <4>3. trades[s.members[k]].verdict = s.verdict /\ s.members[k] \in Safety!Ids
        BY <1>2, <1>3, <1>6, <2>1, <4>2, MemberIs DEF SubmitsFollow
      <4> QED
        BY <1>1, <1>2, <2>1, <4>3
    <3> QED
      BY <3>1, <3>2
  <2>2. CASE q # n
    <3>1. q \in submits /\ q # s
      BY <1>2, <2>2
    <3>2. s.members[s.next] \notin Safety!Range(q.members)
      BY <1>3, <1>4, <1>6, <3>1 DEF SubmitsFollow
    <3>3. q.members[k] \in Safety!Ids /\ q.members[k] \in Safety!Range(q.members)
      BY <1>6, <3>1, MemberIs
    <3>4. trades[q.members[k]].verdict = q.verdict
      BY <1>3, <1>6, <3>1 DEF SubmitsFollow
    <3> QED
      BY <1>1, <3>2, <3>3, <3>4
  <2> QED
    BY <2>1, <2>2
<1> QED
  BY <1>5, <1>6 DEF SubmitsFollow

\* A verdict that fails is no longer on its way.
LEMMA FollowFailed ==
    ASSUME Safety!BoundAssumption, SafetyTypes, SubmitsFollow, NEW s \in submits,
             Safety!PostFails(s)
    PROVE  SubmitsFollow'
<1>1. /\ s.next \in DOMAIN s.members
      /\ \A j \in Safety!Ids : j # s.members[s.next] => trades'[j] = trades[j]
      /\ submits' = submits \ {s} /\ mixed' = mixed \cup Safety!Range(s.members)
  BY TypesFailed
<1>2. s.members[s.next] \in Safety!Range(s.members)
  BY <1>1 DEF Safety!Range
<1>3. \A q, r \in submits' :
          q # r => Safety!Range(q.members) \cap Safety!Range(r.members) \subseteq mixed'
  BY <1>1 DEF SubmitsFollow
<1>4. ASSUME NEW q \in submits', Safety!Range(q.members) \cap mixed' = {},
               NEW k \in 1 .. q.next - 1
      PROVE  trades'[q.members[k]].verdict = q.verdict
  <2>1. q \in submits /\ Safety!Range(q.members) \cap mixed = {}
    BY <1>1, <1>4
  <2>2. s.members[s.next] \notin Safety!Range(q.members)
    BY <1>1, <1>2, <1>4
  <2>3. q.members[k] \in Safety!Ids /\ q.members[k] \in Safety!Range(q.members)
    BY <1>4, <2>1, MemberIs
  <2>4. trades[q.members[k]].verdict = q.verdict
    BY <1>4, <2>1 DEF SubmitsFollow
  <2> QED
    BY <1>1, <2>2, <2>3, <2>4
<1> QED
  BY <1>3, <1>4 DEF SubmitsFollow

-----------------------------------------------------------------------------
(* What the card says *)

ItemsStored(xs) ==
    \A x \in xs : x.reviewed => \A k \in DOMAIN x.members : trades[x.members[k]].verdict # None
ItemsLabelled(xs) ==
    \A x \in xs : x.verdict # None =>
        \A k \in DOMAIN x.members : trades[x.members[k]].verdict = x.verdict

IsLast(l) == \A q \in loads : q.n <= l.n

\* What is reviewed stays so.  Until verdicts or loads cross, the load that was asked for last is
\* of the chosen venue and brings labels that are so at the server, and when no load is under way
\* it was the last that the card shows.
CardFollows ==
    /\ ItemsStored(Safety!Items) /\ \A l \in loads : ItemsStored(l.items)
    /\ ~ crossed /\ mixed = {} /\ submits = {} =>
          /\ loads = {} => ItemsLabelled(Safety!Items)
          /\ \A l \in loads : IsLast(l) => ItemsLabelled(l.items)
    /\ ~ crossed => \A l \in loads : IsLast(l) => l.of = venue
    /\ ~ crossed => (loads = {} /\ safety # None => safety.of = venue)

\* What is reviewed stays reviewed.
LEMMA StoredStays ==
    ASSUME NEW xs \in SUBSET SafetyItems, ItemsStored(xs),
           \A i \in Safety!Ids : trades[i].verdict # None => trades'[i].verdict # None
    PROVE  ItemsStored(xs)'
<1> SUFFICES ASSUME NEW x \in xs, x.reviewed, NEW k \in DOMAIN x.members
             PROVE  trades'[x.members[k]].verdict # None
  BY DEF ItemsStored
<1>1. x.members \in Seq(Safety!Ids)
  BY DEF SafetyItems
<1>2. x.members[k] \in Safety!Ids
  BY <1>1
<1> QED
  BY <1>2 DEF ItemsStored

\* A label that is so stays so while the verdicts of the group do.
LEMMA LabelsStay ==
    ASSUME NEW xs \in SUBSET SafetyItems, ItemsLabelled(xs),
           \A i \in Safety!Ids : trades'[i] = trades[i]
    PROVE  ItemsLabelled(xs)'
<1> SUFFICES ASSUME NEW x \in xs, x.verdict # None, NEW k \in DOMAIN x.members
             PROVE  trades'[x.members[k]].verdict = x.verdict
  BY DEF ItemsLabelled
<1>1. x.members \in Seq(Safety!Ids)
  BY DEF SafetyItems
<1>2. x.members[k] \in Safety!Ids
  BY <1>1
<1> QED
  BY <1>2 DEF ItemsLabelled

\* What the server lists is reviewed, and labelled as it is.
LEMMA ListedIsTrue ==
    ASSUME Safety!BoundAssumption, trades \in Seq(SafetyTrades), NEW f
    PROVE  ItemsStored(ListedItems(f)) /\ ItemsLabelled(ListedItems(f))
<1>1. ASSUME NEW x \in ListedItems(f)
      PROVE  /\ x.reviewed => \A k \in DOMAIN x.members : trades[x.members[k]].verdict # None
             /\ x.verdict # None =>
                  \A k \in DOMAIN x.members : trades[x.members[k]].verdict = x.verdict
  <2>1. PICK g \in Safety!Groups(f) :
            x = [members |-> g, reviewed |-> Safety!Reviewed(g), verdict |-> Safety!Label(g)]
    BY DEF ListedItems
  <2>2. g \in Seq(Safety!Ids) \ {<<>>}
    BY GroupsAre
  <2>3. Safety!Label(g) # None => \A k \in DOMAIN g : trades[g[k]].verdict = Safety!Label(g)
    BY <2>2, LabelIs
  <2> QED
    BY <2>1, <2>3 DEF Safety!Reviewed
<1> QED
  BY <1>1 DEF ItemsStored, ItemsLabelled

\* The answer to a load keeps what is said of the card.
LEMMA FollowsAnswered ==
    ASSUME Safety!BoundAssumption, SafetyTypes, CardFollows, NEW l \in loads,
           Safety!ListDaily(l) \/ Safety!LoadLost(l)
    PROVE  CardFollows'
<1>1. trades \in Seq(SafetyTrades) /\ loads \in SUBSET SafetyLoads
  BY DEF SafetyTypes
<1>2. PICK m \in SafetyLoads :
          /\ loads' = (loads \ {l}) \cup {m} /\ m.n = l.n /\ m.of = l.of
          /\ m.items = {} \/ m.items = ListedItems(l.of)
  BY <1>1, AnswerIs
<1>3. UNCHANGED <<trades, safety, venue, submits, crossed, mixed>>
  BY Zenon DEF Safety!ListDaily, Safety!LoadLost, Safety!card
<1>4. ItemsStored(m.items) /\ ItemsLabelled(m.items)
  <2>1. ItemsStored({}) /\ ItemsLabelled({})
    BY DEF ItemsStored, ItemsLabelled
  <2>2. ItemsStored(ListedItems(l.of)) /\ ItemsLabelled(ListedItems(l.of))
    BY <1>1, ListedIsTrue
  <2> QED
    BY <1>2, <2>1, <2>2, Zenon
<1>5. /\ \A xs : ItemsStored(xs) <=> ItemsStored(xs)'
      /\ \A xs : ItemsLabelled(xs) <=> ItemsLabelled(xs)'
      /\ Safety!Items' = Safety!Items
  BY <1>3 DEF ItemsStored, ItemsLabelled, Safety!Items
<1>6. \A q \in loads' : (\A r \in loads' : r.n <= q.n) =>
          q = m \/ (q \in loads /\ IsLast(q))
  BY <1>2 DEF IsLast
<1>7. IsLast(l) \/ ~ \A r \in loads' : r.n <= m.n
  BY <1>2 DEF IsLast
<1> QED
  BY <1>2, <1>3, <1>4, <1>5, <1>6, <1>7 DEF CardFollows, IsLast

\* A new trade keeps what is said of the card.
LEMMA FollowsTraded ==
    ASSUME Safety!BoundAssumption, SafetyTypes, CardFollows,
           NEW t \in 1 .. MaxTime, NEW v \in Venues, Safety!Trade(t, v)
    PROVE  CardFollows'
<1>1. \A i \in Safety!Ids : trades'[i] = trades[i]
  BY TypesTraded
<1>2. UNCHANGED <<safety, venue, loads, submits, crossed, mixed>>
  BY Zenon DEF Safety!Trade, Safety!card
<1>3. Safety!Items \in SUBSET SafetyItems /\ \A l \in loads : l.items \in SUBSET SafetyItems
  BY ItemsTyped DEF SafetyTypes, SafetyLoads
<1>4. /\ ItemsStored(Safety!Items)' /\ \A l \in loads : ItemsStored(l.items)'
      /\ \A l \in loads : ItemsLabelled(l.items) => ItemsLabelled(l.items)'
      /\ ItemsLabelled(Safety!Items) => ItemsLabelled(Safety!Items)'
  <2>1. Safety!Items' = Safety!Items
    BY <1>2 DEF Safety!Items
  <2>2. \A xs \in SUBSET SafetyItems : /\ ItemsStored(xs) => ItemsStored(xs)'
                                       /\ ItemsLabelled(xs) => ItemsLabelled(xs)'
    <3> TAKE xs \in SUBSET SafetyItems
    <3>1. ItemsStored(xs) => ItemsStored(xs)'
      BY <1>1, StoredStays
    <3>2. ItemsLabelled(xs) => ItemsLabelled(xs)'
      BY <1>1, LabelsStay
    <3> QED
      BY <3>1, <3>2
  <2>3. /\ ItemsStored(Safety!Items)' <=> ItemsStored(Safety!Items)'
        /\ \A l \in loads : ItemsStored(l.items)
        /\ ItemsStored(Safety!Items)
    BY DEF CardFollows
  <2> QED
    BY <1>3, <2>1, <2>2, <2>3 DEF ItemsStored, ItemsLabelled
<1>5. \A l \in loads : IsLast(l)' <=> IsLast(l)
  BY <1>2 DEF IsLast
<1> QED
  BY <1>2, <1>4, <1>5 DEF CardFollows

\* A load that is asked for is the one to be shown.
LEMMA FollowsLoads ==
    ASSUME Safety!BoundAssumption, SafetyTypes, CardFollows, NEW f \in Safety!Filters,
             LoadAsked(f),
           asked' = asked + 1, UNCHANGED <<trades, safety, mixed>>,
           crossed => crossed', crossed' \/ f = venue'
    PROVE  CardFollows'
<1>1. PICK m \in SafetyLoads : /\ loads' = loads \cup {m} /\ m.of = f /\ m.items = {}
                               /\ m.n = asked + 1
  BY LoadTyped
<1>2. \A l \in loads : l.n <= asked /\ l.n \in Nat
  BY DEF SafetyTypes, SafetyLoads
<1>3. \A l \in loads' : IsLast(l)' => l = m
  <2>1. asked \in Nat
    BY DEF SafetyTypes
  <2> QED
    BY <1>1, <1>2, <2>1 DEF IsLast
<1>4. ItemsStored({})' /\ ItemsLabelled({})'
  BY DEF ItemsStored, ItemsLabelled
<1>5. Safety!Items' = Safety!Items /\ \A xs : ItemsStored(xs) => ItemsStored(xs)'
  BY DEF ItemsStored, Safety!Items
<1>6. ItemsStored(Safety!Items)' /\ \A l \in loads' : ItemsStored(l.items)'
  <2>1. ItemsStored(Safety!Items)'
    BY <1>5 DEF CardFollows, ItemsStored
  <2>2. ASSUME NEW l \in loads' PROVE ItemsStored(l.items)'
    BY <1>1, <1>4, <1>5 DEF CardFollows
  <2> QED
    BY <2>1, <2>2
<1>7. loads' # {}
  BY <1>1
<1>8. ~ crossed' /\ mixed' = {} /\ submits' = {} =>
          /\ loads' = {} => ItemsLabelled(Safety!Items)'
          /\ \A l \in loads' : IsLast(l)' => ItemsLabelled(l.items)'
  BY <1>1, <1>3, <1>4, <1>7
<1>9. ~ crossed' => \A l \in loads' : IsLast(l)' => l.of = venue'
  BY <1>1, <1>3
<1> QED
  BY <1>6, <1>7, <1>8, <1>9 DEF CardFollows

\* A verdict that is given keeps what is said of the card.
LEMMA FollowsSubmitted ==
    ASSUME Safety!BoundAssumption, SafetyTypes, CardFollows,
           NEW x \in Safety!Items, NEW v \in Verdicts, Safety!Submit(x, v)
    PROVE  CardFollows'
<1>1. submits' # {}
  BY TypesSubmitted
<1>2. UNCHANGED <<trades, safety, venue, loads, crossed>>
  BY Zenon DEF Safety!Submit
<1>3. /\ \A xs : ItemsStored(xs) <=> ItemsStored(xs)'
      /\ Safety!Items' = Safety!Items /\ \A l : IsLast(l)' <=> IsLast(l)
  BY <1>2 DEF ItemsStored, Safety!Items, IsLast
<1> QED
  BY <1>1, <1>2, <1>3 DEF CardFollows, ItemsStored

\* A verdict that is stored takes none away; until the card is loaded again it says nothing new.
LEMMA FollowsPosted ==
    ASSUME Safety!BoundAssumption, SafetyTypes, CardFollows, NEW s \in submits,
           Safety!Post(s) \/ Safety!PostFails(s)
    PROVE  CardFollows'
<1>1. /\ s.next \in DOMAIN s.members
      /\ trades' = trades \/ trades'[s.members[s.next]].verdict = s.verdict
      /\ \A j \in Safety!Ids : j # s.members[s.next] => trades'[j] = trades[j]
      /\ submits' # {} \/ mixed' = mixed \cup Safety!Range(s.members)
  <2>1. CASE Safety!Post(s)
    BY <2>1, TypesPosted
  <2>2. CASE Safety!PostFails(s)
    BY <2>2, TypesFailed
  <2> QED
    BY <2>1, <2>2
<1>2. UNCHANGED <<safety, venue, loads, crossed>>
  BY Zenon DEF Safety!Post, Safety!PostFails, Safety!card
<1>3. s.verdict # None
  BY SafetyBounds DEF SafetyTypes, SafetySubmits
<1>4. \A i \in Safety!Ids : trades[i].verdict # None => trades'[i].verdict # None
  BY <1>1, <1>3
<1>5. submits' # {} \/ mixed' # {}
  BY <1>1 DEF Safety!Range
<1>6. Safety!Items \in SUBSET SafetyItems /\ \A l \in loads : l.items \in SUBSET SafetyItems
  BY ItemsTyped DEF SafetyTypes, SafetyLoads
<1>7. \A xs \in SUBSET SafetyItems : ItemsStored(xs) => ItemsStored(xs)'
  BY <1>4, StoredStays
<1>8. Safety!Items' = Safety!Items /\ \A l : IsLast(l)' <=> IsLast(l)
  BY <1>2 DEF Safety!Items, IsLast
<1>9. ItemsStored(Safety!Items)' /\ \A l \in loads' : ItemsStored(l.items)'
  BY <1>2, <1>6, <1>7, <1>8 DEF CardFollows, ItemsStored
<1> QED
  BY <1>2, <1>5, <1>8, <1>9 DEF CardFollows

\* A load that arrives keeps what is said of the card.
LEMMA FollowsArrived ==
    ASSUME Safety!BoundAssumption, SafetyTypes, CardFollows, NEW l \in loads,
             Safety!LoadArrives(l)
    PROVE  CardFollows'
<1>1. /\ loads' = loads \ {l}
      /\ \/ safety' = [of |-> l.of, items |-> l.items]
         \/ safety' = safety /\ ~ l.ok
      /\ UNCHANGED <<trades, venue, submits, mixed>>
      /\ crossed' = (crossed \/ ~ l.ok \/ \E q \in loads \ {l} : q.n < l.n)
  BY Zenon DEF Safety!LoadArrives
<1>2. \A q \in loads : q.n \in Nat
  BY DEF SafetyTypes, SafetyLoads
<1>3. \A xs : ItemsStored(xs)' <=> ItemsStored(xs)
  BY <1>1 DEF ItemsStored
<1>4. \A xs : ItemsLabelled(xs)' <=> ItemsLabelled(xs)
  BY <1>1 DEF ItemsLabelled
<1>5. \/ Safety!Items' = Safety!Items /\ ~ l.ok
      \/ Safety!Items' = l.items /\ safety' = [of |-> l.of, items |-> l.items]
      \/ Safety!Items' = {} /\ safety' = None
  BY <1>1 DEF Safety!Items
<1>6. ItemsStored({})
  BY DEF ItemsStored
<1>7. ItemsStored(Safety!Items)' /\ \A q \in loads' : ItemsStored(q.items)'
  <2>1. ItemsStored(Safety!Items')
    BY <1>5, <1>6 DEF CardFollows
  <2>2. ItemsStored(Safety!Items)'
    BY <1>1, <2>1 DEF ItemsStored
  <2> QED
    BY <1>1, <1>3, <2>2 DEF CardFollows
<1>8. ~ crossed' => /\ ~ crossed /\ l.ok
                    /\ \A q \in loads' : IsLast(q)' => IsLast(q)
                    /\ loads' = {} => IsLast(l)
  <2> SUFFICES ASSUME ~ crossed'
               PROVE  /\ ~ crossed /\ l.ok
                      /\ \A q \in loads' : IsLast(q)' => IsLast(q)
                      /\ loads' = {} => IsLast(l)
    OBVIOUS
  <2>1. ~ crossed /\ l.ok /\ \A q \in loads \ {l} : l.n <= q.n
    <3>1. ~ crossed /\ l.ok /\ ~ \E q \in loads \ {l} : q.n < l.n
      BY <1>1, Zenon
    <3> QED
      BY <1>2, <3>1
  <2>2. \A q \in loads' : IsLast(q)' => IsLast(q)
    BY <1>1, <1>2, <2>1 DEF IsLast
  <2>3. loads' = {} => IsLast(l)
    BY <1>1, <1>2 DEF IsLast
  <2> QED
    BY <2>1, <2>2, <2>3
<1>9. ~ crossed' /\ mixed' = {} /\ submits' = {} =>
          /\ loads' = {} => ItemsLabelled(Safety!Items)'
          /\ \A q \in loads' : IsLast(q)' => ItemsLabelled(q.items)'
  <2> SUFFICES ASSUME ~ crossed', mixed' = {}, submits' = {}
               PROVE  /\ loads' = {} => ItemsLabelled(Safety!Items)'
                      /\ \A q \in loads' : IsLast(q)' => ItemsLabelled(q.items)'
    OBVIOUS
  <2>1. \A q \in loads' : IsLast(q)' => ItemsLabelled(q.items)'
    BY <1>1, <1>4, <1>8 DEF CardFollows
  <2>2. ASSUME loads' = {} PROVE ItemsLabelled(Safety!Items)'
    <3>1. ItemsLabelled(l.items) /\ ItemsLabelled({})
      BY <1>1, <1>8, <2>2 DEF CardFollows, ItemsLabelled
    <3>2. ItemsLabelled(Safety!Items')
      BY <1>5, <1>8, <3>1
    <3> QED
      BY <1>1, <3>2 DEF ItemsLabelled
  <2> QED
    BY <2>1, <2>2
<1>10. ~ crossed' => \A q \in loads' : IsLast(q)' => q.of = venue'
  BY <1>1, <1>8 DEF CardFollows
<1>11. ~ crossed' => (loads' = {} /\ safety' # None => safety'.of = venue')
  BY <1>1, <1>8 DEF CardFollows
<1> QED
  BY <1>7, <1>9, <1>10, <1>11 DEF CardFollows

SafetyInvariant == SafetyTypes /\ SubmitsFollow /\ CardFollows

\* The invariant holds at first.
LEMMA SafetyInit == ASSUME Safety!BoundAssumption, Safety!Init PROVE SafetyInvariant
<1>1. SafetyTypes
  BY SafetyTypesInit
<1>2. /\ trades = <<>> /\ safety = None /\ venue = Everything /\ submits = {}
      /\ loads = {[of |-> Everything, by |-> None, done |-> FALSE, ok |-> FALSE, items |-> {},
           n |-> 0]}
  BY Zenon DEF Safety!Init
<1>3. SubmitsFollow
  BY <1>2 DEF SubmitsFollow
<1>4. Safety!Items = {}
  BY <1>2 DEF Safety!Items
<1>5. CardFollows
  BY <1>2, <1>4 DEF CardFollows, ItemsStored, ItemsLabelled, IsLast
<1> QED
  BY <1>1, <1>3, <1>5 DEF SafetyInvariant

\* Every step keeps the invariant.
LEMMA SafetyNext ==
    ASSUME Safety!BoundAssumption, SafetyInvariant, [Safety!Next]_Safety!vars
    PROVE  SafetyInvariant' /\ Safety!EndsForAll
<1>0. SafetyTypes /\ SubmitsFollow /\ CardFollows
  BY DEF SafetyInvariant
<1>1. Safety!EndsForAll
  <2> SUFFICES ASSUME NEW s \in submits, Safety!Posted(s),
                        Safety!Range(s.members) \cap mixed = {},
                      NEW k \in DOMAIN s.members
               PROVE  trades[s.members[k]].verdict = s.verdict
    BY DEF Safety!EndsForAll
  <2>1. s.members \in Seq(Safety!Ids)
    BY <1>0 DEF SafetyTypes, SafetySubmits
  <2>2. s.next = Len(s.members) + 1
    BY Zenon DEF Safety!Posted
  <2>3. k \in 1 .. s.next - 1
    BY <2>1, <2>2
  <2> QED
    BY <1>0, <2>3 DEF SubmitsFollow
<1>2. CASE \E l \in loads : Safety!ListDaily(l) \/ Safety!LoadLost(l)
  <2>1. PICK l \in loads : Safety!ListDaily(l) \/ Safety!LoadLost(l)
    BY <1>2
  <2>2. UNCHANGED <<trades, submits, mixed>>
    BY <2>1, Zenon DEF Safety!ListDaily, Safety!LoadLost, Safety!card
  <2>3. SubmitsFollow'
    BY <1>0, <2>2, FollowFewer
  <2> QED
    BY <1>0, <1>1, <2>1, <2>3, TypesAnswered, FollowsAnswered DEF SafetyInvariant
<1>3. CASE \E l \in loads : Safety!LoadArrives(l)
  <2>1. PICK l \in loads : Safety!LoadArrives(l)
    BY <1>3
  <2>2. UNCHANGED <<trades, submits, mixed>>
    BY <2>1, Zenon DEF Safety!LoadArrives
  <2>3. SubmitsFollow'
    BY <1>0, <2>2, FollowFewer
  <2> QED
    BY <1>0, <1>1, <2>1, <2>3, TypesArrived, FollowsArrived DEF SafetyInvariant
<1>4. CASE \E t \in 1 .. MaxTime, v \in Venues : Safety!Trade(t, v)
  <2>1. PICK t \in 1 .. MaxTime, v \in Venues : Safety!Trade(t, v)
    BY <1>4
  <2>2. UNCHANGED <<submits, mixed>>
    BY <2>1, Zenon DEF Safety!Trade
  <2>3. SafetyTypes' /\ \A i \in Safety!Ids : trades'[i] = trades[i]
    BY <1>0, <2>1, TypesTraded
  <2>4. SubmitsFollow'
    BY <1>0, <2>2, <2>3, FollowFewer
  <2> QED
    BY <1>0, <1>1, <2>1, <2>3, <2>4, FollowsTraded DEF SafetyInvariant
<1>5. CASE Safety!Refresh \/ \E f \in Safety!Filters : Safety!ChooseVenue(f)
  <2>1. SafetyTypes' /\ LoadAsked(venue')
    BY <1>0, <1>5, TypesAsked
  <2>2. /\ venue' \in Safety!Filters /\ asked' = asked + 1
        /\ UNCHANGED <<trades, safety, submits, crossed, mixed>>
    BY <1>0, <1>5, Zenon DEF Safety!Refresh, Safety!ChooseVenue, Safety!LoadSafety, SafetyTypes
  <2>3. SubmitsFollow'
    BY <1>0, <2>2, FollowFewer
  <2>4. PICK f \in Safety!Filters : f = venue' /\ LoadAsked(f)
    BY <2>1, <2>2, Zenon
  <2>5. CardFollows'
    BY <1>0, <2>2, <2>4, FollowsLoads
  <2> QED
    BY <1>1, <2>1, <2>3, <2>5 DEF SafetyInvariant
<1>6. CASE \E x \in Safety!Items, v \in Verdicts : Safety!Submit(x, v)
  <2>1. PICK x \in Safety!Items, v \in Verdicts : Safety!Submit(x, v)
    BY <1>6
  <2>2. SafetyTypes'
    BY <1>0, <2>1, TypesSubmitted
  <2> QED
    BY <1>0, <1>1, <2>1, <2>2, FollowSubmitted, FollowsSubmitted DEF SafetyInvariant
<1>7. CASE \E s \in submits : Safety!Post(s) \/ Safety!PostFails(s)
  <2>1. PICK s \in submits : Safety!Post(s) \/ Safety!PostFails(s)
    BY <1>7
  <2>2. SafetyTypes'
    BY <1>0, <2>1, TypesPosted, TypesFailed
  <2>3. SubmitsFollow' /\ CardFollows'
    BY <1>0, <2>1, FollowPosted, FollowFailed, FollowsPosted
  <2> QED
    BY <1>1, <2>2, <2>3 DEF SafetyInvariant
<1>8. CASE \E s \in submits : Safety!Posted(s)
  <2>1. PICK s \in submits : Safety!Posted(s)
    BY <1>8
  <2>2. SafetyTypes' /\ LoadAsked(s.of) /\ s.of \in Safety!Filters
    BY <1>0, <2>1, TypesLoaded
  <2>3. /\ submits' = submits \ {s} /\ crossed' = (crossed \/ s.of # venue) /\ asked' = asked + 1
        /\ UNCHANGED <<trades, safety, venue, mixed>>
    BY <2>1, Zenon DEF Safety!Posted, Safety!LoadSafety
  <2>4. SubmitsFollow'
    BY <1>0, <2>3, FollowFewer
  <2>5. PICK f \in Safety!Filters : f = s.of /\ LoadAsked(f)
    BY <2>2, Zenon
  <2>6. CardFollows'
    BY <1>0, <2>3, <2>5, FollowsLoads
  <2> QED
    BY <1>1, <2>2, <2>4, <2>6 DEF SafetyInvariant
<1>9. CASE UNCHANGED Safety!vars
  <2>1. UNCHANGED <<trades, safety, loading, error, submitting, venue, loads, submits, asked,
          given,
                    faults, crossed, mixed>>
    BY <1>9, Zenon DEF Safety!vars, Safety!card
  <2>2. SubmitsFollow'
    BY <1>0, <2>1, FollowFewer
  <2>3. /\ Safety!Ids' = Safety!Ids /\ SafetyItems' = SafetyItems /\ SafetyLoads' = SafetyLoads
        /\ SafetySubmits' = SafetySubmits /\ Safety!Filters' = Safety!Filters
        /\ Safety!Items' = Safety!Items
    BY <2>1
       DEF Safety!Ids, SafetyItems, SafetyLoads, SafetySubmits, Safety!Filters, Safety!Items
  <2>4. SafetyTypes'
    BY <1>0, <2>1, <2>3, Zenon DEF SafetyTypes
  <2>5. CardFollows'
    BY <1>0, <2>1, <2>3 DEF CardFollows, ItemsStored, ItemsLabelled, IsLast
  <2> QED
    BY <1>1, <2>2, <2>4, <2>5 DEF SafetyInvariant
<1> QED
  BY <1>2, <1>3, <1>4, <1>5, <1>6, <1>7, <1>8, <1>9, Zenon DEF Safety!Next

\* The invariant says what is checked of the card.
LEMMA CardSound == SafetyInvariant => Safety!CardIsTrue
<1> SUFFICES ASSUME SafetyInvariant PROVE Safety!CardIsTrue
  OBVIOUS
<1>1. Safety!ReviewedIsStored
  BY DEF SafetyInvariant, CardFollows, ItemsStored, Safety!ReviewedIsStored
<1>2. Safety!LabelIsStored
  BY DEF SafetyInvariant, CardFollows, ItemsLabelled, Safety!LabelIsStored
<1>3. Safety!ItemsOfFilter
  BY DEF SafetyInvariant, CardFollows, Safety!ItemsOfFilter
<1> QED
  BY <1>1, <1>2, <1>3 DEF Safety!CardIsTrue

-----------------------------------------------------------------------------
(* The screens as parts of the browser: a step of another part leaves what is said of this one *)

\* A step of a behaviour about the notes is one of the notes; likewise of the form.
LEMMA NotesMove ==
    [Next]_vars /\ part' = "notes" => part = "notes" /\ [Notes!Next]_Notes!vars
<1> SUFFICES ASSUME [Next]_vars, part' = "notes" PROVE part = "notes" /\ [Notes!Next]_Notes!vars
  OBVIOUS
<1>1. CASE NotesStep
  BY <1>1 DEF NotesStep
<1>2. CASE UNCHANGED vars
  <2>1. UNCHANGED <<common, notesOwn, part>>
    BY <1>2, Zenon DEF vars
  <2> QED
    BY <2>1, Zenon DEF common, notesOwn, Notes!vars, Notes!store
<1> QED
  BY <1>1, <1>2 DEF Next, SessionStep, ListsStep, ImportStep, LibraryStep, TradeListStep,
                    EvidenceStep, ComposerStep, SafetyStep

\* A step of the browser that is about the form is one of the form.
LEMMA ComposerMoves ==
    [Next]_vars /\ part' = "composer" => part = "composer" /\ [Composer!Next]_Composer!vars
<1> SUFFICES ASSUME [Next]_vars, part' = "composer"
             PROVE  part = "composer" /\ [Composer!Next]_Composer!vars
  OBVIOUS
<1>1. CASE ComposerStep
  BY <1>1 DEF ComposerStep
<1>2. CASE UNCHANGED vars
  <2>1. UNCHANGED <<common, composerOwn, part>>
    BY <1>2, Zenon DEF vars
  <2> QED
    BY <2>1, Zenon DEF common, composerOwn, Composer!vars, Composer!form, Composer!ai
<1> QED
  BY <1>1, <1>2 DEF Next, SessionStep, ListsStep, ImportStep, LibraryStep, TradeListStep,
                    EvidenceStep, NotesStep, SafetyStep

\* A step of the browser that is about the evidence is one of the evidence.
LEMMA EvidenceMoves ==
    [Next]_vars /\ part' = "evidence" => part = "evidence" /\ [Evidence!Next]_Evidence!vars
<1> SUFFICES ASSUME [Next]_vars, part' = "evidence"
             PROVE  part = "evidence" /\ [Evidence!Next]_Evidence!vars
  OBVIOUS
<1>1. CASE EvidenceStep
  BY <1>1 DEF EvidenceStep
<1>2. CASE UNCHANGED vars
  <2>1. UNCHANGED <<common, evidenceOwn, part>>
    BY <1>2, Zenon DEF vars
  <2> QED
    BY <2>1, Zenon DEF common, evidenceOwn, Evidence!vars, Evidence!options
<1> QED
  BY <1>1, <1>2 DEF Next, SessionStep, ListsStep, ImportStep, LibraryStep, TradeListStep,
                    ComposerStep, NotesStep, SafetyStep

\* A step of the browser that is about the safety check is one of it.
LEMMA SafetyMove ==
    [Next]_vars /\ part' = "safety" => part = "safety" /\ [Safety!Next]_Safety!vars
<1> SUFFICES ASSUME [Next]_vars, part' = "safety"
                      PROVE part = "safety" /\ [Safety!Next]_Safety!vars
  OBVIOUS
<1>1. CASE SafetyStep
  BY <1>1 DEF SafetyStep
<1>2. CASE UNCHANGED vars
  <2>1. UNCHANGED <<common, safetyOwn, part>>
    BY <1>2, Zenon DEF vars
  <2> QED
    BY <2>1, Zenon DEF common, safetyOwn, Safety!vars, Safety!card
<1> QED
  BY <1>1, <1>2 DEF Next, SessionStep, ListsStep, ImportStep, LibraryStep, TradeListStep,
                    EvidenceStep, ComposerStep, NotesStep

\* A form saves one bubble for an opening, with its own opinion, and says how its question
\* stands; the evidence it shows is what its options amount to, for any number of openings,
\* edits, questions and retries (BubbleCreateModal.tsx).
THEOREM FormsFit == Spec => []FormFits
<1> DEFINE Good == /\ part = "composer" => FormInvariant
                   /\ part = "evidence" => Evidence!PreviewFits
<1>1. FormAssumption
  BY PartsAssumption
<1>2. Init => Good
  <2>1. Composer!Init => FormInvariant
    BY FormInvariantInit
  <2>2. Evidence!Init => Evidence!PreviewFits
    BY DEF Evidence!Init, Evidence!PreviewFits
  <2> QED
    BY <2>1, <2>2 DEF Init
<1>3. Good /\ [Next]_vars => Good'
  <2> SUFFICES ASSUME Good, [Next]_vars PROVE Good'
    OBVIOUS
  <2>1. ASSUME part' = "composer" PROVE FormInvariant'
    BY <1>1, <2>1, ComposerMoves, FormKept
  <2>2. ASSUME part' = "evidence" PROVE Evidence!PreviewFits'
    BY <2>2, EvidenceMoves, PreviewKept
  <2> QED
    BY <2>1, <2>2
<1>4. Good => FormFits
  BY <1>1, FormSound DEF FormFits
<1> HIDE DEF Good
<1> QED
  BY <1>2, <1>3, <1>4, PTL DEF Spec

\* The list of notes shows notes the server has, as it has them and once each, whatever was
\* written, deleted or lost on the way, for every size of a page (noteStore.ts).
THEOREM NotesHold == Spec => []NotesAreTrue
<1> DEFINE Good == part = "notes" => NotesInvariant
<1>1. NotesAssumption
  BY PartsAssumption DEF NotesAssumption
<1>2. Init => Good
  BY <1>1, NotesHoldInit DEF Init
<1>3. Good /\ [Next]_vars => Good'
  <2> SUFFICES ASSUME Good, [Next]_vars, part' = "notes" PROVE NotesInvariant'
    OBVIOUS
  <2>1. part = "notes" /\ [Notes!Next]_Notes!vars
    BY NotesMove, Zenon
  <2> QED
    BY <1>1, <2>1, NotesHoldNext
<1>4. Good => NotesAreTrue
  BY NotesAreListed DEF NotesAreTrue
<1> HIDE DEF Good
<1> QED
  BY <1>2, <1>3, <1>4, PTL DEF Spec

\* No answer takes away what the user typed, a memo or the text of a note, with the exceptions
\* the two modules name (BubbleCreateModal.tsx, NoteEditor.tsx, NoteList.tsx).
THEOREM TypedStays == Spec => TypedIsKept
<1> DEFINE Good == /\ part = "composer" => FormInvariant /\ MemoIsSafe
                   /\ part = "notes" => NoteTypes
           Kept == /\ part = "composer" => Composer!KeepsMemo
                   /\ part = "notes" => Notes!KeepsText
<1>1. FormAssumption /\ NotesAssumption
  BY PartsAssumption DEF NotesAssumption
<1>2. Init => Good
  <2>1. Composer!Init => FormInvariant /\ MemoIsSafe
    BY FormInvariantInit DEF Composer!Init, MemoIsSafe
  <2>2. Notes!Init => NoteTypes
    BY <1>1, NotesTypesInit
  <2> QED
    BY <2>1, <2>2 DEF Init
<1>3. Good /\ [Next]_vars => Good' /\ Kept
  <2> SUFFICES ASSUME Good, [Next]_vars PROVE Good' /\ Kept
    OBVIOUS
  <2>1. CASE part = "composer"
    <3>1. part' = "composer" /\ [Composer!Next]_Composer!vars
      BY <2>1, PartStays, ComposerMoves, Zenon
    <3>2. FormInvariant'
      BY <1>1, <2>1, <3>1, FormKept
    <3>3. MemoIsSafe' /\ Composer!KeepsMemo
      BY <2>1, <3>1, MemoSafe DEF FormInvariant
    <3> QED
      BY <2>1, <3>1, <3>2, <3>3
  <2>2. CASE part = "notes"
    <3>1. part' = "notes" /\ [Notes!Next]_Notes!vars
      BY <2>2, PartStays, NotesMove, Zenon
    <3>2. NoteTypes' /\ Notes!KeepsText
      BY <1>1, <2>2, <3>1, NotesTypesNext, TextKept
    <3> QED
      BY <2>2, <3>1, <3>2
  <2> QED
    BY <2>1, <2>2, PartStays, Zenon
<1>4. TypedIsKept <=> [][Kept]_vars
  BY DEF TypedIsKept
<1> HIDE DEF Good, Kept
<1> QED
  BY <1>2, <1>3, <1>4, PTL DEF Spec

\* What the card says of its items is so at the server, and they are those of the chosen venue,
\* for any number of trades, loads and verdicts (HomeSafetyCheckCard.tsx).
THEOREM CardHolds == Spec => []CardIsTrue
<1> DEFINE Good == part = "safety" => SafetyInvariant
<1>1. Safety!BoundAssumption
  BY PartsAssumption
<1>2. Init => Good
  BY <1>1, SafetyInit DEF Init
<1>3. Good /\ [Next]_vars => Good'
  BY <1>1, SafetyMove, SafetyNext
<1>4. Good => CardIsTrue
  BY CardSound DEF CardIsTrue
<1> HIDE DEF Good
<1> QED
  BY <1>2, <1>3, <1>4, PTL DEF Spec

\* A verdict that was given is the verdict of each trade of its item when the card is loaded
\* again, unless it overlapped with another or was lost (HomeSafetyCheckCard.tsx:120-150).
THEOREM VerdictsHold == Spec => VerdictForAll
<1> DEFINE Good == part = "safety" => SafetyInvariant
           Ends == part = "safety" => Safety!EndsForAll
<1>1. Safety!BoundAssumption
  BY PartsAssumption
<1>2. Init => Good
  BY <1>1, SafetyInit DEF Init
<1>3. Good /\ [Next]_vars => Good' /\ Ends
  BY <1>1, PartStays, SafetyMove, SafetyNext
<1>4. VerdictForAll <=> [][Ends]_vars
  BY DEF VerdictForAll
<1> HIDE DEF Good, Ends
<1> QED
  BY <1>2, <1>3, <1>4, PTL DEF Spec
===============================================================================
