------------------------------ MODULE GuidedReview ------------------------------
(***************************************************************************)
(* The guided review of the day: the store (stores/guidedReviewStore.ts),  *)
(* the card and the modal of the home screen (HomeGuidedReviewCard.tsx,    *)
(* HomeSnapshot.tsx) and the questions (GuidedReviewFlow.tsx), against the *)
(* server's review of each day.                                            *)
(*                                                                         *)
(* A request is sent, handled and answered in three steps, so that answers *)
(* overtake one another and one that was handled may be lost.  The store   *)
(* outlives the screen; the questions and their draft do not.  An item is  *)
(* the bundle of trades asked about; of its answer only the layers filled  *)
(* in are kept.  Trades that come after a day was completed add an item    *)
(* that the server makes anew at every load until it is answered; those    *)
(* carried over to the next day are left to GuidedDays.                    *)
(***************************************************************************)
EXTENDS Integers, Sequences, FiniteSets

CONSTANTS
    Plan,               \* how many items each day has
    None,
    MaxVisits, MaxFresh, MaxWire

PlanAssumption == Len(Plan) > 0 /\ \A d \in 1 .. Len(Plan) : Plan[d] \in Nat \ {0}

Days == 1 .. Len(Plan)
Status == {"pending", "in_progress", "completed"}
Layers == <<"intent", "emotions", "pattern", "memo">>
Asked == {"intent", "emotions", "pattern"}
Planned(d, k) == <<d, k>>
Extra(n) == <<0, n>>
Ids == {Planned(d, k) : d \in Days, k \in 1 .. 9} \cup {Extra(n) : n \in 1 .. MaxFresh}

VARIABLES
    day, status, rows, late, fresh,  \* server: today; per day the review, its items, whether
                                     \* trades came after it; items made so far
    review, items, step, loading, error, \* the store
    home, open,         \* the screen is there; its card is open
    flow,               \* ItemFlow: None, or the item, layer, draft and whether it submits
    wire,               \* requests that were not answered yet
    visits,
    shrunk              \* history: a load left fewer items than the step

server == <<day, status, rows, late, fresh>>
store == <<review, items, step, loading, error>>
vars == <<server, store, home, open, flow, wire, visits, shrunk>>

Item(i, a) == [id |-> i, answered |-> a]

TypeOK ==
    /\ day \in Days /\ status \in [Days -> Status] /\ fresh \in 0 .. MaxFresh
    /\ late \in [Days -> BOOLEAN]
    /\ \A d \in Days : \A k \in 1 .. Len(rows[d]) : rows[d][k].id \in Ids
    /\ review = None \/ (review.day \in Days /\ review.status \in Status)
    /\ \A k \in 1 .. Len(items) : items[k].id \in Ids
    /\ step \in 1 .. MaxFresh + 3
    /\ {loading, error, home, open, shrunk} \subseteq BOOLEAN
    /\ flow = None \/ (flow.layer \in 1 .. 4 /\ flow.filled \subseteq Asked)
    /\ visits \in 0 .. MaxVisits /\ Cardinality(wire) <= MaxWire

Init ==
    /\ day = 1 /\ fresh = 0
    /\ status = [d \in Days |-> "pending"]
    /\ rows = [d \in Days |-> [k \in 1 .. Plan[d] |-> Item(Planned(d, k), FALSE)]]
    /\ late = [d \in Days |-> FALSE]
    /\ review = None /\ items = <<>> /\ step = 1 /\ loading = FALSE /\ error = FALSE
    /\ home = FALSE /\ open = FALSE /\ flow = None
    /\ wire = {} /\ visits = 0 /\ shrunk = FALSE

-----------------------------------------------------------------------------
(* What is on the screen *)

AllAnswered(its) == its # <<>> /\ \A k \in 1 .. Len(its) : its[k].answered

\* The modal that holds the home screen until today's review is completed.
Modal(shown, rv, busy) == shown /\ rv # None /\ ~ busy /\ rv.status # "completed"

\* The card among the others of the home screen, for a completed review.
Card(shown, rv) == shown /\ rv # None /\ rv.status = "completed"

\* The questions: an item of the flow, not its closing page.
Asks(shown, rv, busy, its, opened) ==
    /\ Modal(shown, rv, busy) \/ (Card(shown, rv) /\ opened)
    /\ its # <<>> /\ ~ (rv.status = "completed" /\ AllAnswered(its))

Fresh(it) == [id |-> it.id, layer |-> 1, filled |-> IF it.answered THEN Asked ELSE {},
              submitting |-> FALSE]

\* ItemFlow is keyed by its item: another item, or the same one shown again, begins anew.
FlowOf(shown, rv, busy, its, at, opened, draft) ==
    IF ~ (Asks(shown, rv, busy, its, opened) /\ at <= Len(its)) THEN None
    ELSE IF draft # None /\ draft.id = its[at].id THEN draft
    ELSE Fresh(its[at])

\* A page that is gone does not hear of the answers to its requests.
Heard(w, item, asks) ==
    {IF (r.k = "submit" /\ ~ item) \/ (r.k = "complete" /\ ~ asks)
     THEN [r EXCEPT !.own = FALSE] ELSE r : r \in w}

\* The screen after a step that leaves it with these, and the requests w; the card is closed
\* when it appears.
Render(shown, rv, busy, its, at, opened, draft, w) ==
    LET op == opened /\ Card(home, review) /\ Card(shown, rv)
        f == FlowOf(shown, rv, busy, its, at, op, draft)
    IN  /\ review' = rv /\ loading' = busy /\ items' = its /\ step' = at
        /\ home' = shown /\ open' = op /\ flow' = f
        /\ wire' = Heard(w, flow # None /\ f # None /\ f = draft, Asks(shown, rv, busy, its, op))

\* Only the draft changes.
Draft(f) ==
    /\ flow' = f
    /\ UNCHANGED <<server, store, home, open, wire, visits, shrunk>>

Room == Cardinality(wire) < MaxWire
Without(r) == wire \ {r}

-----------------------------------------------------------------------------
(* The server *)

\* Trades of the day that came after it was completed.
NewTrade ==
    /\ status[day] = "completed" /\ ~ late[day]
    /\ late' = [late EXCEPT ![day] = TRUE]
    /\ UNCHANGED <<day, status, rows, fresh, store, home, open, flow, wire, visits, shrunk>>

NewDay ==
    /\ day < Len(Plan) /\ day' = day + 1
    /\ UNCHANGED <<status, rows, late, fresh, store, home, open, flow, wire, visits, shrunk>>

IsExtra(it) == it.id[1] = 0

\* The items of the day as a load finds them: an extra one that was not answered is made anew.
Supplements(d) ==
    /\ status[d] = "completed" /\ late[d]
    /\ ~ \E k \in 1 .. Len(rows[d]) : IsExtra(rows[d][k]) /\ rows[d][k].answered

GetOrCreateToday(r) ==
    /\ r.k = "today" /\ r.at = "sent"
    /\ IF Supplements(day)
       THEN /\ fresh < MaxFresh /\ fresh' = fresh + 1
            /\ rows' = [rows EXCEPT ![day] =
                 Append(SelectSeq(@, LAMBDA it : ~ IsExtra(it)), Item(Extra(fresh + 1), FALSE))]
       ELSE UNCHANGED <<fresh, rows>>
    /\ wire' = (wire \ {r}) \cup {[r EXCEPT !.at = "handled", !.ok = TRUE,
                    !.review = [day |-> day, status |-> status[day]], !.items = rows'[day]]}
    /\ UNCHANGED <<day, status, late, store, home, open, flow, visits, shrunk>>

\* An item that is not there any more is refused.
SubmitItem(r) ==
    /\ r.k = "submit" /\ r.at = "sent"
    /\ LET known == \E d \in Days : \E k \in 1 .. Len(rows[d]) : rows[d][k].id = r.id
       IN  /\ rows' = [d \in Days |-> [k \in 1 .. Len(rows[d]) |->
                        IF rows[d][k].id = r.id THEN Item(r.id, TRUE) ELSE rows[d][k]]]
           /\ status' = [d \in Days |->
                IF status[d] = "pending" /\ \E k \in 1 .. Len(rows[d]) : rows[d][k].id = r.id
                THEN "in_progress" ELSE status[d]]
           /\ wire' = (wire \ {r}) \cup {[r EXCEPT !.at = "handled", !.ok = known]}
    /\ UNCHANGED <<day, late, fresh, store, home, open, flow, visits, shrunk>>

\* The server does not look at the items; trades before now are not late any more.
CompleteReview(r) ==
    /\ r.k = "complete" /\ r.at = "sent"
    /\ status' = [status EXCEPT ![r.review.day] = "completed"]
    /\ late' = [late EXCEPT ![r.review.day] = FALSE]
    /\ wire' = (wire \ {r}) \cup {[r EXCEPT !.at = "handled", !.ok = TRUE]}
    /\ UNCHANGED <<day, rows, fresh, store, home, open, flow, visits, shrunk>>

\* A request, or the answer to one that was handled, is lost.
Lost(r) ==
    /\ r.ok \/ r.at = "sent"
    /\ wire' = (wire \ {r}) \cup {[r EXCEPT !.at = "handled", !.ok = FALSE]}
    /\ UNCHANGED <<server, store, home, open, flow, visits, shrunk>>

-----------------------------------------------------------------------------
(* Loading *)

Load == [k |-> "today", at |-> "sent", ok |-> FALSE, n |-> visits, review |-> None, items |-> <<>>]
Loads == wire \cup {Load}

\* The home screen asks for today's review when it appears.
VisitHome ==
    /\ ~ home /\ visits < MaxVisits /\ visits' = visits + 1
    /\ Room /\ error' = FALSE
    /\ Render(TRUE, review, TRUE, items, step, FALSE, None, Loads)
    /\ UNCHANGED <<server, shrunk>>

LeaveHome ==
    /\ home
    /\ Render(FALSE, review, loading, items, step, FALSE, None, wire)
    /\ UNCHANGED <<server, error, visits, shrunk>>

\* The card offers to load again after a load that failed.
Reload ==
    /\ Card(home, review) /\ ~ open /\ ~ loading /\ error
    /\ visits < MaxVisits /\ visits' = visits + 1
    /\ Room /\ error' = FALSE
    /\ Render(home, review, TRUE, items, step, FALSE, None, Loads)
    /\ UNCHANGED <<server, shrunk>>

TodayArrives(r) ==
    /\ r.k = "today" /\ r.at = "handled"
    /\ IF r.ok
       THEN Render(home, r.review, FALSE, r.items, step, open, flow, Without(r))
            /\ error' = error /\ shrunk' = (step > Len(r.items))
       ELSE Render(home, review, FALSE, items, step, open, flow, Without(r))
            /\ error' = TRUE /\ shrunk' = shrunk
    /\ UNCHANGED <<server, visits>>

-----------------------------------------------------------------------------
(* The card *)

OpenCard ==
    /\ Card(home, review) /\ ~ open /\ ~ loading /\ ~ error /\ items # <<>>
    /\ ~ AllAnswered(items) \/ \E k \in 1 .. Len(items) : IsExtra(items[k]) /\ ~ items[k].answered
    /\ open' = TRUE /\ flow' = FlowOf(home, review, loading, items, step, TRUE, None)
    /\ UNCHANGED <<server, store, home, wire, visits, shrunk>>

\* The closing page, and the page without items, close the card.
CloseCard ==
    /\ Card(home, review) /\ open /\ (AllAnswered(items) \/ items = <<>>)
    /\ open' = FALSE /\ flow' = None
    /\ UNCHANGED <<server, store, home, wire, visits, shrunk>>

-----------------------------------------------------------------------------
(* The questions *)

\* The item was answered before, as far as the store knows.
AnsweredItem == items[step].answered
Questions == flow # None /\ ~ (AnsweredItem /\ flow.layer = 1)

\* Mutant: a layer can be left without an answer.
CanAdvanceAnyway(f) == f.layer \in 1 .. Len(Layers)

CanAdvance(f) == Layers[f.layer] \in f.filled \cup {"memo"}

\* One of the options, or an emotion.
PickOption ==
    /\ Questions /\ Layers[flow.layer] \in Asked
    /\ Draft([flow EXCEPT !.filled = @ \cup {Layers[flow.layer]}])

\* The last emotion is taken back.
ClearEmotions ==
    /\ Questions /\ Layers[flow.layer] = "emotions"
    /\ Draft([flow EXCEPT !.filled = @ \ {"emotions"}])

NextLayer ==
    /\ Questions /\ ~ flow.submitting /\ CanAdvance(flow) /\ flow.layer < Len(Layers)
    /\ Draft([flow EXCEPT !.layer = @ + 1])

Back ==
    /\ Questions /\ flow.layer > 1
    /\ Draft([flow EXCEPT !.layer = @ - 1])

\* The answer carries the step and the items of the page it was given on.
Submit ==
    /\ Questions /\ ~ flow.submitting /\ CanAdvance(flow) /\ flow.layer = Len(Layers)
    /\ Room
    /\ wire' = wire \cup {[k |-> "submit", at |-> "sent", ok |-> FALSE, own |-> TRUE, id |-> flow.id,
                           filled |-> flow.filled, last |-> step >= Len(items)]}
    /\ flow' = [flow EXCEPT !.submitting = TRUE]
    /\ error' = FALSE
    /\ UNCHANGED <<server, review, items, step, loading, home, open, visits, shrunk>>

NextStep(at, its) == IF at < Len(its) THEN at + 1 ELSE at

Marked(its, i) == [k \in 1 .. Len(its) |-> IF its[k].id = i THEN Item(i, TRUE) ELSE its[k]]

\* The store marks the item; the page that sent the answer, there or not, moves on.
SubmitArrives(r) ==
    /\ r.k = "submit" /\ r.at = "handled"
    /\ LET still == IF r.own THEN [flow EXCEPT !.submitting = FALSE] ELSE flow
       IN  IF r.ok
           THEN Render(home, review, loading, Marked(items, r.id),
                     IF ~ r.last THEN NextStep(step, items) ELSE step, open, still, Without(r))
                /\ error' = error
           ELSE Render(home, review, loading, items, step, open, still, Without(r))
                /\ error' = TRUE
    /\ UNCHANGED <<server, visits, shrunk>>

\* An item answered before is passed over.
PassAnswered ==
    /\ flow # None /\ AnsweredItem /\ flow.layer = 1 /\ step < Len(items)
    /\ Render(home, review, loading, items, NextStep(step, items), open, flow, wire)
    /\ UNCHANGED <<server, error, visits, shrunk>>

\* A dot of the progress bar.
SetStep(k) ==
    /\ Asks(home, review, loading, items, open)
    /\ Render(home, review, loading, items, k, open, flow, wire)
    /\ shrunk' = FALSE
    /\ UNCHANGED <<server, error, visits>>

\* Offered when every item was answered.
MayComplete == Asks(home, review, loading, items, open) /\ AllAnswered(items)

Complete ==
    /\ MayComplete /\ Room /\ ~ \E r \in wire : r.k = "complete" /\ r.own
    /\ wire' = wire \cup {[k |-> "complete", at |-> "sent", ok |-> FALSE, own |-> TRUE,
                           review |-> review]}
    /\ error' = FALSE
    /\ UNCHANGED <<server, review, items, step, loading, home, open, flow, visits, shrunk>>

\* The review that was there when it was sent is put back, completed.
CompleteArrives(r) ==
    /\ r.k = "complete" /\ r.at = "handled"
    /\ Render(home, IF r.ok THEN [r.review EXCEPT !.status = "completed"] ELSE review,
              loading, items, step, open, flow, Without(r))
    /\ error' = (error \/ ~ r.ok)
    /\ UNCHANGED <<server, visits, shrunk>>

-----------------------------------------------------------------------------
Handled(r) == GetOrCreateToday(r) \/ SubmitItem(r) \/ CompleteReview(r)
Arrives(r) == TodayArrives(r) \/ SubmitArrives(r) \/ CompleteArrives(r)

Next ==
    \/ NewTrade \/ NewDay
    \/ \E r \in wire : Handled(r) \/ Lost(r) \/ Arrives(r)
    \/ VisitHome \/ LeaveHome \/ Reload
    \/ OpenCard \/ CloseCard
    \/ PickOption \/ ClearEmotions \/ NextLayer \/ Back \/ Submit \/ PassAnswered
    \/ \E k \in 1 .. Len(items) : SetStep(k)
    \/ Complete

Spec == Init /\ [][Next]_vars

\* Each request is handled or lost, and its answer arrives.
Reached(k) == \E r \in wire : r.k = k /\ r.at = "sent" /\ (Handled(r) \/ Lost(r))
Answers(k) == \E r \in wire : r.k = k /\ Arrives(r)
FairSpec ==
    Spec /\ \A k \in {"today", "submit", "complete"} : WF_vars(Reached(k)) /\ WF_vars(Answers(k))

-----------------------------------------------------------------------------
(* Properties *)

\* The server completes a review without looking at its items; with this client none is
\* completed while an item of the day's plan has no answer.
CompletedIsAnswered ==
    \A d \in Days : status[d] = "completed" =>
        \A k \in 1 .. Plan[d] : rows[d][k].answered

\* What the store shows as answered the server has, whatever was lost or overtaken.
AnsweredIsStored ==
    \A k \in 1 .. Len(items) : items[k].answered =>
        \E d \in Days : \E j \in 1 .. Len(rows[d]) : rows[d][j] = items[k]

\* No answer is sent, or stored, without reason, emotion and pattern.
AnswersAreWhole == \A r \in wire : r.k = "submit" => r.filled = Asked

\* Where questions are asked there is an item to ask about; only a load that left fewer
\* items than the step takes it away.
ItemShown == Asks(home, review, loading, items, open) /\ ~ shrunk => flow # None

\* What is answered, stored, completed and asked agrees.
ReviewIsSound == CompletedIsAnswered /\ AnsweredIsStored /\ AnswersAreWhole /\ ItemShown

\* A page that submits is released.
Submitting == flow # None /\ flow.submitting
SubmittingEnds == Submitting ~> ~ Submitting
=============================================================================
