------------------------------ MODULE SafetyCheck ------------------------------
(***************************************************************************)
(* The safety check of the home screen: the trades of today, grouped, each *)
(* group to be called intended or a mistake (HomeSafetyCheckCard.tsx), and *)
(* the server that groups them and keeps a verdict per trade               *)
(* (safety_handler.go, trade_safety_review_repository_impl.go).            *)
(*                                                                         *)
(* A trade is when and where it was executed and its verdict; symbol and   *)
(* side go with the venue, the asset class is a filter like the venue.     *)
(* Trades of one time are told apart by their number.  A verdict goes out  *)
(* trade by trade, each post awaited before the next.                      *)
(***************************************************************************)
EXTENDS Integers, Sequences, FiniteSets, SequencesExt, FiniteSetsExt

CONSTANTS Venues, Verdicts, MaxTrades, MaxTime, Window, Limit, MaxLoads, MaxSubmits, MaxFaults,
          None, All

BoundAssumption ==
    /\ {MaxTrades, MaxTime, Limit} \subseteq Nat \ {0}
    /\ {Window, MaxLoads, MaxSubmits, MaxFaults} \subseteq Nat
    /\ None \notin Verdicts /\ All \notin Venues

VARIABLES
    trades,             \* in the order they were stored
    safety,             \* None, or the items of a load and the filter it was asked with
    loading, error, submitting, venue, \* the card; submitting is a trade: the first of its item
    loads, submits,     \* requests under way; submits are loops over the trades of an item
    asked, given, faults, \* bounds: loads asked for by hand, verdicts given, what is lost
    crossed,            \* history: a load was answered out of turn or asked with an older filter
    mixed               \* history: trades whose verdicts overlapped or were lost half way

card == <<safety, loading, error, submitting, venue>>
vars == <<trades, card, loads, submits, asked, given, faults, crossed, mixed>>

Ids == DOMAIN trades
Filters == Venues \cup {All}

TypeOK ==
    /\ trades \in Seq([at : 1 .. MaxTime, venue : Venues, verdict : Verdicts \cup {None}])
    /\ safety = None \/ (safety.of \in Filters /\ \A x \in safety.items : x.members # <<>>)
    /\ {loading, error, crossed} \subseteq BOOLEAN
    /\ submitting \in Ids \cup {None} /\ venue \in Filters /\ mixed \subseteq Ids
    /\ \A s \in submits : s.next \in 1 .. Len(s.members) + 1
    /\ asked \in 0 .. MaxLoads + MaxSubmits /\ given \in 0 .. MaxSubmits /\ faults \in 0 .. MaxFaults

Load(f, by) == [of |-> f, by |-> by, done |-> FALSE, ok |-> FALSE, items |-> {}, n |-> asked + 1]

\* The first load is asked for when the card appears.
Init ==
    /\ trades = <<>> /\ safety = None
    /\ loading = TRUE /\ error = FALSE /\ submitting = None /\ venue = All
    /\ loads = {[of |-> All, by |-> None, done |-> FALSE, ok |-> FALSE, items |-> {}, n |-> 0]}
    /\ submits = {} /\ asked = 0 /\ given = 0 /\ faults = 0
    /\ crossed = FALSE /\ mixed = {}

-----------------------------------------------------------------------------
(* The server *)

\* The trades a filter lets through, by time, at most the last Limit of them.
Before(i, j) == trades[i].at < trades[j].at \/ (trades[i].at = trades[j].at /\ i < j)
Through(f) == {i \in Ids : f \in {All, trades[i].venue}}
Listed(f) ==
    LET all == Through(f)
        skipped == IF Cardinality(all) > Limit THEN Cardinality(all) - Limit ELSE 0
    IN  [k \in 1 .. Cardinality(all) - skipped |->
            CHOOSE i \in all : Cardinality({j \in all : Before(j, i)}) = skipped + k - 1]

\* A trade joins the group of the trade before it when venue and time are near.
Joins(j, i) == trades[j].venue = trades[i].venue /\ trades[i].at - trades[j].at <= Window

\* A group is its trades: a run of the list whose trades join.
Groups(f) ==
    LET l == Listed(f)
        opens(k) == k = 1 \/ ~ Joins(l[k - 1], l[k])
        group(a, b) == /\ a <= b /\ opens(a) /\ \A k \in a + 1 .. b : ~ opens(k)
                       /\ b = Len(l) \/ opens(b + 1)
    IN  {SubSeq(l, r[1], r[2]) : r \in {r \in (DOMAIN l) \X (DOMAIN l) : group(r[1], r[2])}}

VerdictsOf(g) == {trades[g[k]].verdict : k \in DOMAIN g} \ {None}
Reviewed(g) == \A k \in DOMAIN g : trades[g[k]].verdict # None

\* Mutant: the verdict of any trade is that of its group.
LabelAny(g) == IF Reviewed(g) THEN CHOOSE v \in VerdictsOf(g) : TRUE ELSE None

\* A group has a verdict when all its trades have it.
Label(g) ==
    IF Reviewed(g) /\ Cardinality(VerdictsOf(g)) = 1
    THEN CHOOSE v \in VerdictsOf(g) : TRUE ELSE None

ListDaily(l) ==
    /\ ~ l.done
    /\ loads' = (loads \ {l}) \cup
          {[l EXCEPT !.done = TRUE, !.ok = TRUE,
                     !.items = {[members |-> g, reviewed |-> Reviewed(g), verdict |-> Label(g)] :
                                   g \in Groups(l.of)}]}
    /\ UNCHANGED <<trades, card, submits, asked, given, faults, crossed, mixed>>

LoadLost(l) ==
    /\ l.ok \/ ~ l.done
    /\ faults < MaxFaults /\ faults' = faults + 1
    /\ loads' = (loads \ {l}) \cup {[l EXCEPT !.done = TRUE, !.ok = FALSE, !.items = {}]}
    /\ UNCHANGED <<trades, card, submits, asked, given, crossed, mixed>>

\* A sync stores a trade of today.
Trade(t, v) ==
    /\ Len(trades) < MaxTrades
    /\ trades' = Append(trades, [at |-> t, venue |-> v, verdict |-> None])
    /\ UNCHANGED <<card, loads, submits, asked, given, faults, crossed, mixed>>

Upsert(i, v) == trades' = [trades EXCEPT ![i].verdict = v]

-----------------------------------------------------------------------------
(* The card *)

LoadSafety(l) ==
    /\ asked' = asked + 1
    /\ loads' = loads \cup {l}
    /\ loading' = TRUE /\ error' = FALSE

Refresh ==
    /\ asked < MaxLoads
    /\ LoadSafety(Load(venue, None))
    /\ UNCHANGED <<trades, safety, submitting, venue, submits, given, faults, crossed, mixed>>

\* The buttons are those of the items on the screen.
Options ==
    IF safety = None THEN {All} ELSE
    {All} \cup {trades[x.members[1]].venue : x \in safety.items}

ChooseVenue(f) ==
    /\ asked < MaxLoads
    /\ f # venue /\ f \in Options /\ venue' = f
    /\ LoadSafety(Load(f, None))
    /\ UNCHANGED <<trades, safety, submitting, submits, given, faults, crossed, mixed>>

\* Buttons are on items not reviewed; only those of the item that was last submitted are disabled.
Buttons(x) == ~ x.reviewed /\ submitting # x.members[1]

Submit(x, v) ==
    /\ safety # None /\ x \in safety.items /\ Buttons(x)
    /\ given < MaxSubmits /\ given' = given + 1
    /\ submitting' = x.members[1] /\ error' = FALSE
    /\ submits' = submits \cup {[members |-> x.members, verdict |-> v, next |-> 1, of |-> venue, n |-> given]}
    /\ UNCHANGED <<trades, safety, loading, venue, loads, asked, faults, crossed>>
    /\ mixed' = mixed \cup UNION {ToSet(s.members) : s \in {q \in submits : Range(q.members) \cap Range(x.members) # {}}}

\* Mutant: trades that have a verdict are passed over.
PostUnreviewed(s) ==
    /\ s.next <= Len(s.members)
    /\ IF trades[s.members[s.next]].verdict = None THEN Upsert(s.members[s.next], s.verdict)
       ELSE trades' = trades
    /\ submits' = (submits \ {s}) \cup {[s EXCEPT !.next = @ + 1]}
    /\ UNCHANGED <<card, loads, asked, given, faults, crossed, mixed>>

\* One trade of the item is stored, and the answer is back.
Post(s) ==
    /\ s.next <= Len(s.members)
    /\ Upsert(s.members[s.next], s.verdict)
    /\ submits' = (submits \ {s}) \cup {[s EXCEPT !.next = @ + 1]}
    /\ UNCHANGED <<card, loads, asked, given, faults, crossed, mixed>>

\* A post or its answer is lost: the rest is not sent and nothing loaded.
PostFails(s) ==
    /\ s.next <= Len(s.members)
    /\ faults < MaxFaults /\ faults' = faults + 1
    /\ Upsert(s.members[s.next], s.verdict) \/ trades' = trades
    /\ submits' = submits \ {s} /\ error' = TRUE /\ submitting' = None
    /\ mixed' = mixed \cup ToSet(s.members)
    /\ UNCHANGED <<safety, loading, venue, loads, asked, given, crossed>>

\* After the last it loads, with the filter of the time the button was pressed.
Posted(s) ==
    /\ s.next = Len(s.members) + 1
    /\ LoadSafety(Load(s.of, s.n))
    /\ submits' = submits \ {s}
    /\ crossed' = (crossed \/ s.of # venue)
    /\ UNCHANGED <<trades, safety, submitting, venue, given, faults, mixed>>

LoadArrives(l) ==
    /\ l.done /\ loads' = loads \ {l} /\ loading' = FALSE
    /\ IF l.ok THEN safety' = [of |-> l.of, items |-> l.items] /\ error' = error
       ELSE safety' = safety /\ error' = TRUE
    /\ submitting' = IF l.by = None THEN submitting ELSE None
    /\ UNCHANGED <<trades, venue, submits, asked, given, faults, mixed>>
    /\ crossed' = (crossed \/ ~ l.ok \/ \E q \in loads \ {l} : q.n < l.n)

-----------------------------------------------------------------------------
Items == IF safety = None THEN {} ELSE safety.items

Next ==
    \/ \E l \in loads : ListDaily(l) \/ LoadLost(l) \/ LoadArrives(l)
    \/ \E t \in 1 .. MaxTime, v \in Venues : Trade(t, v)
    \/ Refresh
    \/ \E f \in Filters : ChooseVenue(f)
    \/ \E x \in Items, v \in Verdicts : Submit(x, v)
    \/ \E s \in submits : Post(s) \/ PostFails(s) \/ Posted(s)

Spec == Init /\ [][Next]_vars

\* Requests are answered or lost.
Listing == \E l \in loads : ListDaily(l)
Loading == \E l \in loads : LoadArrives(l)
Posting == \E s \in submits : Post(s)
Answering == \E s \in submits : Posted(s)
FairSpec ==
    /\ Spec
    /\ WF_vars(Listing) /\ WF_vars(Loading)
    /\ WF_vars(Posting) /\ WF_vars(Answering)

-----------------------------------------------------------------------------
(* Properties *)

\* An item without buttons asks for nothing more: each of its trades has a verdict at the server.
ReviewedIsStored ==
    \A x \in Items : x.reviewed => \A k \in DOMAIN x.members : trades[x.members[k]].verdict # None

\* The label on an item is the verdict of each of its trades, where no verdict is on its way and
\* no two overlapped or failed, and no load was answered out of turn.
LabelIsStored ==
    ~ crossed /\ submits = {} /\ loads = {} /\ mixed = {} =>
        \A x \in Items : x.verdict # None =>
            \A k \in DOMAIN x.members : trades[x.members[k]].verdict = x.verdict

\* A verdict that was given is the verdict of all trades of its item, those judged before too.
EndsForAll ==
    \A s \in submits : Posted(s) /\ Range(s.members) \cap mixed = {} =>
        \A k \in DOMAIN s.members : trades[s.members[k]].verdict = s.verdict

VerdictForAll == [][EndsForAll]_vars

\* At rest the items are those of the filter that is chosen, unless a load was answered out of
\* turn or failed, or the filter was changed while a verdict was on its way.
ItemsOfFilter ==
    ~ crossed /\ loads = {} /\ safety # None => safety.of = venue

\* What the card says of its items is so at the server, and they are the ones asked for.
CardIsTrue == ReviewedIsStored /\ LabelIsStored /\ ItemsOfFilter

\* An item that is being submitted is released.
Submitting == submitting # None
SubmitEnds == Submitting ~> ~ Submitting
=============================================================================
