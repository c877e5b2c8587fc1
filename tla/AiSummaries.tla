------------------------------ MODULE AiSummaries ------------------------------
(***************************************************************************)
(* The AI summaries of the review page (app/(app)/review/page.tsx): notes  *)
(* an AI wrote, listed with their bubbles, filtered, paged, and the filter *)
(* kept in the address.                                                    *)
(*                                                                         *)
(* A summary is its symbol; None where its bubble is not among those       *)
(* listed.  The two filters, symbol and timeframe, are one.  A load is     *)
(* asked for, handled and answered; of the loads of a page only the        *)
(* youngest counts.  The router replaces the address some time after it is *)
(* told to, and a later navigation takes the place of an earlier.          *)
(***************************************************************************)
EXTENDS Integers, Sequences, FiniteSets, SequencesExt, Selection

CONSTANTS Symbols, PageSize, Slice, MaxNotes, MaxChanges, MaxGens, MaxTurns, None, All

BoundAssumption ==
    /\ {PageSize, Slice} \subseteq Nat \ {0}
    /\ {MaxNotes, MaxChanges, MaxGens, MaxTurns} \subseteq Nat
    /\ None \notin Symbols /\ All \notin Symbols

VARIABLES
    server, version,    \* the summaries, the newest first, and how often they changed
    on,                 \* the page is on the screen
    notes, of, loading, error, \* its summaries, and (history) the version they are of
    filter, page, gen,  \* gen counts the loads asked for: refreshTick, and pages opened before
    since,              \* history: the version when the youngest load was asked for
    url, replacing,     \* the filter in the address, and the one the router goes to or None
    loads,
    turns               \* bound: filters chosen and links followed

list == <<notes, of, loading, error>>
address == <<url, replacing>>
vars == <<server, version, on, list, filter, page, gen, since, address, loads, turns>>

Filters == Symbols \cup {All}

TypeOK ==
    /\ server \in Seq(Symbols \cup {None}) /\ notes \in Seq(Symbols \cup {None})
    /\ {on, loading, error} \subseteq BOOLEAN
    /\ filter \in Filters /\ url \in Filters /\ replacing \in Filters \cup {None}
    /\ page \in Nat \ {0} /\ gen \in 0 .. MaxGens /\ turns \in 0 .. MaxTurns
    /\ {version, of, since} \subseteq 0 .. MaxChanges
    /\ \A l \in loads :
          l \in [n : 1 .. gen, at : {"sent", "done", "lost"}, notes : Seq(Symbols \cup {None}),
                 of : 0 .. MaxChanges]

Init ==
    /\ server = <<>> /\ version = 0 /\ on = FALSE
    /\ notes = <<>> /\ of = 0 /\ loading = FALSE /\ error = FALSE
    /\ filter = All /\ page = 1 /\ gen = 0 /\ since = 0
    /\ url = All /\ replacing = None /\ loads = {} /\ turns = 0

-----------------------------------------------------------------------------
(* The server *)

\* An AI note is written or one deleted.
Changes ==
    /\ version < MaxChanges /\ version' = version + 1
    /\ \/ /\ Len(server) < MaxNotes
          /\ \E s \in Symbols \cup {None} : server' = <<s>> \o server
       \/ \E k \in DOMAIN server : server' = RemoveAt(server, k)
    /\ UNCHANGED <<on, list, filter, page, gen, since, address, loads, turns>>

Handled(l) ==
    /\ l.at = "sent"
    /\ loads' = (loads \ {l}) \cup {[l EXCEPT !.at = "done", !.notes = server, !.of = version]}
    /\ UNCHANGED <<server, version, on, list, filter, page, gen, since, address, turns>>

\* A load or the answer to it is lost.
Lost(l) ==
    /\ l.at # "lost"
    /\ loads' = (loads \ {l}) \cup {[l EXCEPT !.at = "lost", !.notes = <<>>, !.of = 0]}
    /\ UNCHANGED <<server, version, on, list, filter, page, gen, since, address, turns>>

-----------------------------------------------------------------------------
(* What the page shows *)

\* A load that is on its way.
Load(n) == [n |-> n, at |-> "sent", notes |-> <<>>, of |-> 0]

Options(ns) == {All} \cup (Range(ns) \ {None})
Passing(ns, f) == Selected(ns, {k \in DOMAIN ns : f \in {All, ns[k]}})
Filtered == Passing(notes, filter)

TotalPages == IF Filtered = <<>> THEN 1 ELSE (Len(Filtered) + PageSize - 1) \div PageSize

\* The cards of the page that is open.
Cards(ns, f, p) ==
    LET all == Passing(ns, f)
    IN  SubSeq(all, (p - 1) * PageSize + 1, IF p * PageSize < Len(all) THEN p * PageSize ELSE Len(all))

Pager == on /\ TotalPages > 1 /\ ~ loading

-----------------------------------------------------------------------------
(* The page *)

\* Mutant: once it follows the filter the address is not looked at again.
SyncedOnce(f, u) == None

\* After each change of filter or address: an address that is not the filter's is replaced.
Synced(f, u) == IF u = f THEN None ELSE f

LoadNotes ==
    /\ gen < MaxGens /\ gen' = gen + 1
    /\ loads' = loads \cup {Load(gen + 1)}
    /\ loading' = TRUE /\ error' = FALSE /\ since' = version

\* The page opens with the filter of the address.
Open(u) ==
    /\ ~ on /\ on' = TRUE
    /\ LoadNotes
    /\ notes' = <<>> /\ of' = 0 /\ page' = 1
    /\ url' = u /\ filter' = u /\ replacing' = None
    /\ UNCHANGED <<server, version, turns>>

Leave ==
    /\ on /\ on' = FALSE /\ replacing' = None
    /\ UNCHANGED <<server, version, list, filter, page, gen, since, url, loads, turns>>

\* Trades came in.
Refresh ==
    /\ on /\ LoadNotes
    /\ UNCHANGED <<server, version, on, notes, of, filter, page, address, turns>>

Turn == turns < MaxTurns /\ turns' = turns + 1

\* Where the address is the filter's already, a replacement under way is not called back.
Choose(f) ==
    /\ on /\ Turn /\ f \in Options(notes) /\ f # filter
    /\ filter' = f /\ page' = 1
    /\ replacing' = (IF url = f THEN replacing ELSE Synced(f, url))
    /\ UNCHANGED <<server, version, on, list, gen, since, url, loads>>

Replaced ==
    /\ replacing # None
    /\ url' = replacing /\ replacing' = Synced(filter, replacing)
    /\ UNCHANGED <<server, version, on, list, filter, page, gen, since, loads, turns>>

\* A link to the page that is open changes its address only.
Follow(u) ==
    /\ on /\ Turn /\ u # url
    /\ url' = u /\ replacing' = Synced(filter, u)
    /\ UNCHANGED <<server, version, on, list, filter, page, gen, since, loads>>

\* By its buttons, or typed: within the pages there are.
GoTo(p) ==
    /\ Pager /\ page' = (IF p > TotalPages THEN TotalPages ELSE IF p < 1 THEN 1 ELSE p)
    /\ UNCHANGED <<server, version, on, list, filter, gen, since, address, loads, turns>>

\* Mutant: any load counts.
CountsAny(l) == on

\* Only the youngest load of a page still open counts.
Counts(l) == on /\ l.n = gen

Failed(l) ==
    /\ l.at = "lost" /\ Counts(l)
    /\ error' = TRUE /\ loading' = FALSE /\ UNCHANGED <<notes, of>>

Loaded(l) ==
    /\ l.at = "done" /\ Counts(l)
    /\ notes' = SubSeq(l.notes, 1, IF Len(l.notes) < Slice THEN Len(l.notes) ELSE Slice)
    /\ of' = l.of /\ loading' = FALSE /\ UNCHANGED error

Ignored(l) == l.at # "sent" /\ ~ Counts(l) /\ UNCHANGED list

Arrives(l) ==
    /\ Failed(l) \/ Loaded(l) \/ Ignored(l)
    /\ loads' = loads \ {l}
    /\ UNCHANGED <<server, version, on, filter, page, gen, since, address, turns>>

-----------------------------------------------------------------------------
Next ==
    \/ Changes
    \/ \E l \in loads : Handled(l) \/ Lost(l) \/ Arrives(l)
    \/ \E u \in Filters : Open(u) \/ Choose(u) \/ Follow(u)
    \/ Leave \/ Refresh \/ Replaced
    \/ \E p \in 0 .. MaxNotes + 1 : GoTo(p)

Spec == Init /\ [][Next]_vars

\* Loads are handled or lost and answered, and the router goes where it was told.
Handling == \E l \in loads : Handled(l)
Answering == \E l \in loads : Arrives(l)
FairSpec ==
    /\ Spec
    /\ WF_vars(Handling)
    /\ WF_vars(Answering)
    /\ WF_vars(Replaced)

-----------------------------------------------------------------------------
(* Properties *)

\* What is shown as loaded is at least as young as the last refresh, in whatever order the loads
\* are answered.
NotesAreOfRefresh == on /\ ~ loading /\ ~ error => of >= since

\* Only a load leaves the reader on a page without cards while summaries pass the filter; a change
\* of the filter or of the page never does.
Stranded(ns, f, p) == Passing(ns, f) # <<>> /\ Cards(ns, f, p) = <<>>

KeepsCards ==
    on /\ on' /\ ~ Stranded(notes, filter, page) /\ Stranded(notes', filter', page') =>
        \E l \in loads : Loaded(l)

PageHasCards == [][KeepsCards]_vars

\* The address comes to name the filter that is chosen, also where the choice went back and forth
\* faster than the router.
Differs == on /\ url # filter
UrlFollows == Differs ~> ~ Differs

\* Loading comes to an end, whichever loads were overtaken.
Loading == on /\ loading
LoadingEnds == Loading ~> ~ Loading
=============================================================================
