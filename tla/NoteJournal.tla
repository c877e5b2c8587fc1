------------------------------ MODULE NoteJournal ------------------------------
(***************************************************************************)
(* The review notes: the store (stores/noteStore.ts), the list with its    *)
(* pager (components/review/NoteList.tsx, ui/PageJumpPager.tsx) and the    *)
(* editor (NoteEditor.tsx), against the notes of the server.               *)
(*                                                                         *)
(* A note is its id and how often it was saved.  A request is sent,        *)
(* handled and answered in three steps; every request of the store sets    *)
(* and clears the one isLoading.  The text in the editor is whether there  *)
(* is any; title, content, tags and emotion are one.  AI answers and other *)
(* tabs make and delete notes too.                                         *)
(***************************************************************************)
EXTENDS Integers, Sequences, FiniteSets, SequencesExt, Selection

CONSTANTS Limit, MaxNotes, MaxRevs, MaxWire, MaxGets, MaxOthers, None, New

BoundAssumption ==
    /\ {Limit, MaxNotes, MaxWire} \subseteq Nat \ {0}
    /\ {MaxRevs, MaxGets, MaxOthers} \subseteq Nat
    /\ None \notin [of : 1 .. MaxNotes \cup {New}, typed : BOOLEAN]

Notes == [id : 1 .. MaxNotes, rev : 0 .. MaxRevs]

VARIABLES
    server, made,       \* the notes, the newest first; notes made so far
    notes, pages, loading, error, \* the store; pages is the page and how many there are
    shown,              \* the list is on the screen
    editor,             \* None, or the note it is of (New: none yet), what was typed, its form
    wire,
    gets, others,       \* bounds: lists asked for, changes elsewhere
    crossed             \* history: the list may have missed a change

store == <<notes, pages, loading, error>>
vars == <<server, made, store, shown, editor, wire, gets, others, crossed>>

TypeOK ==
    /\ server \in Seq(Notes) /\ made \in 0 .. MaxNotes /\ notes \in Seq(Notes)
    /\ pages.page \in 1 .. MaxNotes + 1 /\ pages.all \in 0 .. MaxNotes
    /\ {loading, error, shown, crossed} \subseteq BOOLEAN
    /\ editor = None \/ (editor.of \in 1 .. MaxNotes \cup {New} /\ editor.typed \in BOOLEAN)
    /\ Cardinality(wire) <= MaxWire /\ gets \in 0 .. MaxGets /\ others \in 0 .. MaxOthers

Init ==
    /\ server = <<>> /\ made = 0
    /\ notes = <<>> /\ pages = [page |-> 1, all |-> 0] /\ loading = FALSE /\ error = FALSE
    /\ shown = FALSE /\ editor = None /\ wire = {}
    /\ gets = 0 /\ others = 0 /\ crossed = FALSE

-----------------------------------------------------------------------------
(* The server *)

Page(p) == SubSeq(server, (p - 1) * Limit + 1, IF p * Limit < Len(server) THEN p * Limit ELSE Len(server))
AllPages == (Len(server) + Limit - 1) \div Limit
Without(s, i) == Selected(s, {k \in DOMAIN s : s[k].id # i})

Handled(r, h) == wire' = (wire \ {r}) \cup {h}

\* Two answers are on their way at the same time.
Crosses(r) == crossed' = (crossed \/ \E q \in wire \ {r} : q.at = "handled")

ListNotes(r) ==
    /\ r.k = "list" /\ r.at = "sent"
    /\ Handled(r, [r EXCEPT !.at = "handled", !.ok = TRUE, !.notes = Page(r.page), !.all = AllPages])
    /\ Crosses(r)
    /\ UNCHANGED <<server, made, store, shown, editor, gets, others>>

CreateNote(r) ==
    /\ r.k = "create" /\ r.at = "sent" /\ made < MaxNotes
    /\ made' = made + 1
    /\ server' = <<[id |-> made + 1, rev |-> 0]>> \o server
    /\ Handled(r, [r EXCEPT !.at = "handled", !.ok = TRUE, !.notes = <<Head(server')>>])
    /\ Crosses(r)
    /\ UNCHANGED <<store, shown, editor, gets, others>>

UpdateNote(r) ==
    /\ r.k = "update" /\ r.at = "sent"
    /\ \A k \in 1 .. Len(server) : server[k].id = r.id => server[k].rev < MaxRevs
    /\ server' = [k \in 1 .. Len(server) |->
                     IF server[k].id = r.id THEN [server[k] EXCEPT !.rev = @ + 1] ELSE server[k]]
    /\ LET now == Selected(server', {k \in DOMAIN server : server[k].id = r.id})
       IN  Handled(r, [r EXCEPT !.at = "handled", !.ok = now # <<>>, !.notes = now])
    /\ Crosses(r)
    /\ UNCHANGED <<made, store, shown, editor, gets, others>>

DeleteNote(r) ==
    /\ r.k = "delete" /\ r.at = "sent"
    /\ server' = Without(server, r.id)
    /\ Handled(r, [r EXCEPT !.at = "handled", !.ok = TRUE])
    /\ Crosses(r)
    /\ UNCHANGED <<made, store, shown, editor, gets, others>>

\* A request or the answer to it is lost.
Lost(r) ==
    /\ r.at = "sent" \/ r.ok
    /\ Handled(r, [r EXCEPT !.at = "handled", !.ok = FALSE])
    /\ crossed' = (crossed \/ (r.at = "handled" /\ r.k # "list"))
    /\ UNCHANGED <<server, made, store, shown, editor, gets, others>>

\* A note made or deleted elsewhere.
Elsewhere ==
    /\ others < MaxOthers /\ others' = others + 1 /\ crossed' = TRUE
    /\ \/ made < MaxNotes /\ made' = made + 1
          /\ server' = <<[id |-> made + 1, rev |-> 0]>> \o server
       \/ \E k \in 1 .. Len(server) : server' = Without(server, server[k].id) /\ made' = made
    /\ UNCHANGED <<store, shown, editor, wire, gets>>

-----------------------------------------------------------------------------
(* The screen *)

\* While a list without notes loads, the skeleton takes the place of list and editor.
Skeleton(on, busy, ns) == ~ on \/ (busy /\ ns = <<>>)

\* Where the list is not there, what was typed in its editor is gone.
Kept(ed, on, busy, ns) ==
    IF ed # None /\ Skeleton(on, busy, ns) THEN [ed EXCEPT !.typed = FALSE] ELSE ed

Request(k, p, i) ==
    [k |-> k, at |-> "sent", ok |-> FALSE, page |-> p, id |-> i, notes |-> <<>>, all |-> 0, n |-> gets]

\* Every request of the store begins alike.
Ask(r) ==
    /\ Cardinality(wire) < MaxWire /\ wire' = wire \cup {r}
    /\ loading' = TRUE /\ error' = FALSE

FetchNotes(p) ==
    /\ gets < MaxGets /\ gets' = gets + 1
    /\ Ask(Request("list", p, 0))

ShowJournal ==
    /\ ~ shown /\ shown' = TRUE
    /\ FetchNotes(1)
    /\ editor' = None
    /\ UNCHANGED <<server, made, notes, pages, others, crossed>>

HideJournal ==
    /\ shown /\ shown' = FALSE /\ editor' = None
    /\ UNCHANGED <<server, made, store, wire, gets, others, crossed>>

List == shown /\ ~ Skeleton(shown, loading, notes)

\* The pager is disabled while something loads.
Pager == List /\ editor = None /\ pages.all > 1 /\ ~ loading

Turns ==
    (IF pages.page > 1 THEN {1, pages.page - 1} ELSE {})
    \cup (IF pages.page < pages.all THEN {pages.page + 1, pages.all} ELSE {})

TurnPage(p) ==
    /\ Pager /\ p \in Turns
    /\ FetchNotes(p)
    /\ UNCHANGED <<server, made, notes, pages, shown, editor, others, crossed>>

\* A page that is typed has a lower bound only.
JumpTo(p) ==
    /\ Pager /\ p >= 1
    /\ FetchNotes(p)
    /\ UNCHANGED <<server, made, notes, pages, shown, editor, others, crossed>>

\* The editor covers the list and its buttons.
OpenEditor(i) ==
    /\ List /\ editor = None
    /\ i = New \/ \E k \in 1 .. Len(notes) : notes[k].id = i
    /\ editor' = [of |-> i, typed |-> FALSE]
    /\ UNCHANGED <<server, made, store, shown, wire, gets, others, crossed>>

Type ==
    /\ List /\ editor # None /\ editor' = [editor EXCEPT !.typed = TRUE]
    /\ UNCHANGED <<server, made, store, shown, wire, gets, others, crossed>>

CloseEditor ==
    /\ List /\ editor # None /\ editor' = None
    /\ UNCHANGED <<server, made, store, shown, wire, gets, others, crossed>>

Submit ==
    /\ List /\ editor # None /\ editor.typed /\ ~ loading
    /\ Ask(IF editor.of = New THEN Request("create", 0, 0) ELSE Request("update", 0, editor.of))
    /\ editor' = Kept(editor, shown, TRUE, notes)
    /\ UNCHANGED <<server, made, notes, pages, shown, gets, others, crossed>>

Delete(i) ==
    /\ List /\ editor = None /\ \E k \in 1 .. Len(notes) : notes[k].id = i
    /\ Ask(Request("delete", 0, i))
    /\ UNCHANGED <<server, made, notes, pages, shown, editor, gets, others, crossed>>

-----------------------------------------------------------------------------
(* Answers *)

\* After each the store is free, whatever else it waits for.
Ends(ns, ed) ==
    /\ notes' = ns /\ loading' = FALSE
    /\ editor' = Kept(ed, shown, FALSE, ns)

\* Mutant: the editor is closed whatever the answer.
FailsClosed(r) ==
    /\ ~ r.ok /\ error' = TRUE /\ Ends(notes, None)
    /\ UNCHANGED <<pages, crossed>>

Fails(r) ==
    /\ ~ r.ok /\ error' = TRUE /\ Ends(notes, editor)
    /\ UNCHANGED <<pages, crossed>>

Listed(r) ==
    /\ r.ok /\ r.k = "list" /\ error' = error
    /\ pages' = [page |-> r.page, all |-> r.all]
    /\ Ends(r.notes, editor)
    /\ crossed' = (r.notes # Page(r.page) \/ \E q \in wire \ {r} : q.at = "handled")

\* A saved note closes the editor, whichever is open by now.
Created(r) ==
    /\ r.ok /\ r.k = "create" /\ error' = error
    /\ Ends(r.notes \o notes, None)
    /\ UNCHANGED <<pages, crossed>>

\* Mutant: the list keeps the note it had.
UpdatedNot(r) ==
    /\ r.ok /\ r.k = "update" /\ error' = error
    /\ Ends(notes, None)
    /\ UNCHANGED <<pages, crossed>>

Updated(r) ==
    /\ r.ok /\ r.k = "update" /\ error' = error
    /\ Ends([k \in 1 .. Len(notes) |-> IF notes[k].id = r.id THEN r.notes[1] ELSE notes[k]], None)
    /\ UNCHANGED <<pages, crossed>>

Deleted(r) ==
    /\ r.ok /\ r.k = "delete" /\ error' = error
    /\ Ends(Without(notes, r.id), editor)
    /\ UNCHANGED <<pages, crossed>>

Arrives(r) ==
    /\ r.at = "handled" /\ wire' = wire \ {r}
    /\ Fails(r) \/ Listed(r) \/ Created(r) \/ Updated(r) \/ Deleted(r)
    /\ UNCHANGED <<server, made, shown, gets, others>>

-----------------------------------------------------------------------------
Next ==
    \/ \E r \in wire :
          \/ ListNotes(r) \/ CreateNote(r) \/ UpdateNote(r) \/ DeleteNote(r)
          \/ Lost(r) \/ Arrives(r)
    \/ Elsewhere
    \/ ShowJournal \/ HideJournal
    \/ \E p \in 1 .. MaxNotes + 1 : TurnPage(p) \/ JumpTo(p)
    \/ \E i \in 1 .. MaxNotes \cup {New} : OpenEditor(i)
    \/ Type \/ CloseEditor \/ Submit
    \/ \E i \in 1 .. MaxNotes : Delete(i)

Spec == Init /\ [][Next]_vars

\* Requests are handled or lost, and answers arrive.
Loses(k) == \E r \in wire : r.k = k /\ r.at = "sent" /\ Lost(r)
Answers(k) == \E r \in wire : r.k = k /\ Arrives(r)
FairSpec ==
    Spec /\ \A k \in {"list", "create", "update", "delete"} : WF_vars(Loses(k)) /\ WF_vars(Answers(k))

-----------------------------------------------------------------------------
(* Properties *)

Writing == \E r \in wire : r.k # "list"

\* The list shows notes the server has, as it has them, when nothing is being written and no
\* change crossed the answers: not one deleted, nor an older version of one.
NotesExist == ~ crossed /\ ~ Writing => Range(notes) \subseteq Range(server)

\* No note is twice on the list, unless a change crossed the answers.
NothingTwice ==
    ~ crossed => \A j, k \in 1 .. Len(notes) : notes[j].id = notes[k].id => j = k

\* The list of notes is a list of the server's notes.
ListIsTrue == NotesExist /\ NothingTwice

\* What was typed goes by the user's hand or with a note that was saved; only a list without
\* notes takes it away when it loads.
KeepsText ==
    editor # None /\ editor.typed /\ (editor' = None \/ ~ editor'.typed) =>
        \/ CloseEditor \/ HideJournal
        \/ \E r \in wire : Arrives(r) /\ r.ok /\ r.k \in {"create", "update"}
        \/ notes = <<>> /\ loading'

TextIsKept == [][KeepsText]_vars

\* What loads comes to an end.
Loading == loading
LoadingEnds == Loading ~> ~ Loading
=============================================================================
