---------------------------- MODULE EvidenceOptions ----------------------------
(***************************************************************************)
(* The evidence packet of the bubble form (components/BubbleCreateModal.tsx *)
(* and lib/evidencePacket.ts): what of the user's positions, trades,       *)
(* summary and bubbles goes to the AI with a question.  The user sets the  *)
(* options one by one or by a preset, and may have the packet built for a  *)
(* preview; a question (BubbleComposer) has it built too.                  *)
(*                                                                         *)
(* A packet is the options it was built with: its parts, the period and    *)
(* whether it is of all symbols.  The form stays mounted when it is        *)
(* closed: only its fields are reset when it opens.  MaxEdits and          *)
(* MaxOpenings bound the user.                                             *)
(***************************************************************************)
EXTENDS Naturals, FiniteSets

CONSTANTS MaxOpenings, MaxEdits, MaxBuilds, Nothing

BoundAssumption == {MaxOpenings, MaxEdits, MaxBuilds} \subseteq Nat

VARIABLES
    open, evidence, included, preset, scope, symbols, \* the form's options
    packet, loading, error,     \* evidencePacket, evidenceLoading, evidenceError
    builds,                     \* packets being built
    openings, edits,
    overtaken                   \* history: the packet came after the options had changed

options == <<evidence, included, scope, symbols>>
vars == <<open, options, preset, packet, loading, error, builds, openings, edits, overtaken>>

Parts == {"positions", "trades", "summary", "bubbles"}
Presets == {"lite", "balanced", "deep"}
Scopes == {"7d", "30d", "90d", "custom"}
Packets == [parts : SUBSET Parts, scope : Scopes, symbols : {"current", "all"}]

TypeOK ==
    /\ open \in BOOLEAN /\ evidence \in BOOLEAN /\ included \subseteq Parts
    /\ preset \in Presets /\ scope \in Scopes /\ symbols \in {"current", "all"}
    /\ packet \in Packets \cup {Nothing} /\ loading \in BOOLEAN /\ error \in BOOLEAN
    /\ \A b \in builds : b.packet \in Packets /\ b.packet.parts # {}
    /\ openings \in 0 .. MaxOpenings /\ edits \in 0 .. MaxEdits
    /\ overtaken \in BOOLEAN

\* What the options amount to: without evidence only positions.
Effective(e, i) == IF e THEN i ELSE i \cap {"positions"}
Current == [parts |-> Effective(evidence, included), scope |-> scope, symbols |-> symbols]

\* A preset's options, apart from the number of bubbles.
PresetOptions(p) ==
    CASE p = "lite" -> [parts |-> {"positions", "summary"}, scope |-> "7d", symbols |-> "current"]
      [] p = "balanced" -> [parts |-> Parts, scope |-> "30d", symbols |-> "current"]
      [] p = "deep" -> [parts |-> Parts, scope |-> "90d", symbols |-> "all"]

\* The mount: the effect of the preset.
Init ==
    /\ open = FALSE /\ evidence = TRUE
    /\ preset = "balanced" /\ included = PresetOptions("balanced").parts
    /\ scope = "30d" /\ symbols = "current"
    /\ packet = Nothing /\ loading = FALSE /\ error = FALSE /\ builds = {}
    /\ openings = 0 /\ edits = 0 /\ overtaken = FALSE

-----------------------------------------------------------------------------
(* Effects *)

\* The options become e, i, sc and sy; each of the three parts brings evidence with it; a
\* packet built for others is dropped.
Set(e, i, sc, sy) ==
    LET on == e \/ i \cap {"trades", "summary", "bubbles"} # {} IN
    /\ evidence' = on /\ included' = i /\ scope' = sc /\ symbols' = sy
    /\ IF <<on, i, sc, sy>> # <<evidence, included, scope, symbols>>
       THEN packet' = Nothing /\ overtaken' = FALSE
       ELSE UNCHANGED <<packet, overtaken>>

-----------------------------------------------------------------------------
(* Steps *)

\* The form begins with all parts of seven days; the effect of the preset runs after that
\* if the form was left with another one.
Reset ==
    /\ openings < MaxOpenings /\ openings' = openings + 1
    /\ preset' = "balanced"
    /\ evidence' = TRUE /\ included' = Parts /\ symbols' = "current"
    /\ scope' = IF preset = "balanced" THEN "7d" ELSE PresetOptions("balanced").scope
    /\ packet' = Nothing /\ loading' = FALSE /\ error' = FALSE
    /\ overtaken' = FALSE
    /\ UNCHANGED <<builds, edits>>

Open == ~ open /\ open' = TRUE /\ Reset

\* The latest price under an open form changes: its fields begin anew.
DefaultsChange == open /\ UNCHANGED open /\ Reset

Close ==
    /\ open /\ open' = FALSE
    /\ UNCHANGED <<options, preset, packet, loading, error, builds, openings, edits, overtaken>>

Edit ==
    /\ open /\ edits < MaxEdits /\ edits' = edits + 1
    /\ UNCHANGED <<open, loading, builds, openings>>

\* Including evidence brings all three parts, excluding it drops them; without positions
\* there is nothing left and the error goes too.
ToggleEvidence ==
    /\ Edit
    /\ Set(~ evidence, (included \cap {"positions"}) \cup (IF evidence THEN {} ELSE Parts \ {"positions"}),
           scope, symbols)
    /\ error' = (error /\ (evidence' \/ "positions" \in included'))
    /\ UNCHANGED preset

TogglePart(p) ==
    /\ Edit /\ (p = "positions" \/ evidence)
    /\ Set(evidence, IF p \in included THEN included \ {p} ELSE included \cup {p}, scope, symbols)
    /\ error' = (error /\ (evidence' \/ "positions" \in included'))
    /\ UNCHANGED preset

\* Pressing the preset that is on does nothing, whatever was changed since.
PickPreset(p) ==
    /\ Edit /\ p # preset /\ preset' = p
    /\ Set(TRUE, PresetOptions(p).parts, PresetOptions(p).scope, PresetOptions(p).symbols)
    /\ UNCHANGED error

PickScope(s) ==
    /\ Edit /\ s # scope
    /\ Set(evidence, included, s, symbols)
    /\ UNCHANGED <<error, preset>>

PickSymbols(s) ==
    /\ Edit /\ s # symbols
    /\ Set(evidence, included, scope, s)
    /\ UNCHANGED <<error, preset>>

\* Requests for each part, one after the other; nothing is asked for without any.
Build ==
    /\ open /\ (evidence \/ "positions" \in included)
    /\ Cardinality(builds) < MaxBuilds
    /\ error' = FALSE
    /\ IF Current.parts = {}
       THEN loading' = FALSE /\ UNCHANGED builds
       ELSE loading' = TRUE /\ builds' = builds \cup {[opening |-> openings, packet |-> Current]}
    /\ UNCHANGED <<open, options, preset, packet, openings, edits, overtaken>>

\* The button is disabled while a packet is built; a question has its own.
BuildPreview == ~ loading /\ Build
BuildForQuestion == Build

BuildAnswered(b) ==
    /\ builds' = builds \ {b}
    /\ packet' = b.packet /\ loading' = FALSE
    /\ overtaken' = (b.packet # Current \/ b.opening # openings)
    /\ UNCHANGED <<open, options, preset, error, openings, edits>>

BuildFails(b) ==
    /\ builds' = builds \ {b}
    /\ error' = TRUE /\ loading' = FALSE
    /\ UNCHANGED <<open, options, preset, packet, openings, edits, overtaken>>

Next ==
    \/ Open \/ DefaultsChange \/ Close
    \/ ToggleEvidence
    \/ \E p \in Parts : TogglePart(p)
    \/ \E p \in Presets : PickPreset(p)
    \/ \E s \in Scopes : PickScope(s)
    \/ \E s \in {"current", "all"} : PickSymbols(s)
    \/ BuildPreview \/ BuildForQuestion
    \/ \E b \in builds : BuildAnswered(b) \/ BuildFails(b)

Spec == Init /\ [][Next]_vars

-----------------------------------------------------------------------------
(* Properties *)

\* The packet on the form is the one the options amount to, unless it arrived after they
\* were changed or the form was opened anew.
PreviewFits == packet # Nothing /\ ~ overtaken => packet = Current
=============================================================================
