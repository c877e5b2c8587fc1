------------------------------- MODULE MCLive -------------------------------
(***************************************************************************)
(* What comes to an end in the browser, for TLC: the waits of MCJournal    *)
(* and MCReview that have one, each under the fairness of its module.  The *)
(* first state chooses the part, as there.                                 *)
(***************************************************************************)
EXTENDS Naturals, Sequences, FiniteSets, TLC

CONSTANTS
    t1, c1, c2, guest, binance, mistake, btc, every, new, none

\* The replay: the candles a chart may load.
Range(a, b) == [from |-> a, to |-> b]
Loads == {Range(2, 5), Range(1, 5), Range(3, 8)}

VARIABLES
    part,       \* the part of the browser this behaviour is about; its variables:
    s1, s2, s3, s4, s5, s6, s7, s8, s9, s10, s11, s12, s13, s14, s15, s16

vars ==
    <<part,
      s1, s2, s3, s4, s5, s6, s7, s8, s9, s10, s11, s12, s13, s14, s15, s16>>

-----------------------------------------------------------------------------
(* The parts *)

\* The session: the guest, without faults of the network.
Session == INSTANCE BrowserSession WITH
    Tabs <- {t1}, Calls <- {c1, c2}, Users <- {guest}, Guest <- guest, Nobody <- none,
    MaxPairs <- 2, MaxFaults <- 0,
    owner <- s1, row <- s2, fresh <- s3, disk <- s4, memory <- s5, journal <- s6,
    isRefreshing <- s7, call <- s8, signing <- s9, exchange <- s10, faults <- s11,
    mishap <- s12, tainted <- s13, forcedOut <- s14

\* The form that makes a bubble.
Composer == INSTANCE BubbleComposer WITH
    Retries <- 2, MaxOpenings <- 2, MaxAsks <- 2, MaxEdits <- 1, Nothing <- none,
    bubbles <- s1, open <- s2, openings <- s3, memo <- s4, answer <- s5, aiLoading <- s6,
    aiError <- s7, aiRetryAttempt <- s8, asks <- s9, submitting <- s10, saves <- s11,
    asked <- s12, edits <- s13, stale <- s14, crossed <- s15, lost <- s16

\* The guided review of one day.
Guided == INSTANCE GuidedReview WITH
    Plan <- <<1>>, None <- none, MaxVisits <- 2, MaxFresh <- 1, MaxWire <- 2,
    day <- s1, status <- s2, rows <- s3, late <- s4, fresh <- s5, review <- s6,
    items <- s7, step <- s8, loading <- s9, error <- s10, home <- s11, open <- s12,
    flow <- s13, wire <- s14, visits <- s15, shrunk <- s16

\* The journal of notes.
Notes == INSTANCE NoteJournal WITH
    Limit <- 1, MaxNotes <- 2, MaxRevs <- 0, MaxWire <- 2, MaxGets <- 1, MaxOthers <- 1,
    None <- none, New <- new,
    server <- s1, made <- s2, notes <- s3, pages <- s4, loading <- s5, error <- s6,
    shown <- s7, editor <- s8, wire <- s9, gets <- s10, others <- s11, crossed <- s12

\* The verdicts on the last trades.
Safety == INSTANCE SafetyCheck WITH
    Venues <- {binance}, Verdicts <- {mistake}, MaxTrades <- 1, MaxTime <- 1, Window <- 1,
    Limit <- 2, MaxLoads <- 2, MaxSubmits <- 2, MaxFaults <- 1, None <- none, All <- every,
    trades <- s1, safety <- s2, loading <- s3, error <- s4, submitting <- s5, venue <- s6,
    loads <- s7, submits <- s8, asked <- s9, given <- s10, faults <- s11, crossed <- s12,
    mixed <- s13

\* The replay under the chart.
Replay == INSTANCE ChartReplay WITH
    Loads <- Loads, Empty <- Range(5, 4), Steps <- {1, 2}, MaxEvents <- 4,
    klines <- s1, step <- s2, display <- s3, panel <- s4, active <- s5, now <- s6,
    end <- s7, playing <- s8, events <- s9, crossed <- s10, foreign <- s11

\* The page of AI summaries.
Summaries == INSTANCE AiSummaries WITH
    Symbols <- {btc}, PageSize <- 1, Slice <- 2, MaxNotes <- 2, MaxChanges <- 2,
    MaxGens <- 2, MaxTurns <- 2, None <- none, All <- every,
    server <- s1, version <- s2, on <- s3, notes <- s4, of <- s5, loading <- s6,
    error <- s7, filter <- s8, page <- s9, gen <- s10, since <- s11, url <- s12,
    replacing <- s13, loads <- s14, turns <- s15

\* What the modules assume of their constants.
ASSUME PartsAssumption ==
    /\ Session!GuestAssumption
    /\ Session!SessionBounds
    /\ Session!TabsAssumption
    /\ Composer!BoundAssumption
    /\ Composer!NothingAssumption
    /\ Guided!PlanAssumption
    /\ Notes!BoundAssumption
    /\ Safety!BoundAssumption
    /\ Replay!LoadAssumption
    /\ Replay!StepAssumption
    /\ Summaries!BoundAssumption

-----------------------------------------------------------------------------
(* A behaviour is about one part: it sets the variables the part has no use for to *)
(* Unused, and leaves them so.                                                      *)

Unused == "unused"

IdleFrom16 == s16 = Unused
IdleFrom15 == s15 = Unused /\ IdleFrom16
IdleFrom14 == s14 = Unused /\ IdleFrom15
IdleFrom13 == s13 = Unused /\ IdleFrom14
IdleFrom12 == s12 = Unused /\ IdleFrom13

KeepFrom16 == s16' = s16
KeepFrom15 == s15' = s15 /\ KeepFrom16
KeepFrom14 == s14' = s14 /\ KeepFrom15
KeepFrom13 == s13' = s13 /\ KeepFrom14
KeepFrom12 == s12' = s12 /\ KeepFrom13

Init ==
    \/ part = "session" /\ Session!Init /\ IdleFrom15
    \/ part = "composer" /\ Composer!Init
    \/ part = "guided" /\ Guided!Init
    \/ part = "notes" /\ Notes!Init /\ IdleFrom13
    \/ part = "safety" /\ Safety!Init /\ IdleFrom14
    \/ part = "replay" /\ Replay!Init /\ IdleFrom12
    \/ part = "summaries" /\ Summaries!Init /\ IdleFrom16

SessionStep == part = "session" /\ Session!Next /\ KeepFrom15 /\ part' = part
ComposerStep == part = "composer" /\ Composer!Next /\ part' = part
GuidedStep == part = "guided" /\ Guided!Next /\ part' = part
NotesStep == part = "notes" /\ Notes!Next /\ KeepFrom13 /\ part' = part
SafetyStep == part = "safety" /\ Safety!Next /\ KeepFrom14 /\ part' = part
ReplayStep == part = "replay" /\ Replay!Next /\ KeepFrom12 /\ part' = part
SummariesStep == part = "summaries" /\ Summaries!Next /\ KeepFrom16 /\ part' = part

Next ==
    \/ SessionStep
    \/ ComposerStep
    \/ GuidedStep
    \/ NotesStep
    \/ SafetyStep
    \/ ReplayStep
    \/ SummariesStep

Spec == Init /\ [][Next]_vars

\* Each part is treated as fairly as its module says.
FairSpec ==
    /\ Spec
    /\ WF_(Session!vars)(part = "session" /\ Session!Serves)
    /\ WF_(Session!vars)(part = "session" /\ Session!Answers(t1))
    /\ WF_(Composer!vars)(part = "composer" /\ Composer!Answering)
    /\ \A k \in {"today", "submit", "complete"} :
        /\ WF_(Guided!vars)(part = "guided" /\ Guided!Reached(k))
        /\ WF_(Guided!vars)(part = "guided" /\ Guided!Answers(k))
    /\ \A k \in {"list", "create", "update", "delete"} :
        /\ WF_(Notes!vars)(part = "notes" /\ Notes!Loses(k))
        /\ WF_(Notes!vars)(part = "notes" /\ Notes!Answers(k))
    /\ WF_(Safety!vars)(part = "safety" /\ Safety!Listing)
    /\ WF_(Safety!vars)(part = "safety" /\ Safety!Loading)
    /\ WF_(Safety!vars)(part = "safety" /\ Safety!Posting)
    /\ WF_(Safety!vars)(part = "safety" /\ Safety!Answering)
    /\ WF_(Replay!vars)(part = "replay" /\ Replay!Tick)
    /\ WF_(Summaries!vars)(part = "summaries" /\ Summaries!Handling)
    /\ WF_(Summaries!vars)(part = "summaries" /\ Summaries!Answering)
    /\ WF_(Summaries!vars)(part = "summaries" /\ Summaries!Replaced)

-----------------------------------------------------------------------------
(* Properties *)

\* A call that waits for a renewal is sent again or fails; none waits forever (api.ts:109-135).
WaitingCallsSettle ==
    \A c \in {c1, c2} :
        (part = "session" /\ Session!Waits(t1, c)) ~> ~ (part = "session" /\ Session!Waits(t1, c))

\* A question to the AI, a submit or a load that began comes to its end, a replay stops, and the
\* address comes to name the filter that was chosen: no flag of the browser stays up.
WaitsEnd ==
    /\ (part = "composer" /\ Composer!Asking) ~> ~ (part = "composer" /\ Composer!Asking)
    /\ (part = "guided" /\ Guided!Submitting) ~> ~ (part = "guided" /\ Guided!Submitting)
    /\ (part = "notes" /\ Notes!Loading) ~> ~ (part = "notes" /\ Notes!Loading)
    /\ (part = "safety" /\ Safety!Submitting) ~> ~ (part = "safety" /\ Safety!Submitting)
    /\ (part = "replay" /\ Replay!Plays) ~> ~ (part = "replay" /\ Replay!Plays)
    /\ (part = "summaries" /\ Summaries!Differs) ~> ~ (part = "summaries" /\ Summaries!Differs)
    /\ (part = "summaries" /\ Summaries!Loading) ~> ~ (part = "summaries" /\ Summaries!Loading)
=============================================================================
