---------------------------- MODULE BrowserSession ----------------------------
(***************************************************************************)
(* The signed-in session of the browser: the token store (stores/auth.ts), *)
(* the response interceptor that renews an access token once for all calls *)
(* waiting for it (lib/api.ts), the four doors that sign a user in, and    *)
(* the journal of the user kept in the same local storage.  Each tab has   *)
(* its own copy of the store in memory and writes it through to the one    *)
(* local storage (disk); a tab reads the disk only when it is loaded.  The *)
(* server's Refresh (auth_handler.go) rotates refresh tokens and revokes   *)
(* all tokens of a user when a rotated one comes back.                     *)
(*                                                                         *)
(* Abstractions.  An access token and the refresh token issued with it are *)
(* one pair, a number; 0 is no pair.  Every call fetches the journal.  A   *)
(* refresh token does not come of age (seven days), an access token may at *)
(* any time.  MaxPairs bounds the pairs the server issues; when they are   *)
(* used up its statements fail.                                            *)
(***************************************************************************)
EXTENDS Naturals, FiniteSets

CONSTANTS
    Tabs, Calls,        \* browser tabs; calls a tab can have under way
    Users, Guest,       \* accounts; the shared guest account
    Nobody,
    MaxPairs, MaxFaults \* bounds of the model

GuestAssumption == Guest \in Users /\ Nobody \notin Users
SessionBounds == MaxPairs \in Nat /\ MaxFaults \in Nat

Pairs == 1 .. MaxPairs
Gone == "gone"          \* a tab that left the page a request was made from
TabsAssumption == Gone \notin Tabs

VARIABLES
    owner, row, fresh,  \* server: whose pair, refresh token row, access tokens not yet expired
    disk,               \* local storage: kifu-auth-storage, kifu-guest-session-v1, bubble-storage-v2
    memory, journal,    \* per tab: the auth store, the owner of the bubbles in the bubble store
    isRefreshing, call, \* per tab: lib/api.ts
    signing,            \* per tab: sign-in requests under way, by the door they were made at
    exchange,           \* POST /auth/refresh requests under way
    faults,
    mishap, tainted, forcedOut  \* history, see the properties

server == <<owner, row, fresh>>
vars == <<owner, row, fresh, disk, memory, journal, isRefreshing, call, signing, exchange,
          faults, mishap, tainted, forcedOut>>

Doors == {"login", "signup", "guest"}
Idle == [at |-> "idle", with |-> 0, retried |-> FALSE]
Call == [at : {"idle", "sent", "queued", "refreshing"}, with : 0 .. MaxPairs, retried : BOOLEAN]
Exchange == [tab : Tabs \cup {Gone}, token : Pairs,
             at : {"sent", "granted", "renewed", "denied", "failed"}, pair : 0 .. MaxPairs]

TypeOK ==
    /\ owner \in [Pairs -> Users \cup {Nobody}]
    /\ row \in [Pairs -> {"none", "live", "revoked"}]
    /\ fresh \subseteq Pairs
    /\ disk \in [pair : 0 .. MaxPairs, journal : Users \cup {Nobody}, guest : BOOLEAN]
    /\ memory \in [Tabs -> 0 .. MaxPairs]
    /\ journal \in [Tabs -> Users \cup {Nobody}]
    /\ isRefreshing \in [Tabs -> BOOLEAN]
    /\ call \in [Tabs -> [Calls -> Call]]
    /\ signing \in [Tabs -> SUBSET Doors]
    /\ exchange \subseteq Exchange
    /\ faults \in 0 .. MaxFaults
    /\ mishap \in BOOLEAN /\ tainted \in BOOLEAN /\ forcedOut \in BOOLEAN

Init ==
    /\ owner = [p \in Pairs |-> Nobody]
    /\ row = [p \in Pairs |-> "none"]
    /\ fresh = {}
    /\ disk = [pair |-> 0, journal |-> Nobody, guest |-> FALSE]
    /\ memory = [t \in Tabs |-> 0]
    /\ journal = [t \in Tabs |-> Nobody]
    /\ isRefreshing = [t \in Tabs |-> FALSE]
    /\ call = [t \in Tabs |-> [c \in Calls |-> Idle]]
    /\ signing = [t \in Tabs |-> {}]
    /\ exchange = {}
    /\ faults = 0
    /\ mishap = FALSE /\ tainted = FALSE /\ forcedOut = FALSE

-----------------------------------------------------------------------------
(* Server *)

Unissued == {p \in Pairs : row[p] = "none"}

\* A new row of refresh_tokens and the access token that goes with it; pairs are
\* numbered in the order they are issued.
Issue(p, u, revoked) ==
    /\ p \in Unissued /\ \A q \in Unissued : p <= q
    /\ owner' = [owner EXCEPT ![p] = u]
    /\ row' = [q \in Pairs |-> IF q = p THEN "live" ELSE IF q \in revoked THEN "revoked" ELSE row[q]]
    /\ fresh' = fresh \cup {p}

\* Two tabs hold the refresh token of a renewal: the browser has no lock across tabs.
TwoHolders(m, xs) == \E x \in xs, t \in Tabs : x.tab # t /\ x.token = m[t]

\* History: a renewal's token was held twice, or the answer to one never arrived.
Mishap(lost) == mishap' = (mishap \/ lost \/ TwoHolders(memory', exchange'))

AccessExpires(p) ==
    /\ p \in fresh
    /\ fresh' = fresh \ {p}
    /\ UNCHANGED <<signing, owner, row, disk, memory, journal, isRefreshing, call, exchange,
                   faults, mishap, tainted, forcedOut>>

\* Where a request stands after a step of the server; nobody waits for the answer to
\* one whose tab is gone.
Answered(x, y) == (exchange \ {x}) \cup (IF x.tab = Gone THEN {} ELSE {y})

\* Refresh up to its checks: a token already replaced revokes every token of its user.
CheckToken(x) ==
    /\ x \in exchange /\ x.at = "sent"
    /\ IF row[x.token] = "revoked"
       THEN /\ row' = [p \in Pairs |-> IF owner[p] = owner[x.token] THEN "revoked" ELSE row[p]]
            /\ exchange' = Answered(x, [x EXCEPT !.at = "denied"])
       ELSE /\ exchange' = (exchange \ {x}) \cup {[x EXCEPT !.at = "granted"]}
            /\ UNCHANGED row
    /\ UNCHANGED <<signing, owner, fresh, disk, memory, journal, isRefreshing, call,
                   faults, mishap, tainted, forcedOut>>

\* The rest of Refresh: the new row is created, then the old one revoked.
Rotate(x) ==
    /\ x \in exchange /\ x.at = "granted"
    /\ \E p \in Unissued :
        /\ Issue(p, owner[x.token], {x.token})
        /\ exchange' = Answered(x, [x EXCEPT !.at = "renewed", !.pair = p])
    /\ UNCHANGED <<signing, disk, memory, journal, isRefreshing, call, faults, mishap, tainted, forcedOut>>

\* A statement fails: the old row stays as it was, a row created before stays too.
RotateFails(x) ==
    /\ x \in exchange /\ x.at = "granted"
    /\ faults < MaxFaults \/ Unissued = {}
    /\ faults' = IF faults < MaxFaults THEN faults + 1 ELSE faults
    /\ exchange' = Answered(x, [x EXCEPT !.at = "failed"])
    /\ \/ UNCHANGED server
       \/ \E p \in Unissued : Issue(p, owner[x.token], {})
    /\ UNCHANGED <<signing, disk, memory, journal, isRefreshing, call, mishap, tainted, forcedOut>>

-----------------------------------------------------------------------------
(* Calls of a tab *)

Unanswered(xs) == {x \in xs : x.at \in {"sent", "granted"}}
Mine(t) == {x \in exchange : x.tab = t}
Awaiting(t) == {c \in Calls : call[t][c].at \in {"queued", "refreshing"}}

\* The page is left: its calls are gone, a renewal goes on at the server.
Leave(t) ==
    /\ call' = [call EXCEPT ![t] = [c \in Calls |-> Idle]]
    /\ isRefreshing' = [isRefreshing EXCEPT ![t] = FALSE]
    /\ signing' = [signing EXCEPT ![t] = {}]
    /\ exchange' = (exchange \ Mine(t)) \cup {[x EXCEPT !.tab = Gone] : x \in Unanswered(Mine(t))}

Settle(t, c) == call' = [call EXCEPT ![t][c] = Idle]

\* clearTokens and setTokens write through to the local storage.
SetPair(t, p) ==
    /\ memory' = [memory EXCEPT ![t] = p]
    /\ disk' = [disk EXCEPT !.pair = p]

\* Pages that make calls are behind RequireAuth.
Send(t, c) ==
    /\ memory[t] # 0
    /\ call[t][c].at = "idle"
    /\ call' = [call EXCEPT ![t][c] = [at |-> "sent", with |-> memory[t], retried |-> FALSE]]
    /\ UNCHANGED <<signing, owner, row, fresh, disk, memory, journal, isRefreshing, exchange,
                   faults, mishap, tainted, forcedOut>>

Answer(t, c) ==
    /\ call[t][c].at = "sent" /\ call[t][c].with \in fresh
    /\ Settle(t, c)
    /\ journal' = [journal EXCEPT ![t] = owner[call[t][c].with]]
    /\ disk' = [disk EXCEPT !.journal = owner[call[t][c].with]]
    /\ UNCHANGED <<signing, owner, row, fresh, memory, isRefreshing, exchange,
                   faults, mishap, tainted, forcedOut>>

CallLost(t, c) ==
    /\ call[t][c].at = "sent" /\ faults < MaxFaults
    /\ Settle(t, c)
    /\ faults' = faults + 1
    /\ UNCHANGED <<signing, owner, row, fresh, disk, memory, journal, isRefreshing, exchange,
                   mishap, tainted, forcedOut>>

Unauthorized(t, c) == call[t][c].at = "sent" /\ call[t][c].with \notin fresh

\* A second 401 of the same call is passed on.
GiveUp(t, c) ==
    /\ Unauthorized(t, c) /\ call[t][c].retried
    /\ Settle(t, c)
    /\ UNCHANGED <<signing, owner, row, fresh, disk, memory, journal, isRefreshing, exchange,
                   faults, mishap, tainted, forcedOut>>

\* No refresh token: clearTokens, and the browser goes to /login.
NoRefreshToken(t, c) ==
    /\ Unauthorized(t, c) /\ ~call[t][c].retried
    /\ memory[t] = 0
    /\ Leave(t)
    /\ SetPair(t, 0)
    /\ UNCHANGED <<owner, row, fresh, journal, faults, tainted, forcedOut>>
    /\ Mishap(Mine(t) # {})

\* Another call of this tab is renewing: wait for it.
JoinRefresh(t, c) ==
    /\ Unauthorized(t, c) /\ ~call[t][c].retried
    /\ memory[t] # 0 /\ isRefreshing[t]
    /\ call' = [call EXCEPT ![t][c].at = "queued", ![t][c].retried = TRUE]
    /\ UNCHANGED <<signing, owner, row, fresh, disk, memory, journal, isRefreshing, exchange,
                   faults, mishap, tainted, forcedOut>>

StartRefresh(t, c) ==
    /\ Unauthorized(t, c) /\ ~call[t][c].retried
    /\ memory[t] # 0 /\ ~isRefreshing[t]
    /\ isRefreshing' = [isRefreshing EXCEPT ![t] = TRUE]
    /\ call' = [call EXCEPT ![t][c].at = "refreshing", ![t][c].retried = TRUE]
    /\ exchange' = exchange \cup {[tab |-> t, token |-> memory[t], at |-> "sent", pair |-> 0]}
    /\ UNCHANGED <<signing, owner, row, fresh, disk, memory, journal, faults, tainted, forcedOut>>
    /\ Mishap(FALSE)

\* Mutant: the refresh token that came with the new access token is not kept.
RenewedKeepsOld(x) ==
    /\ x \in exchange /\ x.tab \in Tabs /\ x.at = "renewed"
    /\ isRefreshing' = [isRefreshing EXCEPT ![x.tab] = FALSE]
    /\ call' = [call EXCEPT ![x.tab] = [c \in Calls |->
                    IF c \in Awaiting(x.tab)
                    THEN [at |-> "sent", with |-> x.pair, retried |-> TRUE] ELSE call[x.tab][c]]]
    /\ exchange' = exchange \ {x}
    /\ UNCHANGED <<signing, owner, row, fresh, disk, memory, journal, faults, tainted, forcedOut>>
    /\ Mishap(FALSE)

\* setTokens, then every waiting call is sent again with the new token.
Renewed(x) ==
    /\ x \in exchange /\ x.tab \in Tabs /\ x.at = "renewed"
    /\ SetPair(x.tab, x.pair)
    /\ isRefreshing' = [isRefreshing EXCEPT ![x.tab] = FALSE]
    /\ call' = [call EXCEPT ![x.tab] = [c \in Calls |->
                    IF c \in Awaiting(x.tab)
                    THEN [at |-> "sent", with |-> x.pair, retried |-> TRUE] ELSE call[x.tab][c]]]
    /\ exchange' = exchange \ {x}
    /\ UNCHANGED <<signing, owner, row, fresh, journal, faults, tainted, forcedOut>>
    /\ Mishap(FALSE)

\* Mutant: only the call that started the renewal is rejected.
RejectStarter(x) ==
    /\ isRefreshing' = [isRefreshing EXCEPT ![x.tab] = FALSE]
    /\ call' = [call EXCEPT ![x.tab] = [c \in Calls |->
                    IF call[x.tab][c].at = "refreshing" THEN Idle ELSE call[x.tab][c]]]

\* The renewal failed but not for its token: every waiting call fails, the session stays.
RejectWaiting(x) ==
    /\ isRefreshing' = [isRefreshing EXCEPT ![x.tab] = FALSE]
    /\ call' = [call EXCEPT ![x.tab] = [c \in Calls |->
                    IF c \in Awaiting(x.tab) THEN Idle ELSE call[x.tab][c]]]

RefreshFailed(x) ==
    /\ x \in exchange /\ x.tab \in Tabs /\ x.at = "failed"
    /\ RejectWaiting(x)
    /\ exchange' = exchange \ {x}
    /\ UNCHANGED <<signing, owner, row, fresh, disk, memory, journal, faults, mishap, tainted, forcedOut>>

\* The answer is lost on the way; the server may still be working on the request.
RefreshLost(x) ==
    /\ x \in exchange /\ x.tab \in Tabs /\ faults < MaxFaults
    /\ RejectWaiting(x)
    /\ exchange' = (exchange \ {x}) \cup {[y EXCEPT !.tab = Gone] : y \in Unanswered({x})}
    /\ faults' = faults + 1
    /\ UNCHANGED <<signing, owner, row, fresh, disk, memory, journal, tainted, forcedOut>>
    /\ Mishap(TRUE)

\* 401: onRefreshFailed, clearTokens, and the browser goes to /login.  The journal stays.
Denied(x) ==
    /\ x \in exchange /\ x.tab \in Tabs /\ x.at = "denied"
    /\ call' = [call EXCEPT ![x.tab] = [c \in Calls |-> Idle]]
    /\ isRefreshing' = [isRefreshing EXCEPT ![x.tab] = FALSE]
    /\ exchange' = exchange \ {x}
    /\ SetPair(x.tab, 0)
    /\ forcedOut' = TRUE
    /\ UNCHANGED <<signing, owner, row, fresh, journal, faults, tainted>>
    /\ Mishap(FALSE)

-----------------------------------------------------------------------------
(* Doors *)

\* Mutant: the cached journal outlives the session.
ResetTokensOnly(t, p, g) ==
    /\ memory' = [memory EXCEPT ![t] = p]
    /\ disk' = [disk EXCEPT !.pair = p, !.guest = g]
    /\ UNCHANGED journal

\* resetSessionData of the bubble store, around setTokens or clearTokens.
Reset(t, p, g) ==
    /\ memory' = [memory EXCEPT ![t] = p]
    /\ journal' = [journal EXCEPT ![t] = Nobody]
    /\ disk' = [pair |-> p, journal |-> Nobody, guest |-> g]

Busy(t) == \E c \in Calls : call[t][c].at # "idle"

\* The login page and the sign-up page are behind GuestOnly.  Their submit buttons are
\* disabled by their own request, the guest button by either of the login page's.
LoginOffers(t) ==
    IF memory[t] # 0 THEN {}
    ELSE {d \in {"login", "guest"} :
            signing[t] \cap (IF d = "guest" THEN {"login", "guest"} ELSE {d}) = {}}

SignupOffers(t) == IF memory[t] = 0 THEN {"signup"} \ signing[t] ELSE {}

Submit(t, d) ==
    /\ d \in LoginOffers(t) \cup SignupOffers(t)
    /\ signing' = [signing EXCEPT ![t] = @ \cup {d}]
    /\ UNCHANGED <<owner, row, fresh, disk, memory, journal, isRefreshing, call, exchange,
                   faults, mishap, tainted, forcedOut>>

\* The login form succeeds: the cache is reset, the guest mark removed, and the page
\* is loaded anew.
LogIn(t, u) ==
    /\ "login" \in signing[t]
    /\ \E p \in Pairs : Issue(p, u, {}) /\ Reset(t, p, FALSE)
    /\ Leave(t)
    /\ UNCHANGED <<faults, tainted, forcedOut>>
    /\ Mishap(Mine(t) # {})

\* Registering and logging in with what was registered end like the login form.
SignUp(t, u) ==
    /\ "signup" \in signing[t]
    /\ \E p \in Pairs : Issue(p, u, {}) /\ Reset(t, p, FALSE)
    /\ Leave(t)
    /\ UNCHANGED <<faults, tainted, forcedOut>>
    /\ Mishap(Mine(t) # {})

\* A wrong password is a 401 like any other, of a tab without a refresh token.
Rejected(t, d) ==
    /\ d \in signing[t] /\ memory[t] = 0
    /\ SetPair(t, 0)
    /\ signing' = [signing EXCEPT ![t] = @ \ {d}]
    /\ UNCHANGED <<owner, row, fresh, journal, isRefreshing, call, exchange,
                   faults, mishap, tainted, forcedOut>>

\* "Continue as guest" on the login page: the cache is reset, the page stays.
ContinueAsGuest(t) ==
    /\ "guest" \in signing[t]
    /\ \E p \in Pairs : Issue(p, Guest, {}) /\ Reset(t, p, TRUE)
    /\ signing' = [signing EXCEPT ![t] = @ \ {"guest"}]
    /\ tainted' = (tainted \/ Busy(t))
    /\ UNCHANGED <<isRefreshing, call, exchange, faults, forcedOut>>
    /\ Mishap(FALSE)

\* The guest page signs in without resetting the cache.
StartGuestSession(t) ==
    /\ memory[t] = 0
    /\ \E p \in Pairs :
        /\ Issue(p, Guest, {})
        /\ memory' = [memory EXCEPT ![t] = p]
        /\ disk' = [disk EXCEPT !.pair = p, !.guest = TRUE]
    /\ tainted' = (tainted \/ Busy(t) \/ journal[t] \notin {Nobody, Guest})
    /\ UNCHANGED <<journal, isRefreshing, call, signing, exchange, faults, forcedOut>>
    /\ Mishap(FALSE)

\* The social callback page is loaded with the tokens in its address: neither the
\* cache nor the guest mark is touched.
SocialCallback(t, u) ==
    /\ memory[t] = 0
    /\ Leave(t)
    /\ \E p \in Pairs :
        /\ Issue(p, u, {})
        /\ memory' = [memory EXCEPT ![t] = p]
        /\ disk' = [disk EXCEPT !.pair = p]
    /\ journal' = [journal EXCEPT ![t] = disk.journal]
    /\ tainted' = (tainted \/ disk.journal \notin {Nobody, u} \/ (disk.guest /\ u # Guest))
    /\ UNCHANGED <<faults, forcedOut>>
    /\ Mishap(Mine(t) # {})

\* Shell.handleLogout: nothing is told to the server, calls under way go on.
LogOut(t) ==
    /\ memory[t] # 0
    /\ Reset(t, 0, FALSE)
    /\ tainted' = (tainted \/ Busy(t))
    /\ UNCHANGED <<signing, owner, row, fresh, isRefreshing, call, exchange, faults, forcedOut>>
    /\ Mishap(FALSE)

\* A tab is loaded: both stores are read from the local storage.
Load(t) ==
    /\ Leave(t)
    /\ memory' = [memory EXCEPT ![t] = disk.pair]
    /\ journal' = [journal EXCEPT ![t] = disk.journal]
    /\ UNCHANGED <<owner, row, fresh, disk, faults, tainted, forcedOut>>
    /\ Mishap(Mine(t) # {})

-----------------------------------------------------------------------------
Server ==
    \/ \E p \in Pairs : AccessExpires(p)
    \/ \E x \in exchange :
        CheckToken(x) \/ Rotate(x) \/ RotateFails(x)

Browser(t) ==
    \/ \E c \in Calls :
        \/ Send(t, c) \/ Answer(t, c) \/ CallLost(t, c) \/ GiveUp(t, c)
        \/ NoRefreshToken(t, c) \/ JoinRefresh(t, c) \/ StartRefresh(t, c)
    \/ \E d \in Doors : Submit(t, d) \/ Rejected(t, d)
    \/ \E u \in Users \ {Guest} : LogIn(t, u) \/ SignUp(t, u) \/ SocialCallback(t, u)
    \/ ContinueAsGuest(t) \/ StartGuestSession(t)
    \/ LogOut(t) \/ Load(t)

Arrives(x) == Renewed(x) \/ RefreshFailed(x) \/ RefreshLost(x) \/ Denied(x)

Next ==
    \/ Server
    \/ \E t \in Tabs : Browser(t)
    \/ \E x \in exchange : Arrives(x)

\* The server works on what it received; an answer arrives or the connection breaks.
Serves == \E x \in exchange : CheckToken(x) \/ Rotate(x) \/ RotateFails(x)
Answers(t) == \E x \in Mine(t) : Arrives(x)
Fairness == WF_vars(Serves) /\ \A t \in Tabs : WF_vars(Answers(t))

Spec == Init /\ [][Next]_vars
FairSpec == Spec /\ Fairness

-----------------------------------------------------------------------------
(* Properties *)

\* However many calls fail at once, a tab has one renewal under way, for as long as
\* isRefreshing says so, and nobody waits when there is none (lib/api.ts:75-78, 109-135).
SingleFlight ==
    \A t \in Tabs :
        /\ Cardinality(Mine(t)) = (IF isRefreshing[t] THEN 1 ELSE 0)
        /\ Awaiting(t) # {} <=> isRefreshing[t]

\* The server signs a user out for reusing a token only after a mishap: the answer to
\* a renewal never arrived, or two tabs held the token being renewed.  A tab that gets
\* its answers never does it to itself (auth_handler.go Refresh against lib/api.ts).
ForcedOutNeedsMishap == forcedOut => mishap

\* One renewal at a time, and none that costs the session without a mishap.
RenewalsAreSafe == SingleFlight /\ ForcedOutNeedsMishap

\* A tab shows the journal of the account it is signed in with, unless it was signed
\* in or out with calls under way or through a door that does not reset the cache.
JournalIsOwn ==
    \/ tainted
    \/ \A t \in Tabs : memory[t] = 0 \/ journal[t] \in {Nobody, owner[memory[t]]}

\* A member is never taken for a guest: the guest mark in the local storage is there
\* only while the guest account is signed in, with the same exceptions
\* (lib/guestSession.ts, RequireAdmin, Shell).
GuestMarkIsTrue ==
    \/ tainted
    \/ \A t \in Tabs : memory[t] # 0 /\ disk.guest => owner[memory[t]] = Guest

\* What a tab keeps of an account is that account's.  This is said of a browser with one tab:
\* two tabs sign in and out over one local storage, which either reads only when it is loaded.
AccountsStayApart == JournalIsOwn /\ GuestMarkIsTrue

\* A call that waits for a renewal is sent again or fails; none waits forever.
Waits(t, c) == call[t][c].at \in {"queued", "refreshing"}
WaitingCallsSettle == \A t \in Tabs, c \in Calls : Waits(t, c) ~> ~ Waits(t, c)
=============================================================================
