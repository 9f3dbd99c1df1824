----------------------------- MODULE PortalTabs -----------------------------
(***************************************************************************)
(* The session of the portal (packages/portal/src/api.ts, pages.tsx) in    *)
(* the tabs of one browser, and the two routes of the hub that serve it    *)
(* (handleRefresh and handleLogout of packages/hub/src/api.ts).            *)
(*                                                                         *)
(* The access token lives an hour; a call that finds it expired makes the  *)
(* tab exchange the refresh token, which the hub replaces by a new one,    *)
(* and is then sent again.  Each tab sees to it that its calls share one   *)
(* exchange; the tabs share the cookies and know nothing of each other.    *)
(***************************************************************************)
EXTENDS Integers, FiniteSets

CONSTANTS Tabs, Calls,
          MaxTokens,   \* bound: refresh tokens the hub issues
          MaxExpiries, \* bound: expiries of an access token
          MaxMishaps   \* bound: exchanges whose answer is lost

ASSUME PortalAssumption == MaxTokens \in Nat \ {0} /\ MaxExpiries \in Nat /\ MaxMishaps \in Nat

VARIABLES jar,        \* the browser's cookies: [access, refresh]
          accepted,   \* refresh tokens the hub accepts
          issued,     \* refresh tokens issued so far
          page,       \* what each tab shows: "app" or "login"
          exchange,   \* the exchange each tab has under way
          asking,     \* the calls of the tabs
          signedOut,  \* the user logged out, or the hub ended all sessions
          expiries, mishaps,
          twice       \* an exchange was sent with a token another one carried

portalVars == <<jar, accepted, issued, page, exchange, asking, signedOut, expiries, mishaps, twice>>

NoToken == 0
NoExchange == [at |-> "none", token |-> NoToken, new |-> NoToken]
NotAsked == [at |-> "idle", tab |-> "none", good |-> FALSE, probe |-> FALSE, again |-> FALSE]

PortalInit ==
    /\ jar = [access |-> "good", refresh |-> 1]
    /\ accepted = {1} /\ issued = 1
    /\ page = [t \in Tabs |-> "app"]
    /\ exchange = [t \in Tabs |-> NoExchange]
    /\ asking = [c \in Calls |-> NotAsked]
    /\ signedOut = FALSE /\ expiries = 0 /\ mishaps = 0 /\ twice = FALSE

AccessExpires ==
    /\ jar.access = "good" /\ expiries < MaxExpiries
    /\ expiries' = expiries + 1
    /\ jar' = [jar EXCEPT !.access = "old"]
    /\ UNCHANGED <<accepted, issued, page, exchange, asking, signedOut, mishaps, twice>>

(***************************************************************************)
(* Calls                                                                   *)
(***************************************************************************)
\* jsonFetch sends a call with the cookies of that moment.  The login page
\* probes the session, as the frame of every page does: such a call never
\* leads to the login page.
Ask(c, t, probe) ==
    /\ asking[c].at = "idle" /\ (page[t] = "login" => probe)
    /\ asking' = [asking EXCEPT ![c] =
           [at |-> "sent", tab |-> t, good |-> jar.access = "good", probe |-> probe, again |-> FALSE]]
    /\ UNCHANGED <<jar, accepted, issued, page, exchange, signedOut, expiries, mishaps, twice>>

StartExchange(t) ==
    /\ exchange' = [exchange EXCEPT ![t] = [NoExchange EXCEPT !.at = "sent", !.token = jar.refresh]]
    /\ twice' = (twice \/ \E u \in Tabs \ {t} : exchange[u].at # "none" /\ exchange[u].token = jar.refresh)

\* (each call that finds its token expired starts an exchange of its own)
EachItsOwn(t) == StartExchange(t)

\* silentRefresh: an exchange under way serves every call of the tab.
SilentRefresh(t) ==
    IF exchange[t].at # "none" THEN UNCHANGED <<exchange, twice>> ELSE StartExchange(t)

\* The hub's answer.  A success on the login page brings the tab home; a 401
\* on the first try waits for the exchange, on the second it is an error.
Answered(c) ==
    LET r == asking[c] IN
    /\ r.at = "sent"
    /\ \/ /\ r.good
          /\ asking' = [asking EXCEPT ![c] = NotAsked]
          /\ page' = IF r.probe THEN [page EXCEPT ![r.tab] = "app"] ELSE page
          /\ UNCHANGED <<exchange, twice>>
       \/ /\ ~r.good /\ ~r.again
          /\ asking' = [asking EXCEPT ![c].at = "waits"]
          /\ SilentRefresh(r.tab)
          /\ UNCHANGED page
       \/ /\ ~r.good /\ r.again
          /\ asking' = [asking EXCEPT ![c] = NotAsked]
          /\ UNCHANGED <<page, exchange, twice>>
    /\ UNCHANGED <<jar, accepted, issued, signedOut, expiries, mishaps>>

(***************************************************************************)
(* The exchange at the hub: find the row, then revoke it and issue         *)
(***************************************************************************)
ExchangeFinds(t) ==
    /\ exchange[t].at = "sent"
    /\ exchange' = [exchange EXCEPT ![t].at = IF exchange[t].token \in accepted THEN "found" ELSE "refused"]
    /\ UNCHANGED <<jar, accepted, issued, page, asking, signedOut, expiries, mishaps, twice>>

ExchangeRotates(t) ==
    /\ exchange[t].at = "found" /\ issued < MaxTokens
    /\ issued' = issued + 1
    /\ accepted' = (accepted \ {exchange[t].token}) \cup {issued + 1}
    /\ exchange' = [exchange EXCEPT ![t].at = "rotated", ![t].new = issued + 1]
    /\ UNCHANGED <<jar, page, asking, signedOut, expiries, mishaps, twice>>

Waits(c, t) == asking[c].at = "waits" /\ asking[c].tab = t

\* The answer with the new cookies: the calls that waited are sent again.
ExchangeWorks(t) ==
    /\ exchange[t].at = "rotated"
    /\ jar' = [access |-> "good", refresh |-> exchange[t].new]
    /\ exchange' = [exchange EXCEPT ![t] = NoExchange]
    /\ asking' = [c \in Calls |->
           IF Waits(c, t) THEN [asking[c] EXCEPT !.at = "sent", !.good = TRUE, !.again = TRUE]
           ELSE asking[c]]
    /\ UNCHANGED <<accepted, issued, page, signedOut, expiries, mishaps, twice>>

CallsFail(t) == asking' = [c \in Calls |-> IF Waits(c, t) THEN NotAsked ELSE asking[c]]

\* The hub refuses the token: the tab goes to the login page, unless only
\* probes waited.
ExchangeRefused(t) ==
    /\ exchange[t].at = "refused"
    /\ exchange' = [exchange EXCEPT ![t] = NoExchange]
    /\ page' = IF \E c \in Calls : Waits(c, t) /\ ~asking[c].probe
               THEN [page EXCEPT ![t] = "login"] ELSE page
    /\ CallsFail(t)
    /\ UNCHANGED <<jar, accepted, issued, signedOut, expiries, mishaps, twice>>

\* The network fails, or 8 seconds pass: the calls fail and the tab stays
\* where it is.  A request that never reached the hub costs nothing; a token
\* that the hub has replaced by then, or is about to, is lost with the answer.
ExchangeLost(t) ==
    /\ exchange[t].at # "none" /\ mishaps < MaxMishaps
    /\ mishaps' = IF exchange[t].at = "sent" THEN mishaps ELSE mishaps + 1
    /\ accepted' = IF exchange[t].at = "found" THEN accepted \ {exchange[t].token} ELSE accepted
    /\ exchange' = [exchange EXCEPT ![t] = NoExchange]
    /\ CallsFail(t)
    /\ UNCHANGED <<jar, issued, page, signedOut, expiries, twice>>

(***************************************************************************)
(* The ends of a session, and a new one                                    *)
(***************************************************************************)
\* logout: the hub revokes the token of the cookie, its answer clears the
\* cookies, and the tab goes to the login page.
Logout(t) ==
    /\ page[t] = "app"
    /\ accepted' = accepted \ {jar.refresh}
    /\ jar' = [access |-> "none", refresh |-> NoToken]
    /\ page' = [page EXCEPT ![t] = "login"]
    /\ signedOut' = TRUE
    /\ UNCHANGED <<issued, exchange, asking, expiries, mishaps, twice>>

\* The password is changed elsewhere, or the account is banned.
EndedElsewhere ==
    /\ accepted # {} /\ ~signedOut
    /\ accepted' = {}
    /\ signedOut' = TRUE
    /\ UNCHANGED <<jar, issued, page, exchange, asking, expiries, mishaps, twice>>

PortalNext ==
    \/ AccessExpires
    \/ \E c \in Calls, t \in Tabs, probe \in BOOLEAN : Ask(c, t, probe)
    \/ \E c \in Calls : Answered(c)
    \/ \E t \in Tabs : ExchangeFinds(t)
    \/ \E t \in Tabs : ExchangeRotates(t)
    \/ \E t \in Tabs : ExchangeWorks(t)
    \/ \E t \in Tabs : ExchangeRefused(t)
    \/ \E t \in Tabs : ExchangeLost(t)
    \/ \E t \in Tabs : Logout(t)
    \/ EndedElsewhere

PortalSpec == PortalInit /\ [][PortalNext]_portalVars

(***************************************************************************)
(* Properties                                                              *)
(***************************************************************************)
PortalTypeOK ==
    /\ jar.access \in {"good", "old", "none"} /\ jar.refresh \in 0..MaxTokens
    /\ accepted \subseteq 1..MaxTokens
    /\ page \in [Tabs -> {"app", "login"}]
    /\ \A t \in Tabs : exchange[t].at \in {"none", "sent", "found", "rotated", "refused"}
    /\ \A c \in Calls : asking[c].at \in {"idle", "sent", "waits"}

\* No tab is sent to the login page while the session lives, however many of
\* its calls find the token expired at once, and whatever exchanges fail on
\* the network - with two exceptions the code has: the answer of an exchange
\* was lost after the hub had replaced the token, and two tabs exchanged one
\* token (silentRefresh and jsonFetch of the portal's api.ts).
LoginOnlyWhenEnded ==
    (\E t \in Tabs : page[t] = "login") => signedOut \/ mishaps > 0 \/ twice
=============================================================================
