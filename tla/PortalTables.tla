---------------------------- MODULE PortalTables ----------------------------
(***************************************************************************)
(* The pages of the portal that show a table of the hub's rows and change  *)
(* them (packages/portal/src/pages.tsx): the pages of the administrators,  *)
(* and the hosts, keys, tokens and usage of a user.                        *)
(*                                                                         *)
(* They are one program in several shapes.  A page loads its rows when it  *)
(* opens, when a filter, a page number or the row it is about changes, and *)
(* after each of its own actions.  Nothing cancels or numbers a request,   *)
(* so answers come in any order, and the last to come is shown.  A handler *)
(* that waited for the hub goes on with the filter of the rendering it     *)
(* belongs to.  The list of hosts also takes events off a WebSocket.       *)
(***************************************************************************)
EXTENDS Integers, Sequences, FiniteSets

CONSTANTS Filters,      \* what a table can be narrowed to, or be about
          MaxTurns,     \* bound: changes of the filter
          MaxAsked,     \* bound: requests of a table under way
          MaxActing,    \* bound: actions of a page under way
          MaxWrites,    \* bound: changes of the hub's rows
          MaxEvents     \* bound: times a host comes or goes

ASSUME TablesAssumption == /\ Filters # {} /\ MaxAsked \in Nat \ {0}
                           /\ {MaxTurns, MaxActing, MaxWrites, MaxEvents} \subseteq Nat

(***************************************************************************)
(* The shapes of the pages                                                 *)
(*   filters  a filter, a page number or the address chooses the rows      *)
(*   delay    a change of the filter is sent when 300 ms pass without      *)
(*            another                                                      *)
(*   eager    the page asks at once when it opens, besides the delay       *)
(*   acts     "dialog": behind a modal dialog that asks for a reason;      *)
(*            "button": at once, the page stays usable                     *)
(*   goes     an action leads back to what it was about                    *)
(*   clears   a request that fails empties the table                       *)
(*   sticks   and the page shows the error for the rest of its life        *)
(*   live     events of the hub change the rows                            *)
(***************************************************************************)
Plain == [filters |-> FALSE, delay |-> FALSE, eager |-> TRUE, acts |-> {}, goes |-> FALSE,
          clears |-> TRUE, sticks |-> FALSE, live |-> FALSE]

AdminUsers       == [Plain EXCEPT !.filters = TRUE, !.delay = TRUE, !.eager = FALSE, !.acts = {"dialog"}]
AdminHosts       == [Plain EXCEPT !.filters = TRUE, !.delay = TRUE, !.eager = FALSE, !.acts = {"dialog"}]
AdminBilling     == [Plain EXCEPT !.filters = TRUE, !.delay = TRUE, !.acts = {"dialog"}]
AdminNodes       == [Plain EXCEPT !.filters = TRUE, !.acts = {"dialog", "button"}]
AdminAudit       == [Plain EXCEPT !.filters = TRUE]
AdminJoinTokens  == [Plain EXCEPT !.acts = {"dialog", "button"}]
AdminAdmins      == [Plain EXCEPT !.acts = {"dialog"}]
AdminLlmModels   == [Plain EXCEPT !.acts = {"button"}]
AdminLlmKeys     == [Plain EXCEPT !.acts = {"button"}]
AdminVoiceProviderConfigs == [Plain EXCEPT !.acts = {"button"}]
AdminLlmRouters  == [Plain EXCEPT !.acts = {"button"}]
AdminUserDetail  == [Plain EXCEPT !.filters = TRUE, !.sticks = TRUE]
AdminNodeDetail  == [Plain EXCEPT !.filters = TRUE]
HostsPage        == [Plain EXCEPT !.acts = {"button"}, !.clears = FALSE, !.live = TRUE]
SharePanel       == [Plain EXCEPT !.filters = TRUE, !.eager = FALSE, !.acts = {"button"},
                                  !.goes = TRUE, !.clears = FALSE]
LlmKeysPage      == [Plain EXCEPT !.acts = {"button"}, !.clears = FALSE]
AddHostPage      == [Plain EXCEPT !.acts = {"button"}, !.clears = FALSE]
UsagePage        == [Plain EXCEPT !.filters = TRUE, !.clears = FALSE]

Shapes == {AdminUsers, AdminHosts, AdminBilling, AdminNodes, AdminAudit, AdminJoinTokens, AdminAdmins,
           AdminLlmModels, AdminLlmKeys, AdminVoiceProviderConfigs, AdminLlmRouters, AdminUserDetail,
           AdminNodeDetail, HostsPage, SharePanel, LlmKeysPage, AddHostPage, UsagePage}

VARIABLES shape,    \* the page
          want,     \* its filter, or Closed for a panel that is not open
          timer,    \* the delay is running
          asks,     \* requests under way, in the order they were sent
          dialog,   \* "closed", "open" or "busy"
          acting,   \* actions under way
          table,    \* what the page shows
          written,  \* version of the hub's rows
          own,      \* the last version an action of this page is known to have made
          online,   \* version of the hosts' coming and going at the hub
          socket,   \* the WebSocket: "opening", "open" or "dead"
          pushed,   \* events on it
          past,     \* the last event that the page has taken or will never get
          turns

tableVars == <<shape, want, timer, asks, dialog, acting, table, written, own, online, socket, pushed, past, turns>>
hubRows == <<written, online, socket, pushed, past>>

Closed == "closed"
NoRows == [at |-> "none", filter |-> Closed, seen |-> 0, live |-> 0, late |-> FALSE, old |-> FALSE]

\* A request for the rows of a filter; old if the page has another by now.
Request(f, now) == [at |-> "sent", filter |-> f, seen |-> 0, live |-> 0, late |-> FALSE, old |-> f # now]

TablesInit ==
    /\ shape \in Shapes
    /\ want = IF shape.goes THEN Closed ELSE CHOOSE f \in Filters : TRUE
    /\ timer = shape.delay
    /\ asks = IF shape.eager THEN <<Request(want, want)>> ELSE <<>>
    /\ dialog = "closed" /\ acting = <<>> /\ table = NoRows
    /\ written = 0 /\ own = 0 /\ online = 0 /\ pushed = <<>> /\ past = 0 /\ turns = 0
    /\ socket = IF shape.live THEN "opening" ELSE "dead"

Send(f, now) == Len(asks) < MaxAsked /\ asks' = Append(asks, Request(f, now))

(***************************************************************************)
(* Loading                                                                 *)
(***************************************************************************)
\* Another filter, another page, or another row's details: the effect of the
\* page runs anew, and what runs of the old delay is cancelled.
Choose(f) ==
    /\ shape.filters /\ f # want /\ dialog = "closed" /\ turns < MaxTurns
    /\ want' = f /\ turns' = turns + 1
    /\ IF shape.delay THEN timer' = TRUE /\ UNCHANGED asks ELSE Send(f, f) /\ UNCHANGED timer
    /\ UNCHANGED <<shape, dialog, acting, table, own, hubRows>>

ClosePanel ==
    /\ shape.goes /\ want # Closed
    /\ want' = Closed
    /\ UNCHANGED <<shape, timer, asks, dialog, acting, table, own, turns, hubRows>>

DelayEnds ==
    /\ timer /\ timer' = FALSE
    /\ Send(want, want)
    /\ UNCHANGED <<shape, want, dialog, acting, table, own, turns, hubRows>>

\* The hub reads its rows for a request.
ReadRows(i) ==
    /\ asks[i].at = "sent"
    /\ asks' = [asks EXCEPT ![i].at = "read", ![i].seen = written, ![i].live = online]
    /\ UNCHANGED <<shape, want, timer, dialog, acting, table, own, turns, hubRows>>

\* What stays under way when request i has come back: those sent before it
\* come late.
Without(i) == [j \in 1..(Len(asks) - 1) |->
                 IF j < i THEN [asks[j] EXCEPT !.late = TRUE] ELSE asks[j + 1]]

\* The answer is shown, whatever is shown already.
Show(i) ==
    /\ asks[i].at = "read"
    /\ asks' = Without(i)
    /\ table' = IF table.at = "error" /\ shape.sticks THEN table
                ELSE [at |-> "rows", filter |-> asks[i].filter, seen |-> asks[i].seen, live |-> asks[i].live,
                      late |-> asks[i].late, old |-> asks[i].old]
    /\ UNCHANGED <<shape, want, timer, dialog, acting, own, turns, hubRows>>

RequestFails(i) ==
    /\ asks' = Without(i)
    /\ table' = IF shape.clears THEN [NoRows EXCEPT !.at = "error"] ELSE [table EXCEPT !.at = "error"]
    /\ UNCHANGED <<shape, want, timer, dialog, acting, own, turns, hubRows>>

(***************************************************************************)
(* Actions                                                                 *)
(***************************************************************************)
Act(how) == Append(acting, [how |-> how, at |-> "sent", filter |-> want, made |-> 0])

OpenDialog ==
    /\ "dialog" \in shape.acts /\ dialog = "closed"
    /\ dialog' = "open"
    /\ UNCHANGED <<shape, want, timer, asks, acting, table, own, turns, hubRows>>

\* The dialog sends its action once, and can be cancelled until it does.
Submit ==
    /\ dialog = "open" /\ Len(acting) < MaxActing
    /\ dialog' = "busy" /\ acting' = Act("dialog")
    /\ UNCHANGED <<shape, want, timer, asks, table, own, turns, hubRows>>

CancelDialog ==
    /\ dialog = "open" /\ dialog' = "closed"
    /\ UNCHANGED <<shape, want, timer, asks, acting, table, own, turns, hubRows>>

Press ==
    /\ "button" \in shape.acts /\ dialog = "closed" /\ want # Closed /\ Len(acting) < MaxActing
    /\ acting' = Act("button")
    /\ UNCHANGED <<shape, want, timer, asks, dialog, table, own, turns, hubRows>>

ActionCommits(j) ==
    /\ acting[j].at = "sent" /\ written < MaxWrites
    /\ written' = written + 1
    /\ acting' = [acting EXCEPT ![j].at = "made", ![j].made = written + 1]
    /\ UNCHANGED <<shape, want, timer, asks, dialog, table, own, online, socket, pushed, past, turns>>

Others(j) == [k \in 1..(Len(acting) - 1) |-> IF k < j THEN acting[k] ELSE acting[k + 1]]

\* The hub refuses it, or its answer is lost: the message is shown, a dialog
\* stays open, and the rows are not asked for.
ActionFails(j) ==
    /\ acting' = Others(j)
    /\ dialog' = IF acting[j].how = "dialog" THEN "open" ELSE dialog
    /\ UNCHANGED <<shape, want, timer, asks, table, own, turns, hubRows>>

Done(j) ==
    /\ acting[j].at = "made"
    /\ acting' = Others(j)
    /\ own' = IF acting[j].made > own THEN acting[j].made ELSE own
    /\ dialog' = IF acting[j].how = "dialog" THEN "closed" ELSE dialog

\* (the rows are not asked for again)
NoReload(j) ==
    /\ Done(j)
    /\ UNCHANGED <<shape, want, timer, asks, table, turns, hubRows>>

\* reload, with the filter of the rendering that the action was started from.
ActionWorks(j) ==
    /\ Done(j)
    /\ want' = IF shape.goes THEN acting[j].filter ELSE want
    /\ Send(acting[j].filter, want')
    /\ UNCHANGED <<shape, timer, table, turns, hubRows>>

(***************************************************************************)
(* The hub and its events                                                  *)
(***************************************************************************)
SomeoneWrites ==
    /\ written < MaxWrites /\ written' = written + 1
    /\ UNCHANGED <<shape, want, timer, asks, dialog, acting, table, own, online, socket, pushed, past, turns>>

\* A host comes or goes; only an open socket is told.
HostTurns ==
    /\ shape.live /\ online < MaxEvents
    /\ online' = online + 1
    /\ IF socket = "open" THEN pushed' = Append(pushed, online + 1) /\ UNCHANGED past
       ELSE past' = online + 1 /\ UNCHANGED pushed
    /\ UNCHANGED <<shape, want, timer, asks, dialog, acting, table, written, own, socket, turns>>

SocketOpens ==
    /\ socket = "opening" /\ socket' = "open"
    /\ UNCHANGED <<shape, want, timer, asks, dialog, acting, table, written, own, online, pushed, past, turns>>

\* It is not opened again.
SocketDies ==
    /\ socket # "dead" /\ socket' = "dead" /\ pushed' = <<>>
    /\ past' = IF pushed # <<>> THEN online ELSE past
    /\ UNCHANGED <<shape, want, timer, asks, dialog, acting, table, written, own, online, turns>>

\* An event marks the host in the rows shown; there may be none yet.
TakeEvent ==
    /\ pushed # <<>>
    /\ pushed' = Tail(pushed) /\ past' = Head(pushed)
    /\ table' = [table EXCEPT !.live = Head(pushed)]
    /\ UNCHANGED <<shape, want, timer, asks, dialog, acting, written, own, online, socket, turns>>

TablesNext ==
    \/ \E f \in Filters : Choose(f)
    \/ ClosePanel \/ DelayEnds
    \/ \E i \in 1..Len(asks) : ReadRows(i) \/ Show(i) \/ RequestFails(i)
    \/ OpenDialog \/ Submit \/ CancelDialog \/ Press
    \/ \E j \in 1..Len(acting) : ActionCommits(j) \/ ActionFails(j) \/ ActionWorks(j)
    \/ SomeoneWrites \/ HostTurns \/ SocketOpens \/ SocketDies \/ TakeEvent

TablesSpec == TablesInit /\ [][TablesNext]_tableVars

(***************************************************************************)
(* Properties                                                              *)
(***************************************************************************)
TablesTypeOK ==
    /\ shape \in Shapes /\ want \in Filters \cup {Closed} /\ timer \in BOOLEAN
    /\ dialog \in {"closed", "open", "busy"} /\ socket \in {"opening", "open", "dead"}
    /\ Len(asks) <= MaxAsked /\ Len(acting) <= MaxActing
    /\ {written, own} \subseteq 0..MaxWrites /\ {online, past} \subseteq 0..MaxEvents

\* Nothing is under way that could change what the page shows.
Settled == ~timer /\ asks = <<>> /\ acting = <<>> /\ pushed = <<>>

\* A page that has settled on rows shows those of the filter it shows, with
\* every change the page itself was told it made, and a list of hosts marks
\* them as the hub has them (load, fetch and reload of the pages of
\* pages.tsx, subscribeEvents of api.ts).  The exceptions are the code's: the
\* answer shown was overtaken by a later one, the action of a button asked
\* with a filter that had changed meanwhile, and a list that the hub had read
\* before an event came after it, or no socket was open for that event.
TableShown ==
    Settled /\ table.at = "rows" /\ want # Closed /\ ~table.late =>
      /\ table.filter = want \/ table.old
      /\ table.seen >= own
      /\ shape.live => table.live = online \/ table.live < past
=============================================================================
