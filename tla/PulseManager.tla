---------------------------- MODULE PulseManager ----------------------------
(***************************************************************************)
(* The manager's application (ui/app.py) on top of its engine: navigation, *)
(* the explorer's and the commands' tables, the search box, the periodic   *)
(* update and the end of the application.                                  *)
(*                                                                         *)
(* Its handlers run one after the other on one thread.  Choosing a tab     *)
(* only posts a message: active_nav and active_tab follow when the message *)
(* is handled, and updates may come in between.  Within an update only the *)
(* subscriber's thread goes on.                                            *)
(***************************************************************************)
EXTENDS TelemetryEngine, Extractors

CONSTANTS
    Visited,   \* tabs of the explorer the user goes to
    Queries,   \* texts typed into the search box
    MaxMail    \* messages of the tab bars waiting at a time

VARIABLES
    app,       \* where the application's life stands
    bars,      \* the tabs that are active in the two tab bars
    mail,      \* TabActivated messages on their way
    nav, tab,  \* active_nav, active_tab
    query,     \* search_query_explorer
    explorer,  \* the explorer's table: keys and values of its rows
    commands,  \* the table of the commands' view
    last,      \* last_inbound_cmd_sent
    grown      \* history: has a packet changed the rows of the tab since?

views == <<bars, mail, nav, tab, query, explorer, commands, last, grown>>
uiVars == <<app, views>>
vars == <<engineVars, uiVars>>

Navs == {"home", "install", "explorer", "commands"}

Tabs == {"telem", "scoring", "compact", "weather", "ffb", "graphics",
         "physics", "event", "stats"}

ASSUME ManagerAssumption ==
    /\ Visited \subseteq Tabs
    /\ NoQuery \in Queries
    /\ MaxMail \in Nat

TypeOK ==
    /\ EngineTypeOK
    /\ app \in {"new", "running", "failed", "stopping", "closed"}
    /\ bars \in [nav : Navs, tab : Tabs]
    /\ nav \in Navs /\ tab \in Tabs
    /\ Len(mail) <= MaxMail
    /\ query \in Queries
    /\ last \in {"None", "command", "Error"}
    /\ grown \in BOOLEAN
    /\ "_channel" \in DOMAIN explorer => explorer["_channel"] \in 0 .. received

-----------------------------------------------------------------------------
(* The tables.                                                               *)

(* _get_active_explorer_rows.                                                *)
ExplorerRows ==
    CASE tab = "telem"    -> TelemetryRows(latest["telemetry"], count["telemetry"])
      [] tab = "scoring"  -> FullScoringRows(latest["full_scoring"], count["full_scoring"])
      [] tab = "compact"  -> CompactScoringRows(latest["scoring"], count["scoring"])
      [] tab = "weather"  -> WeatherRows(latest["weather"], count["weather"])
      [] tab = "ffb"      -> FeedbackRows(latest["force_feedback"], count["force_feedback"])
      [] tab = "graphics" -> GraphicsRows(latest["graphics"], count["graphics"])
      [] tab = "physics"  -> PhysicsRows(latest["extended_state"], count["extended_state"])
      [] tab = "event"    -> EventRows(latest["system_event"], count["system_event"])
      [] tab = "stats"    -> StatsRows(total, count)

CommandRows == InboundRows(last, latest["weather"])

(* The kind of packet a tab shows: _get_active_model_dict.                   *)
StreamOf ==
    [telem |-> "telemetry", scoring |-> "full_scoring", compact |-> "scoring",
     weather |-> "weather", ffb |-> "force_feedback", graphics |-> "graphics",
     physics |-> "extended_state", event |-> "system_event"]

(* What "Copy JSON" takes from the engine: the latest packet, and the total  *)
(* of its channel (get_telemetry_dict and its siblings).                     *)
Exported ==
    [packet |-> latest[StreamOf[tab]].number, count |-> count[StreamOf[tab]]]

RebuildExplorer == explorer' = Filtered(query, ExplorerRows)'

RebuildCommands == commands' = CommandRows'

(* update_cell for the keys the table has; the others are not added.         *)
Refreshed(table, rows) ==
    [key \in DOMAIN table |-> IF key \in DOMAIN rows THEN rows[key] ELSE table[key]]

-----------------------------------------------------------------------------
(* Handlers.                                                                 *)

Idle == app = "running" /\ ~reading

(* The engine starts before the tables are filled for the first time.        *)
Mount ==
    /\ app = "new"
    /\ app' = "running"
    /\ EngineStart
    /\ UNCHANGED <<bars, mail, nav, tab, query, last, grown>>
    /\ RebuildExplorer
    /\ RebuildCommands

(* A tab bar posts a message for a tab that was not active.                  *)
Post(before, after, message) == IF before = after THEN <<>> ELSE <<message>>

(* The keys and buttons of the main views.                                   *)
SelectNav(n) ==
    /\ Idle
    /\ bars.nav # n
    /\ Len(mail) < MaxMail
    /\ bars' = [bars EXCEPT !.nav = n]
    /\ mail' = Append(mail, <<"nav", n>>)
    /\ UNCHANGED <<engineVars, app, nav, tab, query, explorer, commands, last,
                   grown>>

(* A tab of the explorer chosen in its bar.                                  *)
PickTab(t) ==
    /\ Idle
    /\ bars.tab # t
    /\ Len(mail) < MaxMail
    /\ bars' = [bars EXCEPT !.tab = t]
    /\ mail' = Append(mail, <<"tab", t>>)
    /\ UNCHANGED <<engineVars, app, nav, tab, query, explorer, commands, last,
                   grown>>

(* action_select_tab_*: the explorer and one of its tabs, by a key.          *)
SelectTab(t) ==
    /\ Idle
    /\ mail' = mail \o Post(bars.nav, "explorer", <<"nav", "explorer">>)
                    \o Post(bars.tab, t, <<"tab", t>>)
    /\ Len(mail') <= MaxMail
    /\ bars' = [nav |-> "explorer", tab |-> t]
    /\ UNCHANGED <<engineVars, app, nav, tab, query, explorer, commands, last,
                   grown>>

\* Variant: the rows stay when another tab of the explorer is chosen.
ActivateTabOnly ==
    /\ Idle
    /\ mail # <<>> /\ Head(mail)[1] = "tab"
    /\ tab' = Head(mail)[2]
    /\ mail' = Tail(mail)
    /\ grown' = FALSE
    /\ UNCHANGED <<engineVars, app, bars, nav, query, explorer, commands, last>>

(* on_tabs_tab_activated, of the explorer's bar.                             *)
ActivateTab ==
    /\ Idle
    /\ mail # <<>> /\ Head(mail)[1] = "tab"
    /\ tab' = Head(mail)[2]
    /\ mail' = Tail(mail)
    /\ UNCHANGED <<engineVars, app, bars, nav, query, commands, last>>
    /\ RebuildExplorer
    /\ grown' = FALSE

(* on_tabs_tab_activated, of the main bar.                                   *)
ActivateNav ==
    /\ Idle
    /\ mail # <<>> /\ Head(mail)[1] = "nav"
    /\ nav' = Head(mail)[2]
    /\ mail' = Tail(mail)
    /\ UNCHANGED <<engineVars, app, bars, tab, query, last>>
    /\ IF nav' = "explorer" THEN RebuildExplorer /\ grown' = FALSE
       ELSE UNCHANGED <<explorer, grown>>
    /\ IF nav' = "commands" THEN RebuildCommands ELSE UNCHANGED commands

Search(q) ==
    /\ Idle
    /\ q # query
    /\ query' = q
    /\ UNCHANGED <<engineVars, app, bars, mail, nav, tab, commands, last>>
    /\ RebuildExplorer
    /\ grown' = FALSE

ResetStatistics ==
    /\ Idle
    /\ ResetStats
    /\ UNCHANGED <<app, bars, mail, nav, tab, query, commands, last>>
    /\ RebuildExplorer
    /\ grown' = FALSE

(* The pit menu, the other controls and the weather: whether the command     *)
(* could be published or not, the table follows.                             *)
LastCommand(published) == IF published THEN "command" ELSE "Error"

SendCommand(published) ==
    /\ Idle
    /\ last' = LastCommand(published)
    /\ UNCHANGED <<engineVars, app, bars, mail, nav, tab, query, explorer, grown>>
    /\ RebuildCommands

-----------------------------------------------------------------------------
(* _update_ui.                                                               *)

UpdateBegin == Idle /\ PollBegin /\ UNCHANGED uiVars

UpdatePacket ==
    /\ app = "running"
    /\ ProcessPacket
    /\ UNCHANGED <<app, bars, mail, nav, tab, query, explorer, commands, last>>
    /\ grown' = (grown \/ DOMAIN ExplorerRows' # DOMAIN ExplorerRows)

(* Nothing in the update catches what a decoder raises.                      *)
UpdateRaises ==
    /\ app = "running"
    /\ PollRaises
    /\ app' = "failed"
    /\ UNCHANGED views

(* Only the table of the view that is open is refreshed.                     *)
UpdateEnd ==
    /\ app = "running"
    /\ PollEnd
    /\ explorer' = IF nav = "explorer" THEN Refreshed(explorer, ExplorerRows)
                   ELSE explorer
    /\ commands' = IF nav = "commands" THEN Refreshed(commands, CommandRows)
                   ELSE commands
    /\ UNCHANGED <<app, bars, mail, nav, tab, query, last, grown>>

-----------------------------------------------------------------------------
(* The end.                                                                  *)

(* on_unmount, by the user or after an exception; stop waits for the         *)
(* subscriber's thread.                                                      *)
Unmount ==
    /\ Idle \/ app = "failed"
    /\ app' = "stopping"
    /\ UNCHANGED <<engineVars, views>>

Stopped ==
    /\ app = "stopping"
    /\ grip = "none"
    /\ app' = "closed"
    /\ EngineStop
    /\ UNCHANGED views

(* The subscriber's thread: alive from the mount to the end of stop.         *)
Subscribing ==
    /\ app \notin {"new", "closed"}
    /\ PutDown \/ \E m \in Feed : Take(m)
    /\ UNCHANGED uiVars

Updating == UpdatePacket \/ UpdateRaises \/ UpdateEnd

Next ==
    \/ Mount
    \/ \E n \in Navs : SelectNav(n)
    \/ \E t \in Visited : PickTab(t) \/ SelectTab(t)
    \/ ActivateTab \/ ActivateNav
    \/ \E q \in Queries : Search(q)
    \/ ResetStatistics
    \/ \E published \in BOOLEAN : SendCommand(published)
    \/ UpdateBegin \/ Updating
    \/ Unmount \/ Stopped
    \/ Subscribing

Init ==
    /\ EngineInit
    /\ app = "new"
    /\ bars = [nav |-> "home", tab |-> "telem"]
    /\ mail = <<>>
    /\ nav = "home" /\ tab = "telem"
    /\ query = NoQuery
    /\ explorer = <<>> /\ commands = <<>>
    /\ last = "None"
    /\ grown = FALSE

Spec == Init /\ [][Next]_vars

(* The timer of the update goes off again and again, an update that began    *)
(* goes on, and the subscriber's thread finishes a callback.                 *)
Fairness ==
    /\ WF_vars(UpdateBegin)
    /\ WF_vars(Updating)
    /\ WF_vars(Subscribing /\ PutDown)

FairSpec == Spec /\ Fairness

-----------------------------------------------------------------------------

Stale(table, rows) ==
    \E key \in DOMAIN table \cap DOMAIN rows : table[key] # rows[key]

(* Its rows show the packet and the count that "Copy JSON" would copy.       *)
CopiesWhatItShows ==
    \A key \in DOMAIN explorer \cap DOMAIN ExplorerRows :
        explorer[key] = IF key = "_channel" THEN Exported.count ELSE Exported.packet

(* Between two updates the open table shows the engine's state: every row it *)
(* has is current and the same as what would be copied, and it has all rows  *)
(* of the chosen tab -- unless a packet brought other rows since the table   *)
(* was built (the first of its kind, a car more or less), or the search left *)
(* some out.                                                                 *)
ScreenIsCurrent ==
    Idle =>
        /\ nav = "explorer" =>
            /\ ~Stale(explorer, ExplorerRows)
            /\ tab # "stats" => CopiesWhatItShows
            /\ ~grown /\ query = NoQuery => DOMAIN explorer = DOMAIN ExplorerRows
        /\ nav = "commands" => ~Stale(commands, CommandRows)

(* A packet the subscriber has received is processed by some later update,   *)
(* if the application lives on and it is not one of those known to be lost.  *)
EveryPacketIsReached ==
    \A n \in 1 .. MaxReceived :
        (app = "running" /\ n <= received)
            ~> (n \in processed \cup late \/ app # "running")

=============================================================================
