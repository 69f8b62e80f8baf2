----------------------------- MODULE Extractors -----------------------------
(***************************************************************************)
(* The row extractors of the manager: the table a tab shows for a packet   *)
(* and the count of its channel.                                           *)
(*                                                                         *)
(* A table maps the keys of its rows to what they show.  Rows that come    *)
(* and go together and show one packet are one row here, named after the   *)
(* group they are in; a cell of a packet's field is the packet's number.   *)
(***************************************************************************)
EXTENDS Integers, Sequences, TLC

(* What is known of a stream before its first packet.                        *)
NoPacketYet == [number |-> 0, cars |-> 0]

Row(key, value) == [k \in {key} |-> value]

(* A table with those rows of another that it does not have itself.          *)
Joined(table, more) ==
    [key \in DOMAIN table \cup DOMAIN more |->
        IF key \in DOMAIN table THEN table[key] ELSE more[key]]

Waiting == Row("status", 0)

Channel(n) == Row("_channel", n)

Showing(groups, p) == [g \in groups |-> p.number]

(* The pattern all extractors share: the channel, then the packet's fields   *)
(* or, before the first packet, a row that says so.                          *)
PacketRows(p, n, fields) ==
    Joined(Channel(n), IF p.number = 0 THEN Waiting ELSE fields)

-----------------------------------------------------------------------------

MotionGroups == {"session", "kinematics"}

CarGroups == {"drivetrain", "controls", "aero", "health"}

LmuGroups == {"lmu", "lmu.ecu"}

WheelGroups == {"wheels.fl", "wheels.fr", "wheels.rl", "wheels.rr"}

TelemetryRows(t, n) ==
    PacketRows(t, n,
        Showing(MotionGroups \cup CarGroups \cup LmuGroups \cup WheelGroups, t))

CompactScoringRows(s, n) == PacketRows(s, n, Showing({"track", "laps"}, s))

(* The leaderboard: a row for every car, by rank.                            *)
LeaderboardRows(fs) ==
    Showing({"car" \o ToString(rank) : rank \in 1 .. fs.cars}, fs)

FullScoringRows(fs, n) ==
    PacketRows(fs, n, Joined(Showing({"grid", "grid.lmu"}, fs), LeaderboardRows(fs)))

WeatherRows(w, n) == PacketRows(w, n, Showing({"weather"}, w))

FeedbackRows(ffb, n) == PacketRows(ffb, n, Showing({"ffb"}, ffb))

GraphicsRows(gfx, n) == PacketRows(gfx, n, Showing({"graphics"}, gfx))

PhysicsGroups == {"aids", "multipliers", "steering", "damage", "status"}

PhysicsRows(ext, n) ==
    PacketRows(ext, n, Showing({"physics." \o g : g \in PhysicsGroups}, ext))

(* The event and the time it was received at.                                *)
EventRows(ev, n) == PacketRows(ev, n, Showing({"name", "timestamp"}, ev))

(* The totals and, for every channel, its count.                             *)
StatsRows(total, count) == Joined(Row("connection", total), count)

(* The commands' table: the last command and, once there is a weather        *)
(* packet, what the simulator reports of it.                                 *)
InboundRows(last, w) ==
    Joined(Row("last_command", last),
           Showing(IF w.number = 0 THEN {} ELSE {"live_feedback"}, w))

-----------------------------------------------------------------------------
(* The search box: the text is looked for in the key, the description and    *)
(* the value a row has when the table is built: a query is the keys and the  *)
(* values it is found in.                                                    *)

NoQuery == [keys |-> {}, values |-> {}]

Found(query, key, value) ==
    query = NoQuery \/ key \in query.keys \/ value \in query.values

Filtered(query, rows) ==
    [key \in {k \in DOMAIN rows : Found(query, k, rows[k])} |-> rows[key]]

=============================================================================
