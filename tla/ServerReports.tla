--------------------------- MODULE ServerReports ----------------------------
(***************************************************************************)
(* What a tick of _handle_game_ready tells the server and the player       *)
(* besides pickups and grants (client.py, notification_manager.py): the    *)
(* goal, the tracker's position, completed hint scans, and the HUD         *)
(* messages about received items.  Between two awaits of a tick the game   *)
(* runs on, and at an await the connection may be lost and replaced.       *)
(*                                                                         *)
(* A grant is one body for all that is received, and pickup counters, the  *)
(* traps and DeathLink leave the tick alone (modules of their own).        *)
(***************************************************************************)
EXTENDS Integers, Sequences, FiniteSets, TLC

CONSTANTS
  Scripts,           \* the sessions explored: goal, scans, places, incoming items, how many
                     \* the save reflects; and bounds: connections lost, saves loaded, rooms walked to
  Traps,             \* TRAP_ITEM_NAMES
  NamesPerMessage    \* bound: names that fit HUD_MAX_CHARS

\* Where a player walks; the other places are where the goal takes him.
Rooms == {"hall", "waste", "vault"}

ASSUME ReportsAssumption ==
  /\ NamesPerMessage \in Nat \ {0}
  /\ \A s \in Scripts :
       /\ s.places \subseteq Rooms
       /\ Len(s.incoming) \in Nat /\ DOMAIN s.incoming = 1 .. Len(s.incoming)
       /\ s.reflected \in 0 .. Len(s.incoming)
       /\ s.losses \in Nat

Sets == INSTANCE FiniteSetsExt

VARIABLES
  script,
  (* the game *)
  place, marker, scanned,
  reflected,      \* received items the inventory reflects
  op,             \* the body the game is due to run
  (* the connection and the server *)
  link,           \* "up", "dying" (closed, not noticed) or "down"
  sending,        \* messages on their way
  items, known,   \* len(items_received), and of the server's list
  reported, hinted, stored,
  (* the client *)
  step, seen, listed,   \* the tick, its inventory, the scans it sends
  markerArmed, finished, sentScans, lastSent, announced, queue, cooled,
  (* history *)
  completed, told, shown, granted, losses, loads, walks,
  raced           \* a new connection came between a report and its record

gameVars   == <<script, place, marker, scanned, reflected, op>>
linkVars   == <<link, sending, items, known>>
serverVars == <<reported, hinted, stored>>
tickVars   == <<step, seen, listed>>
hudVars    == <<announced, queue, cooled>>
clientVars == <<markerArmed, finished, sentScans, lastSent, hudVars>>
bounds     == <<losses, loads, walks, raced>>
history    == <<completed, told, shown, granted>>
vars == <<gameVars, linkVars, serverVars, tickVars, clientVars, history, bounds>>

NoOp == -1   Hud == 0       \* op; a positive one grants that many items
Unread == -1                \* seen: the inventory could not be read
Unannounced == -1           \* last_announced_index is None
MarkerGoal == script.goal # "both_bosses"

\* current_mlvl, and with current_area_id; the warp's credits need not match.
At(mlvl, area) == [mlvl |-> mlvl, room |-> <<mlvl, area>>]
Nowhere == At("none", 0)
Reading(p) ==
  CASE p = "menu"       -> Nowhere
    [] p = "hall"       -> At("Temple Grounds", 1)
    [] p = "waste"      -> At("Agon Wastes", 1)
    [] p = "vault"      -> At("Agon Wastes", 2)
    [] p = "controller" -> At("Sky Temple", 1)
    [] p = "ending"     -> At("Temple Grounds", 20)
    [] p = "beyond"     -> At("Temple Grounds", 99)

\* What the player is told of item i, and from whom; start inventory, traps and
\* own pickups are not announced.
Item(i)       == script.incoming[i].item
Sender(i)     == IF script.incoming[i].from = "cheat" THEN "Archipelago" ELSE script.incoming[i].from
FirstNonStarting == Cardinality({i \in DOMAIN script.incoming : script.incoming[i].from = "start"})
Announceable(i)  == i > FirstNonStarting /\ Item(i) \notin Traps /\ Sender(i) # "own"
Lines == {<<Sender(i), Item(i)>> : i \in {j \in DOMAIN script.incoming : Announceable(j)}}
LineCount(line, from, to) ==
  Cardinality({i \in from .. to : Announceable(i) /\ <<Sender(i), Item(i)>> = line})

Init ==
  /\ script \in Scripts
  /\ place \in {"menu", "hall"} /\ marker \in (IF MarkerGoal THEN BOOLEAN ELSE {FALSE})
  /\ scanned = {} /\ reflected = script.reflected /\ op = NoOp
  /\ link = "down" /\ sending = <<>> /\ items = 0 /\ known = script.reflected
  /\ reported = FALSE /\ hinted = {} /\ stored = Nowhere
  /\ step = "sleep" /\ seen = Unread /\ listed = {}
  /\ markerArmed = FALSE /\ finished = FALSE /\ sentScans = {} /\ lastSent = Nowhere
  /\ announced = Unannounced /\ queue = <<>> /\ cooled = TRUE
  /\ completed = FALSE /\ told = [l \in Lines |-> 0] /\ shown = [l \in Lines |-> 0] /\ granted = 0
  /\ losses = 0 /\ loads = 0 /\ walks = 0 /\ raced = FALSE
-----------------------------------------------------------------------------
(* The game.                                                               *)

GameOnly == UNCHANGED <<linkVars, serverVars, tickVars, clientVars, told, shown, granted, losses, raced>>

Walk ==
  /\ place \in script.places /\ ~completed /\ walks < script.walks
  /\ walks' = walks + 1
  /\ place' \in script.places \ {place}
  /\ GameOnly /\ UNCHANGED <<script, marker, scanned, reflected, op, completed, loads>>

Scan(s) ==
  /\ place = "hall" /\ s \in script.scans \ scanned
  /\ scanned' = scanned \cup {s}
  /\ GameOnly /\ UNCHANGED <<script, place, marker, reflected, op, completed, loads, walks>>

\* The body is run once the game is in a world.
RunBody ==
  /\ op # NoOp /\ place # "menu"
  /\ reflected' = IF op > reflected THEN op ELSE reflected
  /\ op' = NoOp
  /\ GameOnly /\ UNCHANGED <<script, place, marker, scanned, completed, loads, walks>>

\* Samus beats the game, or the boss-skip goal's condition is met, and the warp
\* patch (external) writes the marker as it starts its warp.
Complete ==
  /\ place = "hall" /\ ~completed /\ script.scans = {} /\ script.incoming = <<>>
  /\ completed' = TRUE
  /\ place' = CASE script.goal = "both_bosses" -> "ending"
                [] script.goal = "keys"        -> "controller"
                [] OTHER                       -> "hall"
  /\ marker' = (marker \/ script.goal = "emperor_ing")
  /\ GameOnly /\ UNCHANGED <<script, scanned, reflected, op, loads, walks>>

Warping == completed /\ MarkerGoal /\ (place = "controller" \/ (place = "hall" /\ marker))

WarpToCredits ==
  /\ Warping
  /\ marker' = TRUE
  /\ place' \in {"ending", "beyond"}
  /\ GameOnly /\ UNCHANGED <<script, scanned, reflected, op, completed, loads, walks>>

\* The credits last longer than a tick.
LeaveWorld ==
  /\ place # "menu" /\ loads < script.loads
  /\ place \in {"ending", "beyond"} => finished \/ link = "down"
  /\ ~Warping
  /\ place' = "menu"
  /\ GameOnly /\ UNCHANGED <<script, marker, scanned, reflected, op, completed, loads, walks>>

\* An older save of this seed, from before the goal.
LoadSave ==
  /\ place = "menu" /\ loads < script.loads
  /\ place' = "hall" /\ marker' = FALSE /\ loads' = loads + 1
  /\ scanned' \in SUBSET scanned
  /\ reflected' \in 0 .. reflected
  /\ GameOnly /\ UNCHANGED <<script, op, completed, walks>>
-----------------------------------------------------------------------------
(* The connection.  Callbacks run while the tick awaits.                   *)

StatusUpdate == [cmd |-> "StatusUpdate"]
Awaiting == step \in {"sleep", "goal sent", "position sent", "hints sent"}

\* send_msgs drops what it gets on a closed socket.
Sent(message) == IF link = "up" THEN Append(sending, message) ELSE sending

Lose ==
  /\ link = "up" /\ losses < script.losses
  /\ link' = "dying" /\ sending' = <<>> /\ losses' = losses + 1
  /\ UNCHANGED <<gameVars, items, known, serverVars, tickVars, clientVars, history, loads, walks, raced>>

\* The framework resets the server state, items_received with it.
NoticeLoss ==
  /\ link = "dying" /\ Awaiting
  /\ link' = "down" /\ items' = 0
  /\ UNCHANGED <<gameVars, sending, known, serverVars, tickVars, clientVars, history, bounds>>

ConnectedKeepsSent ==   \* mutant: keeps sent_hint_scans
  /\ link = "down" /\ Awaiting
  /\ link' = "up"
  /\ sending' = IF finished THEN <<StatusUpdate>> ELSE <<>>
  /\ markerArmed' = FALSE /\ announced' = Unannounced /\ lastSent' = Nowhere
  /\ raced' = (raced \/ step \in {"goal sent", "hints sent"})
  /\ UNCHANGED <<gameVars, items, known, serverVars, tickVars, finished, sentScans, queue, cooled, history,
                 losses, loads, walks>>

\* The framework sends the status again if finished_game, then on_package.
Connected ==
  /\ link = "down" /\ Awaiting
  /\ link' = "up"
  /\ sending' = IF finished THEN <<StatusUpdate>> ELSE <<>>
  /\ markerArmed' = FALSE /\ announced' = Unannounced /\ sentScans' = {} /\ lastSent' = Nowhere
  /\ raced' = (raced \/ step \in {"goal sent", "hints sent"})
  /\ UNCHANGED <<gameVars, items, known, serverVars, tickVars, finished, queue, cooled, history, losses, loads, walks>>

\* The whole list after Connected, then what is new.
ItemsArrive ==
  /\ link = "up" /\ Awaiting
  /\ items' \in items + 1 .. Len(script.incoming) /\ items' >= known
  /\ known' = items'
  /\ UNCHANGED <<gameVars, link, sending, serverVars, tickVars, clientVars, history, bounds>>

\* "operation": "replace", of the keys a Set names.
Overwritten(old, new) == [f \in DOMAIN old |-> IF f \in DOMAIN new THEN new[f] ELSE old[f]]

Deliver ==
  /\ sending # <<>>
  /\ sending' = Tail(sending)
  /\ LET message == Head(sending)
     IN  /\ reported' = (reported \/ message.cmd = "StatusUpdate")
         /\ hinted' = IF message.cmd = "CreateHints" THEN hinted \cup message.scans ELSE hinted
         /\ stored' = IF message.cmd = "Set" THEN Overwritten(stored, message.position) ELSE stored
  /\ UNCHANGED <<gameVars, link, items, known, tickVars, clientVars, history, bounds>>
-----------------------------------------------------------------------------
(* Queued messages: what one sender's items say, or the goal.              *)

GoalMessage == [from |-> "goal", lines |-> <<>>, ready |-> TRUE]

QueueOnce(q, message) == IF \E k \in DOMAIN q : q[k] = message THEN q ELSE Append(q, message)

Named(message, item) ==
  [message EXCEPT !.lines = [x \in {item} \cup DOMAIN @ |-> IF x = item THEN 1 ELSE @[x]]]

\* queue_received_items: into the entry that names the item, else into the
\* sender's last one if it fits, else a new one.
QueueReceived(q, item, from) ==
  LET entries == {k \in DOMAIN q : q[k].from = from}
      naming  == {k \in entries : item \in DOMAIN q[k].lines}
  IN  IF naming # {} THEN [q EXCEPT ![Sets!Min(naming)].lines[item] = @ + 1]
      ELSE IF \E k \in entries : k = Sets!Max(entries) /\ Cardinality(DOMAIN q[k].lines) < NamesPerMessage
      THEN [q EXCEPT ![Sets!Max(entries)] = Named(@, item)]
      ELSE Append(q, Named([from |-> from, lines |-> <<>>, ready |-> FALSE], item))

Due == queue # <<>> /\ cooled /\ Head(queue).ready

\* RECEIVE_GROUP_WINDOW and message_duration.
GroupWindowEnds ==
  /\ \E k \in DOMAIN queue : ~queue[k].ready
  /\ queue' = [k \in DOMAIN queue |-> [queue[k] EXCEPT !.ready = TRUE]]
  /\ UNCHANGED <<gameVars, linkVars, serverVars, tickVars, markerArmed, finished, sentScans, lastSent,
                 announced, cooled, history, bounds>>

CoolDown ==
  /\ ~cooled
  /\ cooled' = TRUE
  /\ UNCHANGED <<gameVars, linkVars, serverVars, tickVars, markerArmed, finished, sentScans, lastSent,
                 announced, queue, history, bounds>>
-----------------------------------------------------------------------------
(* The tick.                                                               *)

TickOnly == UNCHANGED <<gameVars, link, items, known, serverVars, bounds>>

GoalReachedByMarker ==   \* mutant: a marker present on the first read counts
  \/ place = "ending"
  \/ script.goal = "keys" /\ place = "controller"
  \/ MarkerGoal /\ place # "menu" /\ marker

\* The area, or the marker after a read without it.
GoalReached ==
  \/ place = "ending"
  \/ script.goal = "keys" /\ place = "controller"
  \/ MarkerGoal /\ place # "menu" /\ marker /\ markerArmed

\* A tick reads the inventory, then checks the goal (_handle_check_goal).
CheckGoal ==
  /\ step = "sleep" /\ link # "down"
  /\ seen' = IF place = "menu" THEN Unread ELSE reflected
  /\ markerArmed' = (markerArmed \/ (~finished /\ MarkerGoal /\ place # "menu" /\ ~marker))
  /\ IF ~finished /\ GoalReached
     THEN step' = "goal sent" /\ sending' = Sent(StatusUpdate)
     ELSE step' = "guard" /\ UNCHANGED sending
  /\ TickOnly /\ UNCHANGED <<listed, finished, sentScans, lastSent, hudVars, history>>

GoalSent ==
  /\ step = "goal sent"
  /\ step' = "guard"
  /\ finished' = TRUE
  /\ queue' = QueueOnce(queue, GoalMessage)
  /\ TickOnly /\ UNCHANGED <<sending, seen, listed, markerArmed, sentScans, lastSent, announced, cooled, history>>

SkipTick ==
  /\ step = "guard" /\ (op # NoOp \/ seen = Unread)
  /\ step' = "sleep"
  /\ TickOnly /\ UNCHANGED <<sending, seen, listed, clientVars, history>>

Free == step = "guard" /\ op = NoOp /\ seen # Unread

ShownWith(message) ==
  [l \in Lines |-> shown[l] + (IF l[1] = message.from /\ l[2] \in DOMAIN message.lines
                               THEN message.lines[l[2]] ELSE 0)]

\* handle_notifications; it takes the body, and the tick ends.
ShowMessage ==
  /\ Free /\ Due
  /\ op' = Hud /\ shown' = ShownWith(Head(queue)) /\ queue' = Tail(queue) /\ cooled' = FALSE /\ step' = "sleep"
  /\ UNCHANGED <<script, place, marker, scanned, reflected, linkVars, serverVars, seen, listed, markerArmed,
                 finished, sentScans, lastSent, announced, completed, told, granted, bounds>>

\* plan_grants: some item that is not a trap is missing in the inventory read.
Missing == \E i \in seen + 1 .. items : Item(i) \notin Traps

LatestOf(a, b) == IF a < b THEN b ELSE a

AnnounceFromFirst ==   \* mutant: does not remember where the last announcement ended
  IF announced = Unannounced /\ ~Missing THEN items ELSE FirstNonStarting

\* Where _announce_received_items starts: on a connection's first sync, at the
\* end if the save has it all, else with everything that was not a start.
AnnounceFrom ==
  LatestOf(IF announced # Unannounced THEN announced ELSE IF Missing THEN 0 ELSE items, FirstNonStarting)

QueueItem(q, i) == IF Announceable(i) THEN QueueReceived(q, Item(i), Sender(i)) ELSE q

\* The queue after the items that follow one position, up to another.
QueueUpTo(q, from, to) ==
  LET grown[n \in 0 .. to] == IF n <= from THEN q ELSE QueueItem(grown[n - 1], n)
  IN  grown[to]

Announce(from) ==
  /\ announced' = items
  /\ queue' = QueueUpTo(queue, from, items)
  /\ told' = [l \in Lines |-> told[l] + LineCount(l, from + 1, items)]

\* _handle_grant_items.
GrantItems ==
  /\ Free /\ ~Due
  /\ step' = "position"
  /\ IF items = 0 THEN UNCHANGED <<announced, queue, told>> ELSE Announce(AnnounceFrom)
  /\ IF Missing THEN op' = items /\ granted' = LatestOf(granted, items) ELSE UNCHANGED <<op, granted>>
  /\ UNCHANGED <<script, place, marker, scanned, reflected, linkVars, serverVars, seen, listed, markerArmed,
                 finished, sentScans, lastSent, cooled, completed, shown, bounds>>

\* _send_mlvl_datastorage: what is sent is remembered before the await.
SendPosition ==
  /\ step = "position"
  /\ LET now     == Reading(place)
         changed == {f \in {"mlvl", "room"} : now[f] # lastSent[f]}
     IN  IF place = "menu" \/ link = "down" \/ changed = {}
         THEN step' = "hints" /\ UNCHANGED <<lastSent, sending>>
         ELSE /\ lastSent' = now
              /\ sending' = Sent([cmd |-> "Set", position |-> [f \in changed |-> now[f]]])
              /\ step' = "position sent"
  /\ TickOnly /\ UNCHANGED <<seen, listed, markerArmed, finished, sentScans, hudVars, history>>

PositionSent ==
  /\ step = "position sent"
  /\ step' = "hints"
  /\ TickOnly /\ UNCHANGED <<sending, seen, listed, clientVars, history>>

\* _handle_hint_scans, newly_completed_hints.
SendHints ==
  /\ step = "hints"
  /\ LET completedScans == IF place = "menu" THEN {} ELSE scanned \ sentScans
     IN  IF completedScans = {}
         THEN step' = "sleep" /\ UNCHANGED <<sending, listed>>
         ELSE /\ listed' = completedScans
              /\ sending' = Sent([cmd |-> "CreateHints", scans |-> completedScans])
              /\ step' = "hints sent"
  /\ TickOnly /\ UNCHANGED <<seen, clientVars, history>>

\* The set a Connected may have put in its place is the one that is updated.
HintsSent ==
  /\ step = "hints sent"
  /\ step' = "sleep"
  /\ sentScans' = sentScans \cup listed
  /\ listed' = {}
  /\ TickOnly /\ UNCHANGED <<sending, seen, markerArmed, finished, lastSent, hudVars, history>>

\* send_msgs raises on a connection that closes under it, and the tick ends.
SendRaises ==
  /\ step \in {"goal sent", "position sent", "hints sent"} /\ link # "up"
  /\ step' = "sleep" /\ listed' = {}
  /\ TickOnly /\ UNCHANGED <<sending, seen, clientVars, history>>
-----------------------------------------------------------------------------
Game == Walk \/ (\E s \in script.scans : Scan(s)) \/ RunBody \/ Complete \/ WarpToCredits \/ LeaveWorld \/ LoadSave
Callbacks == NoticeLoss \/ Connected \/ ItemsArrive
Link == Lose \/ Callbacks \/ Deliver
Tick == CheckGoal \/ GoalSent \/ SkipTick \/ ShowMessage \/ GrantItems
        \/ SendPosition \/ PositionSent \/ SendHints \/ HintsSent \/ SendRaises

TimePasses == GroupWindowEnds \/ CoolDown
Proceeds == Deliver \/ TimePasses \/ RunBody \/ WarpToCredits \/ LoadSave

Next == Game \/ Link \/ Tick \/ TimePasses

Spec == Init /\ [][Next]_vars
-----------------------------------------------------------------------------
(* Properties.                                                             *)

TypeOK ==
  /\ script \in Scripts /\ scanned \subseteq script.scans /\ hinted \subseteq script.scans
  /\ sentScans \subseteq script.scans /\ listed \subseteq script.scans
  /\ link \in {"up", "dying", "down"} /\ (link # "up" => sending = <<>>)
  /\ items \in 0 .. known /\ known \in 0 .. Len(script.incoming)
  /\ reflected \in 0 .. known /\ op \in NoOp .. known
  /\ announced \in Unannounced .. items \/ link = "down"
  /\ step \in {"sleep", "goal sent", "guard", "position", "position sent", "hints", "hints sent"}

\* client.py: "a stale marker in memory at connect time reports nothing": the
\* server is only told of a goal this session has seen happen.
GoalNotSpurious ==
  finished \/ reported \/ (\E k \in DOMAIN sending : sending[k] = StatusUpdate) => completed

(* What the client takes for said, and where it is. *)
OnTheWay == {sending[k] : k \in DOMAIN sending}
Setting(f) == {k \in DOMAIN sending : sending[k].cmd = "Set" /\ f \in DOMAIN sending[k].position}

GoalSaid  == finished => reported \/ StatusUpdate \in OnTheWay
ScansSaid ==
  sentScans \subseteq hinted \cup UNION {m.scans : m \in {x \in OnTheWay : x.cmd = "CreateHints"}}
PositionSaid ==
  lastSent # Nowhere =>
    \A f \in {"mlvl", "room"} :
      \/ Setting(f) = {} /\ stored[f] = lastSent[f]
      \/ \E k \in Setting(f) : sending[k].position[f] = lastSent[f] /\ \A j \in Setting(f) : j <= k

\* finished_game, sent_hint_scans, last_sent_mlvl and last_sent_area keep what was
\* sent from being sent again.  While a connection is up, all they hold is with the
\* server or on its way there, the last word on each half of the position last.
TakenForSaid == link = "up" => PositionSaid /\ (raced \/ (GoalSaid /\ ScansSaid))

\* What the server is told is true, and what the client takes for told is told.
ReportsTruthful == GoalNotSpurious /\ TakenForSaid

\* The credits went by while the client was not connected, or were told by a
\* marker alone that no read without it preceded.
Overlooked == place \in {"beyond", "menu", "hall"} /\ ~finished /\ ~(marker /\ markerArmed)

\* A goal the client could see is known to the server in the end, over lost
\* messages and connections.
GoalReported == <>[](completed => reported \/ Overlooked \/ raced)

\* A completed scan becomes a hint on the server, unless a load takes it back:
\* what sent_hint_scans remembers never outlives the connection it was sent on.
HintsReachServer == <>[](scanned \subseteq hinted \/ raced)

\* When the player stays in a room, the tracker's map follows there.
PositionConverges == <>[](stored = Reading(place))

Naming(q, l) == {k \in DOMAIN q : q[k].from = l[1] /\ l[2] \in DOMAIN q[k].lines}
InQueue(q, l) ==
  IF Naming(q, l) = {} THEN 0 ELSE q[CHOOSE k \in Naming(q, l) : TRUE].lines[l[2]]

\* Merging, packing and showing neither drop nor double a line: a line is in one
\* message at most, and has its copies there that were not shown yet.
QueueConserves ==
  \A l \in Lines : /\ \A j, k \in Naming(queue, l) : j = k
                   /\ told[l] = shown[l] + InQueue(queue, l)

\* An item is announced once per connection.
AnnouncedOnce == \A l \in Lines : told[l] <= (losses + 1) * LineCount(l, 1, Len(script.incoming))

\* _handle_grant_items: what this client granted, it has announced: only items
\* the save reflected at a connection's first sync are passed over.
NoSilentGrant == \A l \in Lines : told[l] >= LineCount(l, script.reflected + 1, granted)

\* What was granted is announced, in one connection once, and what was announced
\* is shown or waiting.
AnnouncedFaithfully == QueueConserves /\ AnnouncedOnce /\ NoSilentGrant

\* The HUD queue empties although the grants compete for the same body.
MessagesShown == <>[](queue = <<>>)

\* All a tick has to tell gets through in the end, over any number of lost
\* connections: the goal, the scans, the position, and to the player the queue.
ReportsArrive == GoalReported /\ HintsReachServer /\ PositionConverges /\ MessagesShown
=============================================================================
