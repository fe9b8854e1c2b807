---------------------------------- MODULE Gui ----------------------------------
(***************************************************************************)
(* The two views of the game in one browser page, the canvas of gui.js and *)
(* the table of debugview.js, and the room they share: startGame of        *)
(* game.js looks up a server and opens a socket, and either view may start *)
(* it again at any time.  The canvas is drawn by a ticker that stops for   *)
(* good when a frame throws (phina.js:3637), the table by an interval that *)
(* does not.                                                               *)
(***************************************************************************)
EXTENDS Integers, Sequences, FiniteSets, FiniteSetsExt

CONSTANTS ItemId,      \* items
          ShownIcons,  \* icons of an item that are drawn: 19
          MaxBuilt,    \* bound: copies of an item
          MaxStarts    \* bound: how often a game is started

GuiAssumption == ShownIcons \in Nat /\ MaxBuilt \in Nat /\ MaxStarts \in Nat

VARIABLES lookups,     \* requests for a room's server under way
          rooms,       \* the Room objects there have been
          room,        \* the current one, or NoRoom
          scene,       \* "opening" or "main"
          gui,         \* MainScene: what the canvas shows
          debug,       \* the table
          frozen,      \* a frame threw
          \* history
          overlap,     \* a game was started while another lookup was under way
          early        \* rooms in which something was bought before their first status
                       \* or without connection

game == <<lookups, rooms, room>>
history == <<overlap, early>>
guiVars == <<game, scene, gui, debug, frozen, history>>

NoRoom == 0
NoState == [i \in ItemId |-> [built |-> -1, sale |-> FALSE]]
Known(r) == r # NoRoom /\ rooms[r].state # NoState
Connected(r) == r # NoRoom /\ rooms[r].socket = "open"
NewRoom == [socket |-> "connecting", state |-> NoState, buying |-> FALSE, pending |-> FALSE]

\* An absent button has not been created yet; owned is a number and the room it is of.
Absent == [exists |-> FALSE, disabled |-> TRUE, owned |-> [room |-> NoRoom, n |-> 0]]
-----------------------------------------------------------------------------
(* game.js *)

\* Room.close: isOpen becomes false with onclose.
CloseSocket(rs, r) == IF r = NoRoom THEN rs ELSE [rs EXCEPT ![r].socket = "closed"]

\* startGame, n times in a row.
StartGame(n) ==
    /\ Len(rooms) + lookups + n <= MaxStarts
    /\ rooms' = CloseSocket(rooms, room)
    /\ room' = NoRoom
    /\ lookups' = lookups + n
    /\ overlap' = (overlap \/ lookups + n > 1)

\* The answer to the lookup: the room becomes the current one, whatever the current
\* one is.
LookupAnswered ==
    /\ lookups > 0 /\ lookups' = lookups - 1
    /\ rooms' = Append(rooms, NewRoom)
    /\ room' = Len(rooms) + 1
    /\ UNCHANGED <<scene, gui, debug, frozen, history>>
LookupFailed ==
    /\ lookups > 0 /\ lookups' = lookups - 1
    /\ UNCHANGED <<rooms, room, scene, gui, debug, frozen, history>>

OnOpen(r) ==
    /\ rooms[r].socket = "connecting"
    /\ rooms' = [rooms EXCEPT ![r].socket = "open"]
    /\ UNCHANGED <<lookups, room, scene, gui, debug, frozen, history>>
OnClose(r) ==
    /\ rooms[r].socket # "closed"
    /\ rooms' = [rooms EXCEPT ![r].socket = "closed"]
    /\ UNCHANGED <<lookups, room, scene, gui, debug, frozen, history>>

\* receiveData: copies are never lost.
OnStatus(r, state) ==
    /\ rooms[r].socket = "open"
    /\ state # rooms[r].state
    /\ \A i \in ItemId : state[i].built >= rooms[r].state[i].built
    /\ rooms' = [rooms EXCEPT ![r].state = state]
    /\ UNCHANGED <<lookups, room, scene, gui, debug, frozen, history>>

NotBuying(r) == ~ rooms[r].buying

\* Bug: an answer leaves buying set.
StillBuying(rm) == [rm EXCEPT !.pending = FALSE]

Delivered(rm) == [rm EXCEPT !.pending = FALSE, !.buying = FALSE]

OnAnswer(r) ==
    /\ rooms[r].socket = "open" /\ rooms[r].pending
    /\ rooms' = [rooms EXCEPT ![r] = Delivered(@)]
    /\ UNCHANGED <<lookups, room, scene, gui, debug, frozen, history>>

\* Room.buy: buying is set first; without a first status the request cannot be
\* built, which throws, without connection it is not sent.
Throws(r) == r # NoRoom /\ NotBuying(r) /\ ~ Known(r)
Buy ==
    IF room = NoRoom \/ ~ NotBuying(room) THEN UNCHANGED <<rooms, early>>
    ELSE LET sent == Known(room) /\ Connected(room)
         IN  /\ rooms' = [rooms EXCEPT ![room].buying = TRUE,
                                       ![room].pending = sent]
             /\ early' = IF sent THEN early ELSE early \cup {room}

\* GameState.update: what the views ask for.
Disabled(r, i) == rooms[r].buying \/ ~ rooms[r].state[i].sale
Built(r, i) == rooms[r].state[i].built
-----------------------------------------------------------------------------
(* gui.js *)

\* GO of OpeningScene, under one finger or two: the scene stops being shown, but
\* the pointers of the frame are still worked off.
Go(n) ==
    /\ scene = "opening" /\ ~ frozen
    /\ StartGame(n)
    /\ scene' = "main"
    /\ UNCHANGED <<gui, debug, frozen, early>>

\* Nought is not shown: the label keeps what it says.
Number(b, r, i) == IF Built(r, i) > 0 THEN [room |-> r, n |-> Built(r, i)] ELSE b.owned

Drawn(b, r, i) == 1 .. Min({ShownIcons, Number(b, r, i).n})

Remember(connected) == connected

\* MainScene.update, one frame: the message, then the buttons, then the icons.
Frame ==
    /\ scene = "main" /\ ~ frozen
    /\ gui' = [connected |-> Remember(Connected(room)),
               message |-> CASE gui.connected /\ ~ Connected(room) -> <<"ERROR">>
                             [] ~ gui.connected /\ Connected(room) -> Append(gui.message, "OK")
                             [] OTHER -> gui.message,
               name |-> IF Known(room) THEN room ELSE gui.name,
               buttons |-> IF ~ Known(room) THEN gui.buttons
                           ELSE [i \in ItemId |->
                                    [exists |-> TRUE, disabled |-> Disabled(room, i),
                                     owned |-> Number(gui.buttons[i], room, i)]],
               icons |-> IF ~ Known(room) THEN gui.icons
                         ELSE [i \in ItemId |->
                                  gui.icons[i] \cup Drawn(gui.buttons[i], room, i)]]
    /\ UNCHANGED <<game, scene, debug, frozen, history>>

\* A tap on the chair, in a frame: without a status it throws.
TapChair ==
    /\ scene = "main" /\ ~ frozen
    /\ ~ Known(room) /\ frozen' = TRUE
    /\ UNCHANGED <<game, scene, gui, debug, history>>

TapBuy(i) ==
    /\ scene = "main" /\ ~ frozen
    /\ gui.buttons[i].exists /\ ~ gui.buttons[i].disabled
    /\ frozen' = Throws(room)
    /\ Buy
    /\ UNCHANGED <<lookups, room, scene, gui, debug, overlap>>
-----------------------------------------------------------------------------
(* debugview.js *)

DebugGo == StartGame(1) /\ UNCHANGED <<scene, gui, debug, frozen, early>>

Active(r) == Connected(r)

\* ItemRow and its set
Row(r, i) == [exists |-> TRUE, owned |-> [room |-> r, n |-> Built(r, i)],
              disabled |-> Disabled(r, i) \/ ~ Active(r)]

\* The interval: without a status nothing changes.
DebugTick ==
    /\ Known(room)
    /\ debug' = [active |-> Active(room), rows |-> [i \in ItemId |-> Row(room, i)]]
    /\ UNCHANGED <<game, scene, gui, frozen, history>>

\* A click handler that throws stops nothing.
DebugBuy(i) ==
    /\ debug.rows[i].exists /\ ~ debug.rows[i].disabled
    /\ Buy
    /\ UNCHANGED <<lookups, room, scene, gui, debug, frozen, overlap>>
-----------------------------------------------------------------------------
GuiInit ==
    /\ lookups = 0 /\ rooms = <<>> /\ room = NoRoom
    /\ scene = "opening"
    /\ gui = [connected |-> FALSE, message |-> <<"Connecting">>, name |-> NoRoom,
              buttons |-> [i \in ItemId |-> Absent], icons |-> [i \in ItemId |-> {}]]
    /\ debug = [active |-> TRUE, rows |-> [i \in ItemId |-> Absent]]
    /\ frozen = FALSE /\ overlap = FALSE /\ early = {}

State == [ItemId -> [built : 0 .. MaxBuilt, sale : BOOLEAN]]

Network == \/ LookupAnswered \/ LookupFailed
           \/ \E r \in DOMAIN rooms : \/ OnOpen(r) \/ OnClose(r) \/ OnAnswer(r)
                                      \/ \E state \in State : OnStatus(r, state)
User == \/ \E n \in 1 .. 2 : Go(n)
        \/ TapChair \/ DebugGo
        \/ \E i \in ItemId : TapBuy(i) \/ DebugBuy(i)
GuiNext == Network \/ User \/ Frame \/ DebugTick

GuiSpec == GuiInit /\ [][GuiNext]_guiVars

-----------------------------------------------------------------------------
(* Properties *)

Button == [exists : BOOLEAN, disabled : BOOLEAN,
           owned : [room : 0 .. MaxStarts, n : 0 .. MaxBuilt]]
GuiTypeOK ==
    /\ lookups \in 0 .. MaxStarts /\ room \in 0 .. Len(rooms)
    /\ \A r \in DOMAIN rooms :
          /\ rooms[r].socket \in {"connecting", "open", "closed"}
          /\ rooms[r].state \in State \cup {NoState}
          /\ rooms[r].pending => rooms[r].buying
    /\ scene \in {"opening", "main"} /\ frozen \in BOOLEAN
    /\ gui.buttons \in [ItemId -> Button] /\ debug.rows \in [ItemId -> Button]
    /\ gui.name \in 0 .. Len(rooms) /\ gui.icons \in [ItemId -> SUBSET (1 .. ShownIcons)]
    /\ Tail(gui.message) \in {<<>>, <<"OK">>}

\* A page has one socket, that of the current room, unless a game was started while
\* the lookup of another was under way: the second answer then replaces the room of
\* the first without closing it (game.js:339).
OneSocket ==
    ~ overlap => \A r \in DOMAIN rooms : rooms[r].socket # "closed" => r = room

\* While nothing can be bought, a purchase was sent whose answer is to end that,
\* unless one was made before the room's first status or without a connection: then
\* the room never sells again (game.js:312).
BuyingHasRequest ==
    \A r \in DOMAIN rooms : rooms[r].buying => rooms[r].pending \/ r \in early

\* There is an icon on the canvas for every copy its number counts, as far as icons
\* are drawn, and no more, unless another room was shown before: its icons stay
\* (gui.js:346).
IconsMatch ==
    gui.name <= 1 => \A i \in ItemId : Cardinality(gui.icons[i]) = Min({ShownIcons, gui.buttons[i].owned.n})

\* What the page shows and allows belongs to its room, over lookups, rooms and lost
\* connections: one socket, an end to every purchase, an icon for every copy
\* (game.js:339, 312, gui.js:346).
PageFollowsRoom == GuiTypeOK /\ OneSocket /\ BuyingHasRequest /\ IconsMatch
=============================================================================
