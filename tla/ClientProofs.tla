----------------------------- MODULE ClientProofs -----------------------------
(***************************************************************************)
(* The clients of the game, and the pages of the portal's leaderboard.     *)
(* What a page of the game shows and allows belongs to its current room,   *)
(* for any number of items and games: one socket, an end to every          *)
(* purchase, an icon for every copy.  What doRequest of the benchmark's    *)
(* player returns is the answer to its own request, whichever of reader,   *)
(* callers and time-outs comes first, for any number of goroutines and     *)
(* requests.  A page of the leaderboard tells of its own team and of the   *)
(* others what the freeze allows, for any number of teams, results and     *)
(* pages under way at once.  What the library's input tells of keys,       *)
(* gamepads and touches adds up, for any number of them; what is dragged   *)
(* follows what grips it, and a pointer hits what the last picture shows   *)
(* (MCInput).                                                              *)
(***************************************************************************)
EXTENDS Gui, BenchClient, Leaderboard, MCInput, SequenceTheorems, FiniteSetTheorems,
        WellFoundedInduction, TLAPS

-----------------------------------------------------------------------------
(* The page: what holds of its rooms, its sockets, its canvas and the icons *)

RoomObject == [socket : {"connecting", "open", "closed"}, state : State \cup {NoState},
               buying : BOOLEAN, pending : BOOLEAN]

\* The current room is the last one there is; a purchase that blocks a room was sent, or was
\* made without a status or a connection.
RoomsInv ==
    /\ rooms \in Seq(RoomObject) /\ lookups \in Nat /\ Len(rooms) + lookups <= MaxStarts
    /\ room \in {NoRoom, Len(rooms)}
    /\ \A r \in 1 .. Len(rooms) : /\ rooms[r].pending => rooms[r].buying
                                  /\ rooms[r].buying => rooms[r].pending \/ r \in early

\* Unless lookups overlapped, a lookup is under way only while there is no room, and all
\* sockets but the room's are closed.
SocketInv ==
    /\ overlap \in BOOLEAN
    /\ ~ overlap => /\ lookups <= 1 /\ (lookups = 1 => room = NoRoom)
                    /\ \A r \in 1 .. Len(rooms) : rooms[r].socket # "closed" => r = room

Messages(connected) == IF connected THEN {<<"Connecting", "OK">>, <<"ERROR", "OK">>}
                       ELSE {<<"Connecting">>, <<"ERROR">>}
CanvasInv ==
    /\ scene \in {"opening", "main"} /\ frozen \in BOOLEAN
    /\ gui.connected \in BOOLEAN /\ gui.message \in Messages(gui.connected)
    /\ gui.name \in 0 .. Len(rooms)
    /\ gui.buttons \in [ItemId -> Button] /\ debug.rows \in [ItemId -> Button]
    /\ gui.icons \in [ItemId -> SUBSET (1 .. ShownIcons)]

\* As long as only the first room was shown: icons are drawn from the first on, and the number
\* beside them is nought, or what a status of that room said.
IconsInv ==
    gui.name <= 1 =>
        \A i \in ItemId :
           LET n == gui.buttons[i].owned.n
           IN  /\ gui.icons[i] = {k \in 1 .. ShownIcons : k <= n}
               /\ gui.name = 0 => n = 0
               /\ gui.name = 1 => n <= 0 \/ n <= rooms[1].state[i].built

GuiInv == RoomsInv /\ SocketInv /\ CanvasInv /\ IconsInv

-----------------------------------------------------------------------------
(* What the actions do to the list of rooms *)

\* One room of the list is replaced.
LEMMA RoomReplaced ==
  ASSUME rooms \in Seq(RoomObject), NEW r \in 1 .. Len(rooms), NEW rm \in RoomObject,
         rooms' = [rooms EXCEPT ![r] = rm]
  PROVE  /\ rooms' \in Seq(RoomObject) /\ Len(rooms') = Len(rooms)
         /\ rooms'[r] = rm
         /\ \A q \in 1 .. Len(rooms) : q # r => rooms'[q] = rooms[q]
<1> QED BY ExceptSeq

\* What a status says, or the absence of one, is a number of copies for every item.
LEMMA StateTyped ==
  ASSUME GuiAssumption, NEW state \in State \cup {NoState}, NEW i \in ItemId
  PROVE  state[i].built \in Int
<1>1. CASE state \in State
  <2>1. state[i] \in [built : 0 .. MaxBuilt, sale : BOOLEAN]
    BY <1>1 DEF State
  <2> QED BY <2>1
<1>2. CASE state = NoState
  <2>1. state[i] = [built |-> -1, sale |-> FALSE]
    BY <1>2 DEF NoState
  <2>2. state[i].built = -1
    BY <2>1
  <2> QED BY <2>2
<1> QED BY <1>1, <1>2

LEMMA RoomTyped ==
  ASSUME RoomsInv, NEW r \in 1 .. Len(rooms)
  PROVE  /\ rooms[r] \in RoomObject /\ rooms[r].state \in State \cup {NoState}
         /\ rooms[r].buying \in BOOLEAN /\ rooms[r].pending \in BOOLEAN
         /\ rooms[r].socket \in {"connecting", "open", "closed"}
<1>1. rooms[r] \in RoomObject
  BY ElementOfSeq DEF RoomsInv
<1> QED BY <1>1 DEF RoomObject

\* The numbers of copies in rooms only grow.
Grown(q) == \A i \in ItemId : rooms'[q].state[i].built >= rooms[q].state[i].built

\* What happens in one room: nothing is sent without blocking it, it is blocked by what was
\* sent or by what is in early, its socket opens again at most if it was not closed.
LEMMA RoomStep ==
  ASSUME GuiAssumption, RoomsInv, SocketInv, UNCHANGED <<lookups, room, overlap>>,
         NEW r \in 1 .. Len(rooms), NEW rm \in RoomObject, rooms' = [rooms EXCEPT ![r] = rm],
         early \subseteq early', rm.pending => rm.buying, rm.buying => rm.pending \/ r \in early',
         rm.socket # "closed" => rooms[r].socket # "closed",
         \A i \in ItemId : rm.state[i].built >= rooms[r].state[i].built
  PROVE  /\ RoomsInv' /\ SocketInv' /\ Len(rooms') = Len(rooms)
         /\ \A q \in 1 .. Len(rooms) : Grown(q)
<1>1. /\ rooms' \in Seq(RoomObject) /\ Len(rooms') = Len(rooms) /\ rooms'[r] = rm
      /\ \A q \in 1 .. Len(rooms) : q # r => rooms'[q] = rooms[q]
  BY RoomReplaced DEF RoomsInv
<1>2. \A q \in 1 .. Len(rooms) : rooms[q].state \in State \cup {NoState}
  BY RoomTyped
<1>3. \A q \in 1 .. Len(rooms) : Grown(q)
  <2> SUFFICES ASSUME NEW q \in 1 .. Len(rooms), NEW i \in ItemId
               PROVE  rooms'[q].state[i].built >= rooms[q].state[i].built
    BY DEF Grown
  <2>1. rooms[q].state[i].built \in Int
    BY <1>2, StateTyped
  <2> QED BY <1>1, <2>1
<1>4. RoomsInv'
  BY <1>1 DEF RoomsInv
<1>5. SocketInv'
  BY <1>1 DEF SocketInv
<1> QED BY <1>1, <1>3, <1>4, <1>5

\* startGame: the room that was current is closed.
LEMMA StartStep ==
  ASSUME GuiAssumption, RoomsInv, SocketInv, NEW n \in 1 .. 2, StartGame(n), UNCHANGED early
  PROVE  /\ RoomsInv' /\ SocketInv' /\ Len(rooms') = Len(rooms)
         /\ \A q \in 1 .. Len(rooms) : Grown(q)
<1>1. CASE room = NoRoom
  <2>1. rooms' = rooms /\ room' = NoRoom /\ lookups' = lookups + n
    BY <1>1 DEF StartGame, CloseSocket
  <2>2. \A q \in 1 .. Len(rooms) : rooms[q].state \in State \cup {NoState}
    BY RoomTyped
  <2>3. \A q \in 1 .. Len(rooms) : Grown(q)
    BY <2>1, <2>2, StateTyped DEF Grown
  <2>4. RoomsInv'
    BY <2>1 DEF RoomsInv, StartGame
  <2>5. SocketInv'
    <3>1. overlap' \in BOOLEAN
      BY DEF SocketInv, StartGame
    <3>2. ASSUME ~ overlap'
          PROVE  /\ lookups' <= 1 /\ room' = NoRoom
                 /\ \A r \in 1 .. Len(rooms') : rooms'[r].socket # "closed" => r = room'
      <4>1. ~ overlap /\ ~ (lookups + n > 1)
        BY <3>2 DEF StartGame
      <4>2. lookups' <= 1
        BY <2>1, <4>1 DEF RoomsInv
      <4> QED BY <1>1, <2>1, <4>1, <4>2 DEF SocketInv
    <3> QED BY <3>1, <3>2 DEF SocketInv
  <2> QED BY <2>1, <2>3, <2>4, <2>5
<1>2. CASE room # NoRoom
  <2> DEFINE rm == [rooms[room] EXCEPT !.socket = "closed"]
  <2>1. room \in 1 .. Len(rooms) /\ rooms[room] \in RoomObject
    BY <1>2 DEF RoomsInv, NoRoom
  <2>2. rooms' = [rooms EXCEPT ![room] = rm] /\ room' = NoRoom /\ lookups' = lookups + n
    BY <1>2 DEF StartGame, CloseSocket
  <2>3. rm \in RoomObject /\ rm.socket = "closed"
    BY <2>1 DEF RoomObject
  <2>4. /\ rm.state = rooms[room].state /\ rm.pending = rooms[room].pending
        /\ rm.buying = rooms[room].buying
    BY <2>1 DEF RoomObject
  <2> HIDE DEF rm
  <2>5. /\ rooms' \in Seq(RoomObject) /\ Len(rooms') = Len(rooms) /\ rooms'[room] = rm
        /\ \A q \in 1 .. Len(rooms) : q # room => rooms'[q] = rooms[q]
    BY <2>1, <2>2, <2>3, RoomReplaced DEF RoomsInv
  <2>6. \A q \in 1 .. Len(rooms) : rooms[q].state \in State \cup {NoState}
    BY RoomTyped
  <2>7. \A q \in 1 .. Len(rooms) : Grown(q)
    <3> SUFFICES ASSUME NEW q \in 1 .. Len(rooms), NEW i \in ItemId
                 PROVE  rooms'[q].state[i].built >= rooms[q].state[i].built
      BY DEF Grown
    <3>1. rooms'[q].state = rooms[q].state
      BY <2>4, <2>5
    <3> QED BY <2>6, <3>1, StateTyped
  <2>8. RoomsInv'
    BY <2>1, <2>2, <2>4, <2>5 DEF RoomsInv, StartGame
  <2>9. SocketInv'
    <3>1. overlap' \in BOOLEAN
      BY DEF SocketInv, StartGame
    <3>2. ASSUME ~ overlap', NEW r \in 1 .. Len(rooms'), rooms'[r].socket # "closed"
          PROVE  FALSE
      <4>1. ~ overlap
        BY <3>2 DEF StartGame, SocketInv
      <4>2. CASE r = room
        BY <2>3, <2>5, <3>2, <4>2
      <4>3. CASE r # room
        BY <2>5, <3>2, <4>1, <4>3 DEF SocketInv
      <4> QED BY <4>2, <4>3
    <3>3. ASSUME ~ overlap' PROVE lookups' <= 1
      <4>1. ~ (lookups + n > 1)
        BY <3>3 DEF StartGame
      <4> QED BY <2>2, <4>1 DEF RoomsInv
    <3> QED BY <2>2, <3>1, <3>2, <3>3 DEF SocketInv
  <2> QED BY <2>5, <2>7, <2>8, <2>9
<1> QED BY <1>1, <1>2

\* The answer to a lookup: the room becomes the current one.
LEMMA LookupStep ==
  ASSUME GuiAssumption, RoomsInv, SocketInv, LookupAnswered
  PROVE  /\ RoomsInv' /\ SocketInv' /\ Len(rooms') = Len(rooms) + 1
         /\ \A q \in 1 .. Len(rooms) : Grown(q)
<1>1. NewRoom \in RoomObject
  BY DEF NewRoom, RoomObject
<1>2. /\ rooms' \in Seq(RoomObject) /\ Len(rooms') = Len(rooms) + 1
      /\ rooms'[Len(rooms) + 1] = NewRoom
      /\ \A q \in 1 .. Len(rooms) : rooms'[q] = rooms[q]
  BY <1>1, AppendProperties DEF LookupAnswered, RoomsInv
<1>3. \A q \in 1 .. Len(rooms) : rooms[q].state \in State \cup {NoState}
  BY RoomTyped
<1>4. \A q \in 1 .. Len(rooms) : Grown(q)
  BY <1>2, <1>3, StateTyped DEF Grown
<1>5. \A q \in 1 .. Len(rooms') : q \in 1 .. Len(rooms) \/ q = Len(rooms) + 1
  BY <1>2 DEF RoomsInv
<1>6. RoomsInv'
  BY <1>2, <1>5 DEF LookupAnswered, history, RoomsInv, NewRoom
<1>7. SocketInv'
  BY <1>2, <1>5 DEF LookupAnswered, history, RoomsInv, SocketInv, NoRoom
<1> QED BY <1>2, <1>4, <1>6, <1>7

-----------------------------------------------------------------------------
(* The views *)

\* What is shown stays true while rooms grow.
LEMMA ViewsKept ==
  ASSUME GuiAssumption, GuiInv, RoomsInv', UNCHANGED <<gui, debug>>,
         scene' \in {"opening", "main"}, frozen' \in BOOLEAN, Len(rooms') >= Len(rooms),
         \A q \in 1 .. Len(rooms) : Grown(q)
  PROVE  CanvasInv' /\ IconsInv'
<1>1. Len(rooms) \in Nat /\ Len(rooms') \in Nat
  BY DEF GuiInv, RoomsInv
<1>2. CanvasInv'
  BY <1>1 DEF GuiInv, CanvasInv
<1>3. ASSUME gui.name <= 1, NEW i \in ItemId
      PROVE  LET n == gui.buttons[i].owned.n
             IN  /\ gui.icons[i] = {k \in 1 .. ShownIcons : k <= n}
                 /\ gui.name = 0 => n = 0
                 /\ gui.name = 1 => n <= 0 \/ n <= rooms'[1].state[i].built
  <2> DEFINE n == gui.buttons[i].owned.n
  <2>1. /\ gui.icons[i] = {k \in 1 .. ShownIcons : k <= n}
        /\ gui.name = 0 => n = 0
        /\ gui.name = 1 => n <= 0 \/ n <= rooms[1].state[i].built
    BY <1>3 DEF GuiInv, IconsInv
  <2>2. gui.buttons[i] \in Button
    BY DEF GuiInv, CanvasInv
  <2>3. n \in Int
    BY <2>2 DEF Button, GuiAssumption
  <2>4. gui.name = 1 => n <= 0 \/ n <= rooms'[1].state[i].built
    <3> SUFFICES ASSUME gui.name = 1 PROVE n <= 0 \/ n <= rooms'[1].state[i].built
      OBVIOUS
    <3>1. 1 \in 1 .. Len(rooms)
      BY <1>1 DEF GuiInv, CanvasInv
    <3>2. /\ rooms[1].state \in State \cup {NoState}
          /\ rooms'[1].state \in State \cup {NoState}
      <4>1. rooms[1].state \in State \cup {NoState}
        BY <3>1, RoomTyped DEF GuiInv
      <4>2. 1 \in 1 .. Len(rooms')
        BY <1>1, <3>1
      <4>3. rooms' \in Seq(RoomObject)
        BY DEF RoomsInv
      <4>4. rooms'[1] \in RoomObject
        BY <4>2, <4>3, ElementOfSeq
      <4> QED BY <4>1, <4>4 DEF RoomObject
    <3>3. rooms[1].state[i].built \in Int /\ rooms'[1].state[i].built \in Int
      BY <3>2, StateTyped
    <3>4. rooms'[1].state[i].built >= rooms[1].state[i].built
      BY <3>1 DEF Grown
    <3> QED BY <2>1, <2>3, <3>3, <3>4
  <2> QED BY <2>1, <2>4
<1> QED BY <1>2, <1>3 DEF IconsInv

LEMMA MinOfTwo ==
  ASSUME NEW a \in Int, NEW b \in Int PROVE Min({a, b}) = IF a <= b THEN a ELSE b
<1> DEFINE m == IF a <= b THEN a ELSE b
<1>1. m \in {a, b} /\ \A y \in {a, b} : m <= y
  OBVIOUS
<1>2. \A x \in {a, b} : (\A y \in {a, b} : x <= y) => x = m
  OBVIOUS
<1> QED BY <1>1, <1>2 DEF Min

LEMMA AppendToOne == ASSUME NEW a, NEW b PROVE Append(<<a>>, b) = <<a, b>>
<1>1. <<a>> \in Seq({a, b}) /\ <<a, b>> \in Seq({a, b}) /\ Append(<<a>>, b) \in Seq({a, b})
  OBVIOUS
<1>2. Len(Append(<<a>>, b)) = 2 /\ Len(<<a, b>>) = 2
  OBVIOUS
<1>3. /\ Append(<<a>>, b)[1] = a /\ Append(<<a>>, b)[2] = b
      /\ <<a, b>>[1] = a /\ <<a, b>>[2] = b
  OBVIOUS
<1> DEFINE s == Append(<<a>>, b)
           t == <<a, b>>
<1>4. \A i \in 1 .. Len(s) : s[i] = t[i]
  BY <1>2, <1>3
<1> HIDE DEF s, t
<1> QED BY <1>1, <1>2, <1>4, SeqEqual DEF s, t

LEMMA TailOfTwo == ASSUME NEW a, NEW b PROVE Tail(<<a>>) = <<>> /\ Tail(<<a, b>>) = <<b>>
<1>1. <<>> \in Seq({a, b}) /\ <<b>> \in Seq({a, b}) /\ Tail(<<a>>) \in Seq({a, b}) /\ Tail(<<a, b>>) \in Seq({a, b})
  OBVIOUS
<1>2. Len(Tail(<<a>>)) = 0 /\ Len(Tail(<<a, b>>)) = 1 /\ Tail(<<a, b>>)[1] = b
  OBVIOUS
<1> QED BY <1>1, <1>2

\* One frame of the canvas: the number beside an icon, and the icons, follow the current room.
LEMMA FrameStep == ASSUME GuiAssumption, GuiInv, Frame PROVE CanvasInv' /\ IconsInv'
<1>1. /\ Len(rooms) \in Nat /\ rooms' = rooms /\ room' = room /\ room \in 0 .. Len(rooms)
      /\ Len(rooms) <= MaxStarts
  <2>1. rooms' = rooms /\ room' = room
    BY DEF Frame, game
  <2>2. /\ Len(rooms) \in Nat /\ room \in {0, Len(rooms)} /\ lookups \in Nat
        /\ Len(rooms) + lookups <= MaxStarts
    BY DEF GuiInv, RoomsInv, NoRoom
  <2> QED BY <2>1, <2>2 DEF GuiAssumption
<1>2. gui'.connected \in BOOLEAN /\ gui'.message \in Messages(gui'.connected)
  <2>1. gui'.connected = Connected(room)
    BY DEF Frame, Remember
  <2>2. Connected(room) \in BOOLEAN /\ gui.connected \in BOOLEAN
    BY DEF Connected, GuiInv, CanvasInv
  <2>3. CASE gui.connected /\ ~ Connected(room)
    <3>1. gui'.message = <<"ERROR">>
      BY <2>3 DEF Frame
    <3>2. gui'.connected = FALSE
      BY <2>1, <2>2, <2>3
    <3> QED BY <3>1, <3>2 DEF Messages
  <2>4. CASE ~ gui.connected /\ Connected(room)
    <3>1. gui'.message = Append(gui.message, "OK")
      BY <2>4 DEF Frame
    <3>2. gui.message = <<"Connecting">> \/ gui.message = <<"ERROR">>
      BY <2>4 DEF GuiInv, CanvasInv, Messages
    <3>3. /\ Append(<<"Connecting">>, "OK") = <<"Connecting", "OK">>
          /\ Append(<<"ERROR">>, "OK") = <<"ERROR", "OK">>
      BY AppendToOne
    <3>4. gui'.message = <<"Connecting", "OK">> \/ gui'.message = <<"ERROR", "OK">>
      BY <3>1, <3>2, <3>3
    <3>5. gui'.connected = TRUE
      BY <2>1, <2>2, <2>4
    <3> QED BY <3>4, <3>5 DEF Messages
  <2>5. CASE gui.connected <=> Connected(room)
    <3>1. gui'.message = gui.message
      BY <2>2, <2>5 DEF Frame
    <3> QED BY <2>1, <2>2, <2>5, <3>1 DEF GuiInv, CanvasInv, Messages
  <2> QED BY <2>2, <2>3, <2>4, <2>5
<1>3. CASE ~ Known(room)
  <2>1. /\ gui'.name = gui.name /\ gui'.buttons = gui.buttons /\ gui'.icons = gui.icons
        /\ UNCHANGED <<scene, debug, frozen>>
    BY <1>3 DEF Frame
  <2>2. CanvasInv'
    BY <1>1, <1>2, <2>1 DEF CanvasInv, GuiInv
  <2>3. IconsInv'
    BY <1>1, <2>1 DEF IconsInv, GuiInv
  <2> QED BY <2>2, <2>3
<1>4. CASE Known(room)
  <2>1. /\ gui'.name = room /\ UNCHANGED <<scene, debug, frozen>>
        /\ gui'.buttons = [i \in ItemId |-> [exists |-> TRUE, disabled |-> Disabled(room, i),
                                             owned |-> Number(gui.buttons[i], room, i)]]
        /\ gui'.icons = [i \in ItemId |-> gui.icons[i] \cup Drawn(gui.buttons[i], room, i)]
    BY <1>4 DEF Frame
  <2>2. room \in 1 .. Len(rooms) /\ rooms[room].state \in State
    <3>1. room \in 1 .. Len(rooms) /\ rooms[room].state # NoState
      BY <1>1, <1>4 DEF Known, NoRoom
    <3> QED BY <3>1, RoomTyped DEF GuiInv
  <2>3. ASSUME NEW i \in ItemId
        PROVE  LET owned == Number(gui.buttons[i], room, i)
               IN  /\ owned \in [room : 0 .. MaxStarts, n : 0 .. MaxBuilt]
                   /\ \/ owned = gui.buttons[i].owned /\ Built(room, i) <= 0
                      \/ owned.n = Built(room, i) /\ owned.n > 0
                   /\ Built(room, i) \in Nat
                   /\ gui.buttons[i].owned.n \in Nat
    <3>1. rooms[room].state[i] \in [built : 0 .. MaxBuilt, sale : BOOLEAN]
      BY <2>2 DEF State
    <3>2. Built(room, i) \in 0 .. MaxBuilt
      BY <3>1 DEF Built
    <3>3. gui.buttons[i] \in Button
      BY DEF GuiInv, CanvasInv
    <3>4. gui.buttons[i].owned \in [room : 0 .. MaxStarts, n : 0 .. MaxBuilt]
      BY <3>3 DEF Button
    <3>5. gui.buttons[i].owned.n \in Nat
      BY <3>4 DEF GuiAssumption
    <3>6. CASE Built(room, i) > 0
      <4>1. Number(gui.buttons[i], room, i) = [room |-> room, n |-> Built(room, i)]
        BY <3>6 DEF Number
      <4>2. room \in 0 .. MaxStarts
        BY <1>1, <2>2 DEF GuiAssumption
      <4> QED BY <3>2, <3>5, <3>6, <4>1, <4>2 DEF GuiAssumption
    <3>7. CASE ~ (Built(room, i) > 0)
      <4>1. Number(gui.buttons[i], room, i) = gui.buttons[i].owned
        BY <3>7 DEF Number
      <4> QED BY <3>2, <3>4, <3>5, <3>7, <4>1 DEF GuiAssumption
    <3> QED BY <3>6, <3>7
  <2>4. ASSUME NEW i \in ItemId
        PROVE  LET n == Number(gui.buttons[i], room, i).n
               IN  Drawn(gui.buttons[i], room, i) = {k \in 1 .. ShownIcons : k <= n}
    <3> DEFINE n == Number(gui.buttons[i], room, i).n
    <3>1. n \in Nat
      BY <2>3 DEF GuiAssumption
    <3>2. Min({ShownIcons, n}) = IF ShownIcons <= n THEN ShownIcons ELSE n
      <4> HIDE DEF n
      <4> QED BY <3>1, MinOfTwo DEF GuiAssumption
    <3>3. Drawn(gui.buttons[i], room, i) = 1 .. Min({ShownIcons, n})
      BY DEF Drawn
    <3> HIDE DEF n
    <3>4. 1 .. Min({ShownIcons, n}) = {k \in 1 .. ShownIcons : k <= n}
      BY <3>1, <3>2 DEF GuiAssumption
    <3> QED BY <3>3, <3>4 DEF n
  <2>5. CanvasInv'
    <3>1. gui'.buttons \in [ItemId -> Button]
      <4> SUFFICES ASSUME NEW i \in ItemId
                   PROVE  [exists |-> TRUE, disabled |-> Disabled(room, i),
                           owned |-> Number(gui.buttons[i], room, i)] \in Button
        BY <2>1
      <4>1. Disabled(room, i) \in BOOLEAN
        BY DEF Disabled
      <4> QED BY <2>3, <4>1 DEF Button
    <3>2. gui'.icons \in [ItemId -> SUBSET (1 .. ShownIcons)]
      <4> SUFFICES ASSUME NEW i \in ItemId
                   PROVE  gui.icons[i] \cup Drawn(gui.buttons[i], room, i) \subseteq 1 .. ShownIcons
        BY <2>1
      <4> QED BY <2>4 DEF GuiInv, CanvasInv
    <3> QED BY <1>1, <1>2, <2>1, <3>1, <3>2 DEF CanvasInv, GuiInv
  <2>6. IconsInv'
    <3> SUFFICES ASSUME room <= 1, NEW i \in ItemId
                 PROVE  LET n == gui'.buttons[i].owned.n
                        IN  /\ gui'.icons[i] = {k \in 1 .. ShownIcons : k <= n}
                            /\ n <= 0 \/ n <= rooms[1].state[i].built
      BY <1>1, <2>1, <2>2 DEF IconsInv
    <3> DEFINE n == gui.buttons[i].owned.n
               m == Number(gui.buttons[i], room, i).n
    <3>1. room = 1 /\ gui.name <= 1 /\ gui.name \in {0, 1}
      <4>1. room = 1 /\ Len(rooms) = 1
        <5>1. room \in {0, Len(rooms)}
          BY DEF GuiInv, RoomsInv, NoRoom
        <5>2. room = 0 \/ room = Len(rooms)
          BY <5>1
        <5>3. room = 1
          BY <1>1, <2>2
        <5> QED BY <5>2, <5>3
      <4> QED BY <4>1 DEF GuiInv, CanvasInv
    <3>2. /\ gui.icons[i] = {k \in 1 .. ShownIcons : k <= n}
          /\ gui.name = 0 => n = 0
          /\ gui.name = 1 => n <= 0 \/ n <= Built(room, i)
      BY <3>1 DEF GuiInv, IconsInv, Built
    <3>3. /\ gui'.buttons[i].owned.n = m
          /\ gui'.icons[i] = {k \in 1 .. ShownIcons : k <= n} \cup {k \in 1 .. ShownIcons : k <= m}
      BY <2>1, <2>4, <3>2
    <3>4. n \in Nat /\ m \in Nat /\ Built(room, i) \in Nat /\ n <= m /\ (m <= 0 \/ m <= Built(room, i))
      BY <2>3, <3>1, <3>2
    <3> HIDE DEF n, m
    <3>5. {k \in 1 .. ShownIcons : k <= n} \cup {k \in 1 .. ShownIcons : k <= m} = {k \in 1 .. ShownIcons : k <= m}
      BY <3>4 DEF GuiAssumption
    <3> QED BY <3>1, <3>3, <3>4, <3>5 DEF Built
  <2> QED BY <2>5, <2>6
<1> QED BY <1>3, <1>4

-----------------------------------------------------------------------------
(* The steps *)

\* Nothing happens to the rooms.
LEMMA RoomsSame ==
  ASSUME GuiAssumption, RoomsInv, SocketInv, UNCHANGED <<rooms, room, overlap, early>>,
         lookups' \in Nat, lookups' <= lookups
  PROVE  /\ RoomsInv' /\ SocketInv' /\ Len(rooms') = Len(rooms)
         /\ \A q \in 1 .. Len(rooms) : Grown(q)
<1>1. Len(rooms) \in Nat
  BY DEF RoomsInv
<1>2. RoomsInv'
  BY <1>1 DEF RoomsInv, GuiAssumption
<1>3. SocketInv'
  <2>1. overlap' \in BOOLEAN
    BY DEF SocketInv
  <2>2. ASSUME ~ overlap' PROVE lookups' <= 1 /\ (lookups' = 1 => room' = NoRoom)
    <3>1. ~ overlap
      BY <2>2
    <3>2. lookups <= 1 /\ (lookups = 1 => room = NoRoom)
      BY <3>1 DEF SocketInv
    <3> QED BY <3>2 DEF RoomsInv
  <2>3. ASSUME ~ overlap' PROVE \A r \in 1 .. Len(rooms') : rooms'[r].socket # "closed" => r = room'
    BY <2>3 DEF SocketInv
  <2> QED BY <2>1, <2>2, <2>3 DEF SocketInv
<1>4. \A q \in 1 .. Len(rooms) : Grown(q)
  BY RoomTyped, StateTyped DEF Grown
<1> QED BY <1>2, <1>3, <1>4

\* What a socket brings: it opens, it closes, a status, an answer.
LEMMA SocketStep ==
  ASSUME GuiAssumption, RoomsInv, SocketInv, NEW r \in 1 .. Len(rooms),
         OnOpen(r) \/ OnClose(r) \/ OnAnswer(r) \/ (\E state \in State : OnStatus(r, state))
  PROVE  /\ RoomsInv' /\ SocketInv' /\ Len(rooms') = Len(rooms)
         /\ \A q \in 1 .. Len(rooms) : Grown(q)
<1>1. /\ rooms[r] \in RoomObject /\ rooms[r].state \in State \cup {NoState}
      /\ rooms[r].buying \in BOOLEAN /\ rooms[r].pending \in BOOLEAN
      /\ rooms[r].pending => rooms[r].buying
      /\ rooms[r].buying => rooms[r].pending \/ r \in early
  BY RoomTyped DEF RoomsInv
<1>2. \A i \in ItemId : rooms[r].state[i].built >= rooms[r].state[i].built
  BY <1>1, StateTyped
<1>3. UNCHANGED <<lookups, room, overlap, early>> \/ UNCHANGED <<lookups, room, history>>
  BY DEF OnOpen, OnClose, OnAnswer, OnStatus
<1>4. UNCHANGED <<lookups, room, overlap>> /\ early' = early
  BY <1>3 DEF history
<1>5. PICK rm \in RoomObject :
         /\ rooms' = [rooms EXCEPT ![r] = rm] /\ (rm.socket # "closed" => rooms[r].socket # "closed")
         /\ (rm.pending => rm.buying) /\ (rm.buying => rm.pending \/ r \in early)
         /\ \A i \in ItemId : rm.state[i].built >= rooms[r].state[i].built
  <2>1. CASE OnOpen(r)
    <3> DEFINE rm == [rooms[r] EXCEPT !.socket = "open"]
    <3>1. /\ rm \in RoomObject /\ rm.state = rooms[r].state /\ rm.pending = rooms[r].pending
          /\ rm.buying = rooms[r].buying
      BY <1>1 DEF RoomObject
    <3>2. rooms' = [rooms EXCEPT ![r] = rm] /\ rooms[r].socket # "closed"
      BY <2>1 DEF OnOpen
    <3> HIDE DEF rm
    <3> QED BY <1>1, <1>2, <3>1, <3>2
  <2>2. CASE OnClose(r)
    <3> DEFINE rm == [rooms[r] EXCEPT !.socket = "closed"]
    <3>1. /\ rm \in RoomObject /\ rm.state = rooms[r].state /\ rm.pending = rooms[r].pending
          /\ rm.buying = rooms[r].buying
      BY <1>1 DEF RoomObject
    <3>2. rooms' = [rooms EXCEPT ![r] = rm] /\ rooms[r].socket # "closed"
      BY <2>2 DEF OnClose
    <3> HIDE DEF rm
    <3> QED BY <1>1, <1>2, <3>1, <3>2
  <2>3. CASE OnAnswer(r)
    <3> DEFINE rm == [rooms[r] EXCEPT !.pending = FALSE, !.buying = FALSE]
    <3>1. /\ rm \in RoomObject /\ rm.state = rooms[r].state /\ rm.pending = FALSE
          /\ rm.buying = FALSE
      BY <1>1 DEF RoomObject
    <3>2. rooms' = [rooms EXCEPT ![r] = rm] /\ rooms[r].socket # "closed"
      BY <2>3 DEF OnAnswer, Delivered
    <3> HIDE DEF rm
    <3> QED BY <1>1, <1>2, <3>1, <3>2
  <2>4. ASSUME NEW state \in State, OnStatus(r, state)
        PROVE  \E rm \in RoomObject :
                 /\ rooms' = [rooms EXCEPT ![r] = rm] /\ (rm.socket # "closed" => rooms[r].socket # "closed")
                 /\ (rm.pending => rm.buying) /\ (rm.buying => rm.pending \/ r \in early)
                 /\ \A i \in ItemId : rm.state[i].built >= rooms[r].state[i].built
    <3> DEFINE rm == [rooms[r] EXCEPT !.state = state]
    <3>1. /\ rm \in RoomObject /\ rm.state = state /\ rm.pending = rooms[r].pending
          /\ rm.buying = rooms[r].buying
      BY <1>1 DEF RoomObject
    <3>2. /\ rooms' = [rooms EXCEPT ![r] = rm] /\ rooms[r].socket # "closed"
          /\ \A i \in ItemId : state[i].built >= rooms[r].state[i].built
      BY <2>4 DEF OnStatus
    <3> HIDE DEF rm
    <3> QED BY <1>1, <3>1, <3>2
  <2> QED BY <2>1, <2>2, <2>3, <2>4
<1> QED BY <1>4, <1>5, RoomStep

\* Room.buy: what is not sent is in early.
LEMMA BuyStep ==
  ASSUME GuiAssumption, RoomsInv, SocketInv, Buy, UNCHANGED <<lookups, room, overlap>>
  PROVE  /\ RoomsInv' /\ SocketInv' /\ Len(rooms') = Len(rooms)
         /\ \A q \in 1 .. Len(rooms) : Grown(q)
<1>1. CASE room = NoRoom \/ ~ NotBuying(room)
  <2>1. UNCHANGED <<rooms, early>>
    BY <1>1 DEF Buy
  <2> QED BY <2>1, RoomsSame DEF RoomsInv
<1>2. CASE ~ (room = NoRoom \/ ~ NotBuying(room))
  <2> DEFINE goes == Known(room) /\ Connected(room)
             rm == [rooms[room] EXCEPT !.buying = TRUE, !.pending = goes]
  <2>1. room \in 1 .. Len(rooms)
    <3>1. Len(rooms) \in Nat /\ (room = NoRoom \/ room = Len(rooms))
      BY DEF RoomsInv
    <3> QED BY <1>2, <3>1 DEF NoRoom
  <2>2. rooms[room] \in RoomObject /\ rooms[room].state \in State \cup {NoState}
    BY <2>1, RoomTyped
  <2>3. /\ rooms' = [rooms EXCEPT ![room] = rm]
        /\ early' = IF goes THEN early ELSE early \cup {room}
    BY <1>2 DEF Buy
  <2>4. goes \in BOOLEAN
    BY DEF Known, Connected
  <2>5. /\ rm \in RoomObject /\ rm.state = rooms[room].state /\ rm.buying = TRUE
        /\ rm.pending = goes /\ rm.socket = rooms[room].socket
    <3> HIDE DEF goes
    <3> QED BY <2>2, <2>4 DEF RoomObject
  <2>6. early \subseteq early' /\ (rm.buying => rm.pending \/ room \in early')
    <3> HIDE DEF goes, rm
    <3> QED BY <2>3, <2>5
  <2>7. \A i \in ItemId : rm.state[i].built >= rooms[room].state[i].built
    BY <2>2, <2>5, StateTyped
  <2> HIDE DEF goes, rm
  <2> QED BY <2>1, <2>3, <2>5, <2>6, <2>7, RoomStep
<1> QED BY <1>1, <1>2

\* The table's interval.
LEMMA TickStep == ASSUME GuiAssumption, GuiInv, DebugTick PROVE CanvasInv' /\ IconsInv'
<1>1. UNCHANGED <<rooms, room, scene, gui, frozen>>
  BY DEF DebugTick, game
<1>2. room \in 1 .. Len(rooms) /\ rooms[room].state \in State /\ room \in 0 .. MaxStarts
  <2>1. /\ Len(rooms) \in Nat /\ (room = NoRoom \/ room = Len(rooms)) /\ lookups \in Nat
        /\ Len(rooms) + lookups <= MaxStarts
    BY DEF GuiInv, RoomsInv
  <2>2. room # NoRoom /\ rooms[room].state # NoState
    BY DEF DebugTick, Known
  <2>3. room \in 1 .. Len(rooms) /\ room \in 0 .. MaxStarts
    BY <2>1, <2>2 DEF NoRoom, GuiAssumption
  <2> QED BY <2>2, <2>3, RoomTyped DEF GuiInv
<1>3. debug'.rows \in [ItemId -> Button]
  <2>1. debug'.rows = [i \in ItemId |-> Row(room, i)]
    BY DEF DebugTick
  <2> SUFFICES ASSUME NEW i \in ItemId PROVE Row(room, i) \in Button
    BY <2>1
  <2>2. rooms[room].state[i] \in [built : 0 .. MaxBuilt, sale : BOOLEAN]
    BY <1>2 DEF State
  <2>3. Built(room, i) \in 0 .. MaxBuilt
    BY <2>2 DEF Built
  <2>4. (Disabled(room, i) \/ ~ Active(room)) \in BOOLEAN
    OBVIOUS
  <2> QED BY <1>2, <2>3, <2>4 DEF Row, Button
<1>4. CanvasInv'
  BY <1>1, <1>3 DEF CanvasInv, GuiInv
<1>5. IconsInv'
  BY <1>1 DEF IconsInv, GuiInv
<1> QED BY <1>4, <1>5

LEMMA GuiStep == GuiAssumption /\ GuiInv /\ [GuiNext]_guiVars => GuiInv'
<1> SUFFICES ASSUME GuiAssumption, GuiInv, [GuiNext]_guiVars PROVE GuiInv'
  OBVIOUS
<1>a. RoomsInv /\ SocketInv /\ CanvasInv /\ IconsInv /\ Len(rooms) \in Nat /\ lookups \in Nat
  BY DEF GuiInv, RoomsInv
<1>b. scene \in {"opening", "main"} /\ frozen \in BOOLEAN
  BY <1>a DEF CanvasInv
<1>1. CASE LookupAnswered
  <2>1. UNCHANGED <<scene, gui, debug, frozen>>
    BY <1>1 DEF LookupAnswered
  <2>2. /\ RoomsInv' /\ SocketInv' /\ Len(rooms') = Len(rooms) + 1
        /\ \A q \in 1 .. Len(rooms) : Grown(q)
    BY <1>1, <1>a, LookupStep
  <2>3. Len(rooms') >= Len(rooms)
    BY <1>a, <2>2
  <2> QED BY <1>b, <2>1, <2>2, <2>3, ViewsKept DEF GuiInv
<1>2. CASE LookupFailed
  <2>1. UNCHANGED <<rooms, room, overlap, early, scene, gui, debug, frozen>>
    BY <1>2 DEF LookupFailed, history
  <2>2. lookups' \in Nat /\ lookups' <= lookups
    BY <1>2, <1>a DEF LookupFailed
  <2> QED BY <1>a, <1>b, <2>1, <2>2, RoomsSame, ViewsKept DEF GuiInv
<1>3. ASSUME NEW r \in DOMAIN rooms,
             OnOpen(r) \/ OnClose(r) \/ OnAnswer(r) \/ (\E state \in State : OnStatus(r, state))
      PROVE  GuiInv'
  <2>1. r \in 1 .. Len(rooms)
    BY <1>a DEF RoomsInv
  <2>2. UNCHANGED <<scene, gui, debug, frozen>>
    BY <1>3 DEF OnOpen, OnClose, OnAnswer, OnStatus
  <2>3. /\ RoomsInv' /\ SocketInv' /\ Len(rooms') = Len(rooms)
        /\ \A q \in 1 .. Len(rooms) : Grown(q)
    BY <1>3, <1>a, <2>1, SocketStep
  <2> QED BY <1>a, <1>b, <2>2, <2>3, ViewsKept DEF GuiInv
<1>4. ASSUME NEW n \in 1 .. 2, Go(n) \/ (n = 1 /\ DebugGo) PROVE GuiInv'
  <2>1. StartGame(n) /\ UNCHANGED <<gui, debug, frozen, early>> /\ scene' \in {"opening", "main"}
    BY <1>4, <1>b DEF Go, DebugGo
  <2>2. /\ RoomsInv' /\ SocketInv' /\ Len(rooms') = Len(rooms)
        /\ \A q \in 1 .. Len(rooms) : Grown(q)
    BY <1>a, <2>1, StartStep
  <2> QED BY <1>a, <1>b, <2>1, <2>2, ViewsKept DEF GuiInv
<1>5. CASE TapChair
  <2>1. UNCHANGED <<rooms, room, lookups, overlap, early, scene, gui, debug>> /\ frozen' \in BOOLEAN
    BY <1>5 DEF TapChair, game, history
  <2>2. lookups' \in Nat /\ lookups' <= lookups
    BY <1>a, <2>1
  <2> QED BY <1>a, <1>b, <2>1, <2>2, RoomsSame, ViewsKept DEF GuiInv
<1>6. ASSUME NEW i \in ItemId, TapBuy(i) \/ DebugBuy(i) PROVE GuiInv'
  <2>1. Buy /\ UNCHANGED <<lookups, room, overlap, scene, gui, debug>>
    BY <1>6 DEF TapBuy, DebugBuy
  <2>2. frozen' \in BOOLEAN
    BY <1>6, <1>b DEF TapBuy, DebugBuy, Throws
  <2>3. /\ RoomsInv' /\ SocketInv' /\ Len(rooms') = Len(rooms)
        /\ \A q \in 1 .. Len(rooms) : Grown(q)
    BY <1>a, <2>1, BuyStep
  <2> QED BY <1>a, <1>b, <2>1, <2>2, <2>3, ViewsKept DEF GuiInv
<1>7. CASE Frame
  <2>1. UNCHANGED <<rooms, room, lookups, overlap, early>>
    BY <1>7 DEF Frame, game, history
  <2> QED BY <1>7, <1>a, <2>1, RoomsSame, FrameStep DEF GuiInv
<1>8. CASE DebugTick
  <2>1. UNCHANGED <<rooms, room, lookups, overlap, early>>
    BY <1>8 DEF DebugTick, game, history
  <2> QED BY <1>8, <1>a, <2>1, RoomsSame, TickStep DEF GuiInv
<1>9. CASE UNCHANGED guiVars
  <2>1. UNCHANGED <<rooms, room, lookups, overlap, early, scene, gui, debug, frozen>>
    BY <1>9 DEF guiVars, game, history
  <2> QED BY <1>a, <1>b, <2>1, RoomsSame, ViewsKept DEF GuiInv
<1> QED BY <1>1, <1>2, <1>3, <1>4, <1>5, <1>6, <1>7, <1>8, <1>9 DEF GuiNext, Network, User

LEMMA GuiStart == GuiAssumption /\ GuiInit => GuiInv
<1> SUFFICES ASSUME GuiAssumption, GuiInit PROVE GuiInv
  OBVIOUS
<1>1. RoomsInv /\ SocketInv
  <2>1. /\ rooms = <<>> /\ lookups = 0 /\ room = NoRoom /\ overlap = FALSE
        /\ rooms \in Seq(RoomObject) /\ Len(rooms) = 0
    BY DEF GuiInit
  <2>2. 1 .. Len(rooms) = {}
    BY <2>1
  <2>3. lookups \in Nat /\ Len(rooms) + lookups <= MaxStarts /\ lookups <= 1 /\ lookups # 1
    BY <2>1 DEF GuiAssumption
  <2>4. RoomsInv
    BY <2>1, <2>2, <2>3 DEF RoomsInv
  <2>5. overlap \in BOOLEAN
    BY <2>1
  <2> QED BY <2>2, <2>3, <2>4, <2>5 DEF SocketInv
<1>2. Absent \in Button /\ Absent.owned.n = 0
  BY DEF Absent, Button, NoRoom, GuiAssumption
<1>3. CanvasInv
  <2>1. gui.connected = FALSE /\ gui.message = <<"Connecting">> /\ gui.name = 0
    BY DEF GuiInit, NoRoom
  <2>2. gui.message \in Messages(gui.connected)
    BY <2>1 DEF Messages
  <2>3. gui.buttons \in [ItemId -> Button] /\ debug.rows \in [ItemId -> Button]
    BY <1>2 DEF GuiInit
  <2>4. gui.icons \in [ItemId -> SUBSET (1 .. ShownIcons)]
    BY DEF GuiInit
  <2>5. scene \in {"opening", "main"} /\ frozen \in BOOLEAN
    BY DEF GuiInit
  <2>6. gui.connected \in BOOLEAN /\ gui.name \in 0 .. Len(rooms)
    <3>1. Len(rooms) \in Nat
      BY <1>1 DEF RoomsInv
    <3>2. gui.name \in 0 .. Len(rooms)
      BY <2>1, <3>1
    <3> QED BY <2>1, <3>2
  <2> QED BY <2>2, <2>3, <2>4, <2>5, <2>6 DEF CanvasInv
<1>4. IconsInv
  BY <1>2 DEF GuiInit, IconsInv, NoRoom, GuiAssumption
<1> QED BY <1>1, <1>3, <1>4 DEF GuiInv

\* PageFollowsRoom: one socket, an end to every purchase, an icon for every copy, for any
\* number of items, icons and games (game.js:339, 312, gui.js:346).
THEOREM PageCorrect == ASSUME GuiAssumption PROVE GuiSpec => []PageFollowsRoom
<1>1. GuiInv => PageFollowsRoom
  <2> SUFFICES ASSUME GuiInv PROVE PageFollowsRoom
    OBVIOUS
  <2>1. /\ Len(rooms) \in Nat /\ DOMAIN rooms = 1 .. Len(rooms)
        /\ (room = NoRoom \/ room = Len(rooms)) /\ lookups \in Nat
        /\ Len(rooms) + lookups <= MaxStarts
    BY LenProperties DEF GuiInv, RoomsInv
  <2>2. GuiTypeOK
    <3>1. lookups \in 0 .. MaxStarts /\ room \in 0 .. Len(rooms)
      BY <2>1 DEF NoRoom, GuiAssumption
    <3>2. \A r \in DOMAIN rooms :
             /\ rooms[r].socket \in {"connecting", "open", "closed"}
             /\ rooms[r].state \in State \cup {NoState}
             /\ rooms[r].pending => rooms[r].buying
      BY <2>1, RoomTyped DEF GuiInv, RoomsInv
    <3>3. Tail(gui.message) \in {<<>>, <<"OK">>}
      BY TailOfTwo DEF GuiInv, CanvasInv, Messages
    <3> QED BY <3>1, <3>2, <3>3 DEF GuiTypeOK, GuiInv, CanvasInv
  <2>3. OneSocket /\ BuyingHasRequest
    BY <2>1 DEF GuiInv, RoomsInv, SocketInv, OneSocket, BuyingHasRequest
  <2>4. IconsMatch
    <3> SUFFICES ASSUME gui.name <= 1, NEW i \in ItemId
                 PROVE  Cardinality(gui.icons[i]) = Min({ShownIcons, gui.buttons[i].owned.n})
      BY DEF IconsMatch
    <3> DEFINE n == gui.buttons[i].owned.n
               m == IF ShownIcons <= n THEN ShownIcons ELSE n
    <3>1. gui.buttons[i] \in Button
      BY DEF GuiInv, CanvasInv
    <3>2. n \in Nat
      BY <3>1 DEF Button, GuiAssumption
    <3>3. gui.icons[i] = {k \in 1 .. ShownIcons : k <= n}
      BY DEF GuiInv, IconsInv
    <3> HIDE DEF n
    <3>4. m \in Nat /\ {k \in 1 .. ShownIcons : k <= n} = 1 .. m
      BY <3>2 DEF GuiAssumption
    <3>5. Cardinality(1 .. m) = m
      BY <3>4, FS_Interval
    <3>6. Min({ShownIcons, n}) = m
      BY <3>2, MinOfTwo DEF GuiAssumption
    <3> QED BY <3>3, <3>4, <3>5, <3>6 DEF n
  <2> QED BY <2>2, <2>3, <2>4 DEF PageFollowsRoom
<1> QED BY <1>1, GuiStart, GuiStep, PTL DEF GuiSpec

-----------------------------------------------------------------------------
(* The player of the benchmark *)

USE DEF Id, None

-----------------------------------------------------------------------------
(* The callers *)

\* Every request under way has a number of its own, and a callback while it is written
\* and waited for.
CallbackFor(c) == pc[c] \in {"write", "wait"}
CallerInv ==
    /\ pc \in [Goroutine -> {"idle", "register", "write", "wait"}]
    /\ id \in [Goroutine -> Id \cup {None}]
    /\ ids \in 0 .. MaxRequests
    /\ \A c \in Goroutine : (pc[c] = "idle" <=> id[c] = None) /\ id[c] <= ids
    /\ \A c, d \in Goroutine : id[c] = id[d] /\ id[c] # None => c = d
    /\ callback = {id[c] : c \in {x \in Goroutine : pc[x] \in {"write", "wait"}}}

\* A caller that gives up its number takes its callback with it.
LEMMA ReturnStep ==
  ASSUME CallerInv, NEW c \in Goroutine, CallbackFor(c),
         callback' = callback \ {id[c]}, ids' = ids,
         pc' = [pc EXCEPT ![c] = "idle"], id' = [id EXCEPT ![c] = None]
  PROVE  CallerInv'
<1>1. /\ pc' \in [Goroutine -> {"idle", "register", "write", "wait"}]
      /\ id' \in [Goroutine -> Id \cup {None}]
      /\ ids' \in 0 .. MaxRequests
  BY DEF CallerInv
<1>2. \A d \in Goroutine : (pc'[d] = "idle" <=> id'[d] = None) /\ id'[d] <= ids'
  BY DEF CallerInv
<1>3. \A d, e \in Goroutine : id'[d] = id'[e] /\ id'[d] # None => d = e
  BY DEF CallerInv
<1>4. callback' = {id'[d] : d \in {x \in Goroutine : pc'[x] \in {"write", "wait"}}}
  <2>1. ASSUME NEW i \in callback'
        PROVE  \E d \in Goroutine : pc'[d] \in {"write", "wait"} /\ i = id'[d]
    <3>1. PICK d \in Goroutine : pc[d] \in {"write", "wait"} /\ i = id[d]
      BY <2>1 DEF CallerInv
    <3>2. d # c
      BY <2>1, <3>1
    <3> QED BY <3>1, <3>2 DEF CallerInv
  <2>2. ASSUME NEW d \in Goroutine, pc'[d] \in {"write", "wait"} PROVE id'[d] \in callback'
    <3>1. d # c /\ pc[d] \in {"write", "wait"} /\ id'[d] = id[d]
      BY <2>2 DEF CallerInv
    <3>2. id[d] \in callback /\ id[d] # None
      BY <3>1 DEF CallerInv
    <3>3. id[d] # id[c]
      BY <3>1, <3>2 DEF CallerInv
    <3> QED BY <3>1, <3>2, <3>3
  <2> QED BY <2>1, <2>2
<1> QED BY <1>1, <1>2, <1>3, <1>4 DEF CallerInv

\* A new request gets the next number.
LEMMA BeginStep == ASSUME CallerInv, NEW c \in Goroutine, Begin(c), MaxRequests \in Nat PROVE CallerInv'
<1>1. /\ pc[c] = "idle" /\ ids < MaxRequests /\ ids' = ids + 1 /\ callback' = callback
      /\ id' = [id EXCEPT ![c] = ids + 1] /\ pc' = [pc EXCEPT ![c] = "register"]
  BY DEF Begin, shared
<1>2. /\ ids \in Nat /\ ids' \in 0 .. MaxRequests /\ ids + 1 \in Id
      /\ \A d \in Goroutine : id[d] \in Nat /\ id[d] <= ids /\ id[d] # ids + 1
  BY <1>1 DEF CallerInv
<1>3. /\ pc' \in [Goroutine -> {"idle", "register", "write", "wait"}]
      /\ id' \in [Goroutine -> Id \cup {None}]
  BY <1>1, <1>2 DEF CallerInv
<1>4. \A d \in Goroutine : (pc'[d] = "idle" <=> id'[d] = None) /\ id'[d] <= ids'
  BY <1>1, <1>2 DEF CallerInv
<1>5. \A d, e \in Goroutine : id'[d] = id'[e] /\ id'[d] # None => d = e
  BY <1>1, <1>2 DEF CallerInv
<1>6. callback' = {id'[d] : d \in {x \in Goroutine : pc'[x] \in {"write", "wait"}}}
  <2>1. \A d \in Goroutine : pc'[d] \in {"write", "wait"} <=> pc[d] \in {"write", "wait"}
    BY <1>1 DEF CallerInv
  <2>2. \A d \in Goroutine : pc[d] \in {"write", "wait"} => id'[d] = id[d]
    BY <1>1 DEF CallerInv
  <2> QED BY <1>1, <2>1, <2>2 DEF CallerInv
<1> QED BY <1>2, <1>3, <1>4, <1>5, <1>6 DEF CallerInv

\* The callback is there before the request is written.
LEMMA RegisterStep == ASSUME CallerInv, NEW c \in Goroutine, Register(c) PROVE CallerInv'
<1>1. /\ pc[c] = "register" /\ ids' = ids /\ id' = id
      /\ callback' = callback \cup {id[c]} /\ pc' = [pc EXCEPT ![c] = "write"]
  BY DEF Register
<1>2. /\ pc' \in [Goroutine -> {"idle", "register", "write", "wait"}]
      /\ \A d \in Goroutine : (pc'[d] = "idle" <=> id'[d] = None)
  BY <1>1 DEF CallerInv
<1>3. \A d \in Goroutine : pc'[d] \in {"write", "wait"} <=> d = c \/ pc[d] \in {"write", "wait"}
  BY <1>1 DEF CallerInv
<1>4. callback' = {id'[d] : d \in {x \in Goroutine : pc'[x] \in {"write", "wait"}}}
  BY <1>1, <1>3 DEF CallerInv
<1> QED BY <1>1, <1>2, <1>4 DEF CallerInv

\* Every step keeps the callers' books.
LEMMA CallerStep ==
  ASSUME BenchClientAssumption PROVE CallerInv /\ [ClientNext]_clientVars => CallerInv'
<1> SUFFICES ASSUME CallerInv, [ClientNext]_clientVars PROVE CallerInv'
  OBVIOUS
<1>1. ASSUME NEW c \in Goroutine, Begin(c) PROVE CallerInv'
  BY <1>1, BeginStep DEF BenchClientAssumption
<1>2. ASSUME NEW c \in Goroutine, Register(c) PROVE CallerInv'
  BY <1>2, RegisterStep
<1>3. ASSUME NEW c \in Goroutine, Write(c) PROVE CallerInv'
  <2>1. pc[c] = "write" /\ ids' = ids
    BY <1>3 DEF Write
  <2>2. CASE conn = "open"
    <3>1. id' = id /\ callback' = callback /\ pc' = [pc EXCEPT ![c] = "wait"]
      BY <1>3, <2>2 DEF Write
    <3>2. /\ pc' \in [Goroutine -> {"idle", "register", "write", "wait"}]
          /\ \A d \in Goroutine : (pc'[d] = "idle" <=> id'[d] = None)
          /\ \A d \in Goroutine : pc'[d] \in {"write", "wait"} <=> pc[d] \in {"write", "wait"}
      BY <2>1, <3>1 DEF CallerInv
    <3>3. callback' = {id'[d] : d \in {x \in Goroutine : pc'[x] \in {"write", "wait"}}}
      BY <3>1, <3>2 DEF CallerInv
    <3> QED BY <2>1, <3>1, <3>2, <3>3 DEF CallerInv
  <2>3. CASE conn # "open"
    BY <1>3, <2>1, <2>3, ReturnStep DEF Write, Return, DeleteCallback, CallbackFor
  <2> QED BY <2>2, <2>3
<1>4. ASSUME NEW c \in Goroutine, Answered(c) PROVE CallerInv'
  BY <1>4, ReturnStep DEF Answered, Return, DeleteCallback, CallbackFor
<1>5. ASSUME NEW c \in Goroutine, TimedOut(c) PROVE CallerInv'
  BY <1>5, ReturnStep DEF TimedOut, Expires, Return, DeleteCallback, CallbackFor
<1>6. ASSUME UNCHANGED <<pc, id, ids, callback>> PROVE CallerInv'
  BY <1>6 DEF CallerInv
<1>7. CASE Read \/ Call \/ ReadFails \/ (\E i \in Id : Answer(i)) \/ UNCHANGED clientVars
  BY <1>6, <1>7 DEF Read, Call, ReadFails, Answer, clientVars, callers, shared
<1> QED BY <1>1, <1>2, <1>3, <1>4, <1>5, <1>7 DEF ClientNext, DoRequest

-----------------------------------------------------------------------------
(* The answers *)

\* What is read was sent as an answer: to a request the server has got.
AnswerInv ==
    /\ sent \subseteq Id /\ wire \in Seq(Id) /\ answers \in [Id -> Nat]
    /\ outcome \in [Id -> {"none", "response", "error"}]
    /\ \A k \in 1 .. Len(wire) : wire[k] \in sent /\ answers[wire[k]] > 0
    /\ logged \subseteq sent /\ \A i \in logged : answers[i] > 0
    /\ reader \in [at : {"read", "call", "ended"}, id : Id \cup {None}]
    /\ reader.at = "call" => reader.id \in logged
    /\ done \subseteq logged
    /\ \A i \in Id : outcome[i] = "response" => i \in logged

\* An answer that came once is in one place: on its way, about to be handed to its
\* callback, or handed over.
OnWire(i) == {k \in 1 .. Len(wire) : wire[k] = i}
OnceInv ==
    \A i \in Id : answers[i] <= 1 =>
        /\ \A k, l \in OnWire(i) : k = l
        /\ i \in logged => OnWire(i) = {}
        /\ ~ (i \in done /\ reader.at = "call" /\ reader.id = i)
PanicInv == panicked \in BOOLEAN /\ PanicsOnlyOnTwo
CloseInv == closes \in {0, 1} /\ (conn = "closed" => closes = 1)

ClientInv == CallerInv /\ AnswerInv /\ OnceInv /\ PanicInv /\ CloseInv

\* Who waits for an answer leaves those of the others alone.
LEMMA WaitStep ==
  ASSUME AnswerInv, OnceInv, UNCHANGED <<answers, wire, reader, logged, done>>,
         sent' \subseteq Id, sent \subseteq sent',
         NEW i \in Id, NEW result \in {"none", "response", "error"},
         outcome' = [outcome EXCEPT ![i] = result],
         result = "response" => i \in done
  PROVE  AnswerInv' /\ OnceInv'
<1>1. /\ outcome' \in [Id -> {"none", "response", "error"}]
      /\ \A j \in Id : outcome'[j] = "response" => j \in logged
  BY DEF AnswerInv
<1>2. AnswerInv'
  BY <1>1 DEF AnswerInv
<1>3. OnceInv'
  BY DEF OnceInv, OnWire
<1> QED BY <1>2, <1>3

\* A step of a caller: what it returns is what it was answered.
LEMMA CallerAnswers ==
  ASSUME CallerInv, AnswerInv, OnceInv, NEW c \in Goroutine, Begin(c) \/ DoRequest(c)
  PROVE  AnswerInv' /\ OnceInv'
<1>1. ASSUME UNCHANGED <<answers, wire, reader, logged, done, outcome>>,
             sent' \subseteq Id, sent \subseteq sent'
      PROVE  AnswerInv' /\ OnceInv'
  <2>1. AnswerInv'
    BY <1>1 DEF AnswerInv
  <2>2. OnceInv'
    BY <1>1 DEF OnceInv, OnWire
  <2> QED BY <2>1, <2>2
<1>2. sent \subseteq Id
  BY DEF AnswerInv
<1>3. pc[c] # "idle" => id[c] \in Id
  BY DEF CallerInv
<1>4. CASE Begin(c)
  BY <1>1, <1>2, <1>4 DEF Begin, shared, server, records
<1>5. CASE Register(c)
  BY <1>1, <1>2, <1>5 DEF Register, server, records
<1>6. CASE Write(c)
  <2>1. UNCHANGED <<answers, wire, reader, logged, done>> /\ id[c] \in Id
    BY <1>3, <1>6 DEF Write
  <2>2. CASE conn = "open"
    BY <1>1, <1>2, <1>6, <2>1, <2>2 DEF Write
  <2>3. CASE conn # "open"
    BY <1>2, <1>6, <2>1, <2>3, WaitStep DEF Write, Return
  <2> QED BY <2>2, <2>3
<1>7. CASE Answered(c)
  BY <1>2, <1>3, <1>7, WaitStep DEF Answered, Return, server
<1>8. CASE TimedOut(c)
  BY <1>2, <1>3, <1>8, WaitStep DEF TimedOut, Expires, Return, server
<1> QED BY <1>4, <1>5, <1>6, <1>7, <1>8 DEF DoRequest

\* What is read leaves the wire, and is the callback's from then on.
LEMMA ReadStep ==
  ASSUME CallerInv, AnswerInv, OnceInv, Read PROVE AnswerInv' /\ OnceInv'
<1> DEFINE i == Head(wire)
<1>1. /\ reader.at = "read" /\ wire # <<>> /\ wire' = Tail(wire) /\ logged' = logged \cup {i}
      /\ UNCHANGED <<sent, answers, outcome, done>>
      /\ \/ reader' = [at |-> "call", id |-> i] /\ i \in callback
         \/ reader' = reader
  BY DEF Read, CallbackOf, shared
<1>2. /\ wire \in Seq(Id) /\ Len(wire) \in Nat /\ Len(wire) > 0 /\ i = wire[1]
      /\ wire' \in Seq(Id) /\ Len(wire') = Len(wire) - 1
      /\ \A k \in 1 .. Len(wire') : k + 1 \in 1 .. Len(wire) /\ wire'[k] = wire[k + 1]
  BY <1>1 DEF AnswerInv
<1> HIDE DEF i
<1>3. i \in Id /\ i \in sent /\ answers[i] > 0
  <2>1. 1 \in 1 .. Len(wire)
    BY <1>2
  <2> QED BY <1>2, <2>1 DEF AnswerInv
<1>4. ASSUME NEW j \in Id, NEW k \in OnWire(j)'
      PROVE  k + 1 \in OnWire(j) /\ k + 1 # 1 /\ k \in Nat
  <2>1. k \in 1 .. Len(wire') /\ wire'[k] = j
    BY DEF OnWire
  <2>2. k + 1 \in 1 .. Len(wire) /\ wire[k + 1] = j
    BY <1>2, <2>1
  <2> QED BY <1>2, <2>1, <2>2 DEF OnWire
<1>5. 1 \in OnWire(i)
  BY <1>2 DEF OnWire
<1>6. AnswerInv'
  <2>1. \A k \in 1 .. Len(wire') : wire'[k] \in sent' /\ answers'[wire'[k]] > 0
    BY <1>1, <1>2 DEF AnswerInv
  <2>2. reader' \in [at : {"read", "call", "ended"}, id : Id \cup {None}]
    BY <1>1, <1>3 DEF AnswerInv
  <2>3. reader'.at = "call" => reader'.id \in logged'
    BY <1>1 DEF AnswerInv
  <2> QED BY <1>1, <1>2, <1>3, <2>1, <2>2, <2>3 DEF AnswerInv
<1>7. ASSUME NEW j \in Id, answers'[j] <= 1
      PROVE  /\ \A k, l \in OnWire(j)' : k = l
             /\ j \in logged' => OnWire(j)' = {}
             /\ ~ (j \in done' /\ reader'.at = "call" /\ reader'.id = j)
  <2>1. /\ \A k, l \in OnWire(j) : k = l
        /\ j \in logged => OnWire(j) = {}
    BY <1>1, <1>7 DEF OnceInv
  <2>2. \A k, l \in OnWire(j)' : k = l
    BY <1>4, <2>1
  <2>3. ASSUME j \in logged' PROVE OnWire(j)' = {}
    <3>1. CASE j \in logged
      BY <1>4, <2>1, <3>1
    <3>2. CASE j = i
      BY <1>4, <1>5, <2>1, <3>2
    <3> QED BY <1>1, <2>3, <3>1, <3>2
  <2>4. j = i => j \notin logged
    BY <1>5, <2>1
  <2>5. ~ (j \in done' /\ reader'.at = "call" /\ reader'.id = j)
    <3> SUFFICES ASSUME j \in done', reader'.at = "call", reader'.id = j PROVE FALSE
      OBVIOUS
    <3>1. j = i
      BY <1>1
    <3>2. j \in logged
      BY <1>1 DEF AnswerInv
    <3> QED BY <2>4, <3>1, <3>2
  <2> QED BY <2>2, <2>3, <2>5
<1>8. OnceInv'
  BY <1>7 DEF OnceInv
<1> QED BY <1>6, <1>8

\* The callback of an answer that came once has not run before.
LEMMA CallStep ==
  ASSUME AnswerInv, OnceInv, PanicInv, Call PROVE AnswerInv' /\ OnceInv' /\ PanicInv'
<1>1. /\ reader.at = "call" /\ reader.id \in logged /\ reader.id \in Id
      /\ panicked' = (reader.id \in done) /\ done' = done \cup {reader.id}
      /\ reader' = [at |-> "read", id |-> None]
      /\ UNCHANGED <<sent, answers, wire, logged, outcome>>
  BY DEF Call, AnswerInv, server, records
<1>2. AnswerInv'
  <2>1. reader' \in [at : {"read", "call", "ended"}, id : Id \cup {None}]
    BY <1>1
  <2> QED BY <1>1, <2>1 DEF AnswerInv
<1>3. OnceInv'
  BY <1>1 DEF OnceInv, OnWire
<1>4. panicked' => answers[reader.id] > 1
  <2> SUFFICES ASSUME panicked' PROVE answers[reader.id] > 1
    OBVIOUS
  <2>1. ~ (answers[reader.id] <= 1)
    BY <1>1 DEF OnceInv
  <2>2. answers[reader.id] \in Nat
    BY <1>1 DEF AnswerInv
  <2> QED BY <2>1, <2>2
<1>5. PanicInv'
  BY <1>1, <1>4 DEF PanicInv, PanicsOnlyOnTwo
<1> QED BY <1>2, <1>3, <1>5

\* An answer more makes it no longer one.
LEMMA AnswerStep ==
  ASSUME AnswerInv, OnceInv, NEW i \in Id, Answer(i)
  PROVE  AnswerInv' /\ OnceInv' /\ \A j \in Id : answers[j] <= answers'[j]
<1>1. /\ i \in sent /\ answers' = [answers EXCEPT ![i] = @ + 1] /\ wire' = Append(wire, i)
      /\ UNCHANGED <<sent, reader, logged, outcome, done>>
  BY DEF Answer, shared, records
<1>2. /\ wire \in Seq(Id) /\ Len(wire) \in Nat /\ wire' \in Seq(Id) /\ Len(wire') = Len(wire) + 1
      /\ wire'[Len(wire) + 1] = i /\ \A k \in 1 .. Len(wire) : wire'[k] = wire[k]
  BY <1>1 DEF AnswerInv
<1>3. /\ answers \in [Id -> Nat] /\ answers' \in [Id -> Nat] /\ answers'[i] = answers[i] + 1
      /\ \A j \in Id : answers[j] <= answers'[j] /\ (j # i => answers'[j] = answers[j])
  BY <1>1 DEF AnswerInv
<1>4. AnswerInv'
  <2>1. \A k \in 1 .. Len(wire') : wire'[k] \in sent' /\ answers'[wire'[k]] > 0
    <3> SUFFICES ASSUME NEW k \in 1 .. Len(wire') PROVE wire'[k] \in sent' /\ answers'[wire'[k]] > 0
      OBVIOUS
    <3>1. CASE k \in 1 .. Len(wire)
      <4>1. wire[k] \in sent /\ answers[wire[k]] > 0 /\ wire[k] \in Id
        BY <3>1 DEF AnswerInv
      <4> QED BY <1>1, <1>2, <1>3, <3>1, <4>1
    <3>2. CASE k = Len(wire) + 1
      BY <1>1, <1>2, <1>3, <3>2
    <3> QED BY <1>2, <3>1, <3>2
  <2>2. \A j \in logged' : answers'[j] > 0
    <3>1. \A j \in logged : j \in Id /\ answers[j] > 0
      BY DEF AnswerInv
    <3> QED BY <1>1, <1>3, <3>1
  <2> QED BY <1>1, <1>2, <1>3, <2>1, <2>2 DEF AnswerInv
<1>5. ASSUME NEW j \in Id, answers'[j] <= 1
      PROVE  /\ \A k, l \in OnWire(j)' : k = l
             /\ j \in logged' => OnWire(j)' = {}
             /\ ~ (j \in done' /\ reader'.at = "call" /\ reader'.id = j)
  <2>1. CASE j # i
    <3>1. OnWire(j)' = OnWire(j)
      BY <1>2, <2>1 DEF OnWire
    <3>2. answers[j] <= 1
      BY <1>3, <1>5, <2>1
    <3> QED BY <1>1, <3>1, <3>2 DEF OnceInv
  <2>2. CASE j = i
    <3>1. answers[i] = 0
      BY <1>3, <1>5, <2>2
    <3>2. i \notin logged /\ \A k \in 1 .. Len(wire) : wire[k] # i
      BY <3>1 DEF AnswerInv
    <3>3. OnWire(i)' = {Len(wire) + 1}
      BY <1>2, <3>2 DEF OnWire
    <3>4. i \notin done
      BY <3>2 DEF AnswerInv
    <3> QED BY <1>1, <2>2, <3>2, <3>3, <3>4
  <2> QED BY <2>1, <2>2
<1>6. OnceInv'
  BY <1>5 DEF OnceInv
<1> QED BY <1>3, <1>4, <1>6

\* Every step keeps the answers apart.
LEMMA ClientStep ==
  ASSUME BenchClientAssumption PROVE ClientInv /\ [ClientNext]_clientVars => ClientInv'
<1> SUFFICES ASSUME ClientInv, [ClientNext]_clientVars PROVE ClientInv'
  OBVIOUS
<1>0. CallerInv /\ AnswerInv /\ OnceInv /\ PanicInv /\ CloseInv
  BY DEF ClientInv
<1>1. CallerInv'
  BY <1>0, CallerStep
<1>2. ASSUME NEW c \in Goroutine, Begin(c) \/ DoRequest(c) PROVE AnswerInv' /\ OnceInv' /\ PanicInv'
  <2>1. UNCHANGED <<answers, panicked>>
    BY <1>2 DEF Begin, DoRequest, Register, Write, Answered, TimedOut, shared, server
  <2> QED BY <1>0, <1>2, <2>1, CallerAnswers DEF PanicInv, PanicsOnlyOnTwo
<1>3. ASSUME Read PROVE AnswerInv' /\ OnceInv' /\ PanicInv'
  <2>1. UNCHANGED <<answers, panicked>>
    BY <1>3 DEF Read, shared
  <2> QED BY <1>0, <1>1, <1>3, <2>1, ReadStep DEF PanicInv, PanicsOnlyOnTwo
<1>4. ASSUME Call PROVE AnswerInv' /\ OnceInv' /\ PanicInv'
  BY <1>0, <1>4, CallStep
<1>5. ASSUME ReadFails PROVE AnswerInv' /\ OnceInv' /\ PanicInv'
  <2>1. /\ reader' = [at |-> "ended", id |-> None]
        /\ UNCHANGED <<sent, answers, wire, logged, outcome, done, panicked>>
    BY <1>5 DEF ReadFails, server, records
  <2>2. reader' \in [at : {"read", "call", "ended"}, id : Id \cup {None}]
    BY <2>1
  <2>3. AnswerInv' /\ PanicInv'
    BY <1>0, <2>1, <2>2 DEF AnswerInv, PanicInv, PanicsOnlyOnTwo
  <2>4. OnceInv'
    BY <1>0, <2>1 DEF OnceInv, OnWire
  <2> QED BY <2>3, <2>4
<1>6. ASSUME NEW i \in Id, Answer(i) PROVE AnswerInv' /\ OnceInv' /\ PanicInv'
  <2>1. AnswerInv' /\ OnceInv' /\ \A j \in Id : answers[j] <= answers'[j]
    BY <1>0, <1>6, AnswerStep
  <2>2. panicked' = panicked
    BY <1>6 DEF Answer, shared
  <2>3. \A j \in Id : answers[j] \in Nat /\ answers'[j] \in Nat
    BY <1>0, <2>1 DEF AnswerInv
  <2>4. (\E j \in Id : answers[j] > 1) => \E j \in Id : answers'[j] > 1
    BY <2>1, <2>3
  <2> QED BY <1>0, <2>1, <2>2, <2>4 DEF PanicInv, PanicsOnlyOnTwo
<1>7. ASSUME UNCHANGED clientVars PROVE AnswerInv' /\ OnceInv' /\ PanicInv'
  <2>1. UNCHANGED <<answers, wire, reader, logged, done, outcome, sent, panicked>>
    BY <1>7 DEF clientVars, shared, server, records
  <2>2. AnswerInv' /\ PanicInv'
    BY <1>0, <2>1 DEF AnswerInv, PanicInv, PanicsOnlyOnTwo
  <2>3. OnceInv'
    BY <1>0, <2>1 DEF OnceInv, OnWire
  <2> QED BY <2>2, <2>3
<1>8. AnswerInv' /\ OnceInv' /\ PanicInv'
  BY <1>2, <1>3, <1>4, <1>5, <1>6, <1>7 DEF ClientNext
<1>9. CloseInv'
  <2>1. (conn' = conn /\ closes' = closes) \/ closes' = 1
    BY DEF ClientNext, Begin, DoRequest, Register, Write, Answered, TimedOut, Expires, Read, Call,
           ReadFails, Answer, Close, CountOnce, clientVars, shared
  <2> QED BY <1>0, <2>1 DEF CloseInv
<1> QED BY <1>1, <1>8, <1>9 DEF ClientInv

\* Nothing has been asked for at first.
LEMMA ClientStart == ASSUME BenchClientAssumption PROVE ClientInit => ClientInv
<1> SUFFICES ASSUME ClientInit PROVE ClientInv
  OBVIOUS
<1>1. CallerInv
  BY DEF ClientInit, CallerInv, BenchClientAssumption
<1>2. wire = <<>> /\ wire \in Seq(Id) /\ Len(wire) = 0
  BY DEF ClientInit
<1>3. reader = [at |-> "read", id |-> None]
      /\ reader \in [at : {"read", "call", "ended"}, id : Id \cup {None}]
  BY DEF ClientInit
<1>4. AnswerInv
  BY <1>2, <1>3 DEF ClientInit, AnswerInv
<1>5. OnceInv
  BY <1>2, <1>3 DEF ClientInit, OnceInv, OnWire
<1>6. PanicInv /\ CloseInv
  BY DEF ClientInit, PanicInv, PanicsOnlyOnTwo, CloseInv
<1> QED BY <1>1, <1>4, <1>5, <1>6 DEF ClientInv

\* Whichever comes first of reader, time-outs and late answers: doRequest returns the
\* answer to its own request, which is in the log; only a server that answers a request
\* twice makes the benchmark panic; a connection is counted as closed once
\* (client.go:283, 201, 157).
THEOREM ClientCorrect == ASSUME BenchClientAssumption PROVE ClientSpec => []AnswersFindTheirRequest
<1>1. ClientInv => AnswersFindTheirRequest
  <2> SUFFICES ASSUME ClientInv PROVE AnswersFindTheirRequest
    OBVIOUS
  <2>1. CallerInv /\ AnswerInv /\ PanicInv /\ CloseInv
    BY DEF ClientInv
  <2>2. ClientTypeOK
    BY <2>1 DEF ClientTypeOK, CallerInv, AnswerInv
  <2>3. AnswerIsOwn
    BY <2>1 DEF AnswerIsOwn, AnswerInv
  <2>4. PanicsOnlyOnTwo /\ ClosedOnce
    BY <2>1 DEF PanicInv, CloseInv, ClosedOnce
  <2> QED BY <2>2, <2>3, <2>4 DEF AnswersFindTheirRequest
<1> QED BY ClientStart, ClientStep, <1>1, PTL DEF ClientSpec

-----------------------------------------------------------------------------
(* The leaderboard: its pages *)

USE DEF Empty, Blank, NoFlight, Unofficial, Restrict

\* A page is a record of the fields of Blank, whatever is done to it.
Fields == {"at", "all", "own", "ranking", "fixed", "rows", "plot", "since", "before"}
PageShape == page = [t \in Team |-> page[t]] /\ \A t \in Team : DOMAIN page[t] = Fields

\* Step sets the fields it names, and no field of another page.
LEMMA StepSets ==
  ASSUME PageShape, NEW t \in Team, NEW from, NEW to, Step(t, from, to), DOMAIN to \subseteq Fields
  PROVE  /\ PageShape'
         /\ page[t].at = from
         /\ \A u \in Team \ {t} : page'[u] = page[u]
         /\ \A x \in DOMAIN to : page'[t][x] = to[x]
         /\ \A x \in Fields \ DOMAIN to : page'[t][x] = page[t][x]
<1>1. page'[t] = Over(to, page[t]) /\ page' = [page EXCEPT ![t] = Over(to, page[t])]
  BY DEF Step, PageShape
<1>2. DOMAIN Over(to, page[t]) = Fields
  BY DEF PageShape, Over
<1>3. \A x \in Fields : Over(to, page[t])[x] = IF x \in DOMAIN to THEN to[x] ELSE page[t][x]
  BY DEF PageShape, Over
<1> QED BY <1>1, <1>2, <1>3 DEF PageShape, Step

-----------------------------------------------------------------------------
(* The leaderboard: its tables *)

\* Results are numbered from 1 without a gap; team_scores holds the last one of every
\* team that has one; what is frozen was there.
TablesInv ==
    /\ Partial(latest) /\ Partial(latestFixed)
    /\ IsFiniteSet(scores) /\ scores \subseteq Results /\ scoresFixed \subseteq scores
    /\ \A r \in scores : r.n <= Cardinality(scores)
    /\ \A r, q \in scores : r.n = q.n => r = q
    /\ \A r \in scores : r.team \in DOMAIN latest
    /\ \A t \in DOMAIN latest :
          \E r \in scores : /\ r.team = t /\ r.score = latest[t]
                            /\ \A q \in scores : q.team = t => q.n <= r.n

LEMMA TablesInit == LeaderboardAssumption /\ BoardInit => TablesInv
  BY FS_EmptySet DEF BoardInit, TablesInv, Partial, Results

LEMMA DoneJobTables ==
  ASSUME LeaderboardAssumption, TablesInv, NEW t \in Team, NEW s \in Score, DoneJob(t, s)
  PROVE  TablesInv'
<1> DEFINE n == Cardinality(scores)
           new == [n |-> n + 1, team |-> t, score |-> s]
<1>1. /\ n \in Nat /\ n < MaxResults /\ latest' = Over(Only(t, s), latest)
      /\ scores' = scores \cup {new} /\ latestFixed' = latestFixed /\ scoresFixed' = scoresFixed
  BY FS_CardinalityType DEF DoneJob, TablesInv
<1>2. \A r \in scores : r.n \in Nat /\ r.n <= n /\ r.n # n + 1 /\ r # new
  BY <1>1 DEF TablesInv, Results
<1>3. IsFiniteSet(scores') /\ Cardinality(scores') = n + 1
  <2>1. IsFiniteSet(scores) /\ new \notin scores
    BY <1>2 DEF TablesInv
  <2> HIDE DEF new
  <2> QED BY <1>1, <2>1, FS_AddElement
<1>4. new \in Results /\ scores' \subseteq Results /\ scoresFixed' \subseteq scores'
  BY <1>1 DEF TablesInv, Results, LeaderboardAssumption
<1>5. DOMAIN latest' = DOMAIN latest \cup {t} /\ latest'[t] = s
      /\ \A u \in DOMAIN latest \ {t} : latest'[u] = latest[u]
  BY <1>1 DEF Over, Only
<1>6. Partial(latest)' /\ Partial(latestFixed)'
  BY <1>1, <1>5 DEF TablesInv, Partial
<1>7. \A r \in scores' : r.n <= Cardinality(scores') /\ r.team \in DOMAIN latest'
  BY <1>1, <1>2, <1>3, <1>5 DEF TablesInv
<1>8. \A r, q \in scores' : r.n = q.n => r = q
  BY <1>1, <1>2 DEF TablesInv
<1>9. ASSUME NEW u \in DOMAIN latest'
      PROVE  \E r \in scores' : /\ r.team = u /\ r.score = latest'[u]
                                /\ \A q \in scores' : q.team = u => q.n <= r.n
  <2>1. CASE u = t
    <3>1. new \in scores' /\ new.team = u /\ new.score = latest'[u] /\ new.n = n + 1
      BY <1>1, <1>5, <2>1
    <3>2. \A q \in scores' : q.n <= new.n
      BY <1>1, <1>2, <3>1
    <3> QED BY <3>1, <3>2
  <2>2. CASE u # t
    <3>1. PICK r \in scores : /\ r.team = u /\ r.score = latest[u]
                              /\ \A q \in scores : q.team = u => q.n <= r.n
      BY <1>5, <2>2 DEF TablesInv
    <3> QED BY <1>1, <1>5, <2>2, <3>1
  <2> QED BY <2>1, <2>2
<1> QED BY <1>3, <1>4, <1>6, <1>7, <1>8, <1>9 DEF TablesInv

\* No other step writes team_scores or scores.
LEMMA TablesStep == LeaderboardAssumption /\ TablesInv /\ [BoardNext]_boardVars => TablesInv'
<1> SUFFICES ASSUME LeaderboardAssumption, TablesInv, [BoardNext]_boardVars PROVE TablesInv'
  OBVIOUS
<1>1. ASSUME NEW t \in Team, NEW s \in Score, DoneJob(t, s) PROVE TablesInv'
  BY <1>1, DoneJobTables
<1>2. CASE FixRanking
  BY <1>2 DEF FixRanking, TablesInv
<1>3. CASE FixPlot
  BY <1>3 DEF FixPlot, TablesInv
<1>4. CASE UNCHANGED tables
  BY <1>4 DEF tables, TablesInv, Partial
<1>5. ASSUME NEW t \in Team, ServeIndex(t) PROVE UNCHANGED tables
  BY <1>5 DEF ServeIndex, RequestPage, ReadSnapshot, ReadOwn, ReadLive, Rank, Fly, Join, ReadOwnPlot
<1> QED BY <1>1, <1>2, <1>3, <1>4, <1>5 DEF BoardNext, boardVars, Land

-----------------------------------------------------------------------------
(* A page under way *)

\* The team's own results that were there when it asked for the page, and what its entry
\* of the ranking may tell: one of its results that is not older than any of them.
Mine(t) == {r \in scores : r.team = t /\ r.n <= page[t].since}
UpToDate(t, s) == \E r \in scores : r.team = t /\ r.score = s /\ \A q \in Mine(t) : q.n <= r.n

Ranked(t) == page[t].at \in {"plot", "wait", "plot_own", "shown"}
FrozenFor(t, f) ==
    \A u \in DOMAIN f \ {t} : u \in DOMAIN latestFixed /\ f[u] = latestFixed[u]

\* Types, and what a page has read so far.
ReadInv(t) ==
    /\ page[t].at \in {"none", "snapshot", "own", "live", "rank", "plot", "wait", "plot_own",
                       "shown"}
    /\ page[t].since \in 0 .. Cardinality(scores)
    /\ Partial(page[t].all) /\ Partial(page[t].ranking)
    /\ page[t].own \in Score \cup {NoScore}
    /\ page[t].plot \subseteq scores
    /\ page[t].at = "wait" => flight.leader # NoTeam

\* A page becomes a fixed one by what it has read of the snapshot, which was filled then
\* and never changes again.
FrozenInv(t) ==
    /\ page[t].at \in {"none", "snapshot", "own", "live"} => ~ page[t].fixed
    /\ \/ page[t].at = "own"
       \/ page[t].at = "rank" /\ page[t].fixed
       => page[t].all = Unofficial(latestFixed) /\ page[t].all # Empty
    /\ Ranked(t) /\ page[t].fixed => FrozenFor(t, page[t].ranking)
    /\ page[t].at = "plot_own" => page[t].rows \subseteq scoresFixed
    /\ {r \in page[t].plot : r.team # t} \subseteq scoresFixed

\* What a page tells of its own team is read after the page was asked for.
OwnInv(t) ==
    /\ page[t].at = "rank" /\ Mine(t) # {} => page[t].own # NoScore /\ UpToDate(t, page[t].own)
    /\ Ranked(t) /\ Mine(t) # {} =>
          t \in DOMAIN page[t].ranking /\ UpToDate(t, page[t].ranking[t])
    /\ page[t].at = "shown" => Mine(t) \subseteq page[t].plot

PageInv(t) == ReadInv(t) /\ FrozenInv(t) /\ (t # Admin => OwnInv(t))
FlightInv == flight.rows \subseteq scoresFixed
BoardInv == TablesInv /\ PageShape /\ FlightInv /\ \A t \in Team : PageInv(t)

LEMMA BoardStart == LeaderboardAssumption /\ BoardInit => BoardInv
<1> SUFFICES ASSUME LeaderboardAssumption, BoardInit PROVE BoardInv
  OBVIOUS
<1>1. TablesInv
  BY TablesInit
<1>2. PageShape /\ FlightInv
  BY DEF BoardInit, PageShape, Fields, FlightInv
<1>3. Cardinality(scores) = 0 /\ scores = {}
  BY FS_EmptySet DEF BoardInit
<1>4. ASSUME NEW t \in Team PROVE PageInv(t)
  <2>1. page[t] = Blank
    BY DEF BoardInit
  <2> QED BY <1>3, <2>1 DEF PageInv, ReadInv, FrozenInv, OwnInv, Partial, Ranked
<1> QED BY <1>1, <1>2, <1>4 DEF BoardInv

\* A page on which nothing is done stays right while another one is worked on.
LEMMA OtherPage ==
  ASSUME BoardInv, NEW u \in Team, page'[u] = page[u], UNCHANGED tables,
         page[u].at = "wait" => flight'.leader # NoTeam
  PROVE  PageInv(u)'
<1>1. PageInv(u)
  BY DEF BoardInv
<1>2. Mine(u)' = Mine(u) /\ Ranked(u)' = Ranked(u)
  BY DEF Mine, tables, Ranked
<1>3. ReadInv(u)'
  BY <1>1 DEF PageInv, ReadInv, tables, Partial
<1>4. FrozenInv(u)'
  BY <1>1, <1>2 DEF PageInv, FrozenInv, FrozenFor, tables
<1>5. ASSUME u # Admin PROVE OwnInv(u)'
  <2>1. \A s : UpToDate(u, s) => UpToDate(u, s)'
    BY <1>2 DEF UpToDate, tables
  <2> QED BY <1>1, <1>2, <1>5, <2>1 DEF PageInv, OwnInv
<1> QED BY <1>3, <1>4, <1>5 DEF PageInv

\* A step of one page is right for all of them when it is right for that one.
LEMMA ServePage ==
  ASSUME BoardInv, NEW t \in Team, UNCHANGED tables, PageShape', PageInv(t)', FlightInv',
         \A u \in Team \ {t} : page'[u] = page[u] /\ (page[u].at = "wait" => flight'.leader # NoTeam)
  PROVE  BoardInv'
<1>1. TablesInv'
  BY DEF BoardInv, TablesInv, tables, Partial
<1>2. \A u \in Team : PageInv(u)'
  BY OtherPage
<1> QED BY <1>1, <1>2 DEF BoardInv

\* The same for the steps that only read.
LEMMA ReadPage ==
  ASSUME BoardInv, NEW t \in Team, UNCHANGED <<tables, flight>>, PageShape', PageInv(t)',
         \A u \in Team \ {t} : page'[u] = page[u]
  PROVE  BoardInv'
<1>1. FlightInv'
  BY DEF BoardInv, FlightInv, tables
<1>2. \A u \in Team : page[u].at = "wait" => flight'.leader # NoTeam
  BY DEF BoardInv, PageInv, ReadInv
<1>3. UNCHANGED tables
  OBVIOUS
<1> QED BY <1>1, <1>2, <1>3, ServePage

LEMMA RequestStep ==
  ASSUME LeaderboardAssumption, BoardInv, NEW t \in Team, RequestPage(t) PROVE BoardInv'
<1>1. page' = [page EXCEPT ![t] = page'[t]] /\ UNCHANGED <<tables, flight>>
  BY DEF RequestPage, BoardInv, PageShape
<1>2. /\ page'[t].at = "snapshot" /\ page'[t].since = Cardinality(scores)
      /\ page'[t].all = Empty /\ page'[t].own = NoScore /\ page'[t].ranking = Empty
      /\ page'[t].fixed = FALSE /\ page'[t].rows = {} /\ page'[t].plot = {}
      /\ DOMAIN page'[t] = Fields
  BY DEF RequestPage, BoardInv, PageShape, Fields
<1>3. PageShape' /\ \A u \in Team \ {t} : page'[u] = page[u]
  BY <1>1, <1>2 DEF BoardInv, PageShape
<1>4. Cardinality(scores) \in Nat
  BY FS_CardinalityType DEF BoardInv, TablesInv
<1>5. PageInv(t)'
  BY <1>1, <1>2, <1>4 DEF PageInv, ReadInv, FrozenInv, OwnInv, Partial, Ranked, tables
<1> QED BY <1>1, <1>3, <1>5, ReadPage

LEMMA ReadSnapshotStep ==
  ASSUME LeaderboardAssumption, BoardInv, NEW t \in Team, ReadSnapshot(t) PROVE BoardInv'
<1> DEFINE all == Unofficial(latestFixed)
           to == [all |-> all, at |-> IF all = Empty THEN "live" ELSE "own"]
<1>1. DOMAIN to = {"all", "at"} /\ to.all = all /\ to.at = IF all = Empty THEN "live" ELSE "own"
  OBVIOUS
<1>2. Step(t, "snapshot", to) /\ UNCHANGED <<tables, flight>> /\ PageShape
  BY DEF ReadSnapshot, BoardInv
<1> HIDE DEF to
<1>3. DOMAIN to \subseteq Fields
  BY <1>1 DEF Fields
<1>4. /\ PageShape' /\ page[t].at = "snapshot"
      /\ \A u \in Team \ {t} : page'[u] = page[u]
      /\ \A x \in DOMAIN to : page'[t][x] = to[x]
      /\ \A x \in Fields \ DOMAIN to : page'[t][x] = page[t][x]
  BY <1>2, <1>3, StepSets
<1>5. /\ page'[t].all = all /\ page'[t].at = IF all = Empty THEN "live" ELSE "own"
      /\ page'[t].own = page[t].own /\ page'[t].ranking = page[t].ranking
      /\ page'[t].fixed = page[t].fixed /\ page'[t].rows = page[t].rows
      /\ page'[t].plot = page[t].plot /\ page'[t].since = page[t].since
  BY <1>1, <1>4 DEF Fields
<1>6. Partial(all)
  BY DEF BoardInv, TablesInv, Partial
<1>7. PageInv(t) /\ page[t].at = "snapshot"
  BY <1>4 DEF BoardInv
<1> HIDE DEF all
<1>8. PageInv(t)'
  <2>1. ReadInv(t)'
    BY <1>2, <1>5, <1>6, <1>7 DEF PageInv, ReadInv, tables, Partial
  <2>2. FrozenInv(t)'
    BY <1>2, <1>5, <1>7 DEF PageInv, FrozenInv, tables, Ranked, all
  <2>3. OwnInv(t)'
    BY <1>5 DEF OwnInv, Ranked
  <2> QED BY <2>1, <2>2, <2>3 DEF PageInv
<1> QED BY <1>2, <1>4, <1>8, ReadPage

\* The three outcomes of the query for the team's own score.
LEMMA ReadOwnStep ==
  ASSUME LeaderboardAssumption, BoardInv, NEW t \in Team, ReadOwn(t) PROVE BoardInv'
<1>1. ASSUME t = Admin, Step(t, "own", [at |-> "rank", fixed |-> TRUE]) PROVE BoardInv'
  <2> DEFINE to == [at |-> "rank", fixed |-> TRUE]
  <2>1. DOMAIN to = {"at", "fixed"} /\ to.at = "rank" /\ to.fixed = TRUE
    OBVIOUS
  <2>2. Step(t, "own", to) /\ UNCHANGED <<tables, flight>> /\ PageShape
    BY <1>1 DEF ReadOwn, BoardInv
  <2> HIDE DEF to
  <2>3. DOMAIN to \subseteq Fields
    BY <2>1 DEF Fields
  <2>4. /\ PageShape' /\ page[t].at = "own"
        /\ \A u \in Team \ {t} : page'[u] = page[u]
        /\ \A x \in DOMAIN to : page'[t][x] = to[x]
        /\ \A x \in Fields \ DOMAIN to : page'[t][x] = page[t][x]
    BY <2>2, <2>3, StepSets
  <2>5. /\ page'[t].at = "rank" /\ page'[t].all = page[t].all
        /\ page'[t].own = page[t].own /\ page'[t].ranking = page[t].ranking
        /\ page'[t].fixed = TRUE /\ page'[t].rows = page[t].rows
        /\ page'[t].plot = page[t].plot /\ page'[t].since = page[t].since
    BY <2>1, <2>4 DEF Fields
  <2>6. PageInv(t) /\ page[t].at = "own"
    BY <2>4 DEF BoardInv
  <2>7. ReadInv(t)'
    BY <2>2, <2>5, <2>6 DEF PageInv, ReadInv, tables, Partial
  <2>8. FrozenInv(t)'
    BY <2>2, <2>5, <2>6 DEF PageInv, FrozenInv, tables, Ranked
  <2> QED BY <1>1, <2>2, <2>4, <2>7, <2>8, ReadPage DEF PageInv
<1>2. ASSUME t \in DOMAIN latest \ {Admin},
             Step(t, "own", [at |-> "rank", fixed |-> TRUE, own |-> latest[t]])
      PROVE  BoardInv'
  <2> DEFINE to == [at |-> "rank", fixed |-> TRUE, own |-> latest[t]]
  <2>1. DOMAIN to = {"at", "fixed", "own"} /\ to.at = "rank" /\ to.fixed = TRUE /\ to.own = latest[t]
    OBVIOUS
  <2>2. Step(t, "own", to) /\ UNCHANGED <<tables, flight>> /\ PageShape
    BY <1>2 DEF ReadOwn, BoardInv
  <2> HIDE DEF to
  <2>3. DOMAIN to \subseteq Fields
    BY <2>1 DEF Fields
  <2>4. /\ PageShape' /\ page[t].at = "own"
        /\ \A u \in Team \ {t} : page'[u] = page[u]
        /\ \A x \in DOMAIN to : page'[t][x] = to[x]
        /\ \A x \in Fields \ DOMAIN to : page'[t][x] = page[t][x]
    BY <2>2, <2>3, StepSets
  <2>5. /\ page'[t].at = "rank" /\ page'[t].all = page[t].all
        /\ page'[t].own = latest[t] /\ page'[t].ranking = page[t].ranking
        /\ page'[t].fixed = TRUE /\ page'[t].rows = page[t].rows
        /\ page'[t].plot = page[t].plot /\ page'[t].since = page[t].since
    BY <2>1, <2>4 DEF Fields
  <2>6. PageInv(t) /\ page[t].at = "own"
    BY <2>4 DEF BoardInv
  <2>7. latest[t] \in Score /\ latest[t] # NoScore
    BY <1>2 DEF BoardInv, TablesInv, Partial, LeaderboardAssumption
  <2>8. ReadInv(t)'
    BY <2>2, <2>5, <2>6, <2>7 DEF PageInv, ReadInv, tables, Partial
  <2>9. FrozenInv(t)'
    BY <2>2, <2>5, <2>6 DEF PageInv, FrozenInv, tables, Ranked
  <2>10. UpToDate(t, latest[t])'
    <3>1. PICK r \in scores : /\ r.team = t /\ r.score = latest[t]
                              /\ \A q \in scores : q.team = t => q.n <= r.n
      BY <1>2 DEF BoardInv, TablesInv
    <3> QED BY <2>2, <3>1 DEF UpToDate, Mine, tables
  <2>11. OwnInv(t)'
    BY <2>5, <2>7, <2>10, <2>2 DEF OwnInv, Ranked, UpToDate, tables
  <2> QED BY <2>2, <2>4, <2>8, <2>9, <2>11, ReadPage DEF PageInv
<1>3. ASSUME Step(t, "own", [at |-> "live"]) PROVE BoardInv'
  <2> DEFINE to == [at |-> "live"]
  <2>1. DOMAIN to = {"at"} /\ to.at = "live"
    OBVIOUS
  <2>2. Step(t, "own", to) /\ UNCHANGED <<tables, flight>> /\ PageShape
    BY <1>3 DEF ReadOwn, BoardInv
  <2> HIDE DEF to
  <2>3. DOMAIN to \subseteq Fields
    BY <2>1 DEF Fields
  <2>4. /\ PageShape' /\ page[t].at = "own"
        /\ \A u \in Team \ {t} : page'[u] = page[u]
        /\ \A x \in DOMAIN to : page'[t][x] = to[x]
        /\ \A x \in Fields \ DOMAIN to : page'[t][x] = page[t][x]
    BY <2>2, <2>3, StepSets
  <2>5. /\ page'[t].at = "live" /\ page'[t].all = page[t].all
        /\ page'[t].own = page[t].own /\ page'[t].ranking = page[t].ranking
        /\ page'[t].fixed = page[t].fixed /\ page'[t].rows = page[t].rows
        /\ page'[t].plot = page[t].plot /\ page'[t].since = page[t].since
    BY <2>1, <2>4 DEF Fields
  <2>6. PageInv(t) /\ page[t].at = "own"
    BY <2>4 DEF BoardInv
  <2>7. ReadInv(t)'
    BY <2>2, <2>5, <2>6 DEF PageInv, ReadInv, tables, Partial
  <2>8. FrozenInv(t)'
    BY <2>2, <2>5, <2>6 DEF PageInv, FrozenInv, tables, Ranked
  <2>9. OwnInv(t)'
    BY <2>5 DEF OwnInv, Ranked
  <2> QED BY <2>2, <2>4, <2>7, <2>8, <2>9, ReadPage DEF PageInv
<1> QED BY <1>1, <1>2, <1>3 DEF ReadOwn

LEMMA ReadLiveStep ==
  ASSUME LeaderboardAssumption, BoardInv, NEW t \in Team, ReadLive(t) PROVE BoardInv'
<1> DEFINE all == Unofficial(latest)
           own == IF t \in DOMAIN all THEN all[t] ELSE NoScore
<1> DEFINE to == [at |-> "rank", all |-> all, own |-> own]
<1>1. DOMAIN to = {"at", "all", "own"} /\ to.at = "rank" /\ to.all = all /\ to.own = own
  OBVIOUS
<1>2. Step(t, "live", to) /\ UNCHANGED <<tables, flight>> /\ PageShape
  BY DEF ReadLive, BoardInv
<1> HIDE DEF to
<1>3. DOMAIN to \subseteq Fields
  BY <1>1 DEF Fields
<1>4. /\ PageShape' /\ page[t].at = "live"
      /\ \A u \in Team \ {t} : page'[u] = page[u]
      /\ \A x \in DOMAIN to : page'[t][x] = to[x]
      /\ \A x \in Fields \ DOMAIN to : page'[t][x] = page[t][x]
  BY <1>2, <1>3, StepSets
<1>5. /\ page'[t].at = "rank" /\ page'[t].all = all
      /\ page'[t].own = own /\ page'[t].ranking = page[t].ranking
      /\ page'[t].fixed = page[t].fixed /\ page'[t].rows = page[t].rows
      /\ page'[t].plot = page[t].plot /\ page'[t].since = page[t].since
  BY <1>1, <1>4 DEF Fields
<1>6. PageInv(t) /\ page[t].at = "live"
  BY <1>4 DEF BoardInv
<1>7. Partial(all)
  BY DEF BoardInv, TablesInv, Partial
<1>8. own \in Score \cup {NoScore}
  BY <1>7 DEF Partial
<1>9. t \in DOMAIN latest \ {Admin} => own = latest[t] /\ own # NoScore
  BY DEF BoardInv, TablesInv, Partial, LeaderboardAssumption
<1> HIDE DEF all, own
<1>10. ReadInv(t)'
  BY <1>2, <1>5, <1>6, <1>7, <1>8 DEF PageInv, ReadInv, tables, Partial
<1>11. FrozenInv(t)'
  BY <1>2, <1>5, <1>6 DEF PageInv, FrozenInv, tables, Ranked
<1>12. ASSUME t # Admin, Mine(t) # {} PROVE own # NoScore /\ UpToDate(t, own)
  <2>1. t \in DOMAIN latest
    BY <1>12 DEF Mine, BoardInv, TablesInv
  <2>2. PICK r \in scores : /\ r.team = t /\ r.score = latest[t]
                            /\ \A q \in scores : q.team = t => q.n <= r.n
    BY <2>1 DEF BoardInv, TablesInv
  <2> QED BY <1>9, <1>12, <2>1, <2>2 DEF UpToDate, Mine
<1>13. Mine(t)' = Mine(t) /\ (UpToDate(t, own) => UpToDate(t, page[t].own)')
  BY <1>2, <1>5 DEF Mine, UpToDate, tables
<1>14. ASSUME t # Admin PROVE OwnInv(t)'
  BY <1>5, <1>12, <1>13, <1>14 DEF OwnInv, Ranked
<1> QED BY <1>2, <1>4, <1>10, <1>11, <1>14, ReadPage DEF PageInv

\* The ranking is of the list of all, but for the team's own entry.
LEMMA RankingTells ==
  ASSUME NEW f, NEW S, NEW t, NEW own
  PROVE  /\ \A u \in DOMAIN Ranking(f, S, t, own) \ {t} : u \in S
         /\ \A u \in S \ {t} : Ranking(f, S, t, own)[u] = f[u]
         /\ IF own = NoScore THEN t \notin DOMAIN Ranking(f, S, t, own)
            ELSE t \in DOMAIN Ranking(f, S, t, own) /\ Ranking(f, S, t, own)[t] = own
<1>1. CASE own = NoScore
  BY <1>1 DEF Ranking, Over
<1>2. CASE own # NoScore
  BY <1>2 DEF Ranking, Over, Only
<1> QED BY <1>1, <1>2

LEMMA RankStep ==
  ASSUME LeaderboardAssumption, BoardInv, NEW t \in Team, Rank(t) PROVE BoardInv'
<1>0. PICK S \in Picks(page[t].all) :
         Step(t, "rank", [at |-> "plot", ranking |-> Ranking(page[t].all, S, t, page[t].own)])
  BY DEF Rank
<1> DEFINE ranking == Ranking(page[t].all, S, t, page[t].own)
<1> DEFINE to == [at |-> "plot", ranking |-> ranking]
<1>1. DOMAIN to = {"at", "ranking"} /\ to.at = "plot" /\ to.ranking = ranking
  OBVIOUS
<1>2. Step(t, "rank", to) /\ UNCHANGED <<tables, flight>> /\ PageShape
  BY <1>0 DEF Rank, BoardInv
<1> HIDE DEF to
<1>3. DOMAIN to \subseteq Fields
  BY <1>1 DEF Fields
<1>4. /\ PageShape' /\ page[t].at = "rank"
      /\ \A u \in Team \ {t} : page'[u] = page[u]
      /\ \A x \in DOMAIN to : page'[t][x] = to[x]
      /\ \A x \in Fields \ DOMAIN to : page'[t][x] = page[t][x]
  BY <1>2, <1>3, StepSets
<1>5. /\ page'[t].at = "plot" /\ page'[t].all = page[t].all
      /\ page'[t].own = page[t].own /\ page'[t].ranking = ranking
      /\ page'[t].fixed = page[t].fixed /\ page'[t].rows = page[t].rows
      /\ page'[t].plot = page[t].plot /\ page'[t].since = page[t].since
  BY <1>1, <1>4 DEF Fields
<1>6. PageInv(t) /\ page[t].at = "rank"
  BY <1>4 DEF BoardInv
<1>7. /\ S \subseteq DOMAIN page[t].all
      /\ \A u \in DOMAIN ranking \ {t} : u \in S
      /\ \A u \in S \ {t} : ranking[u] = page[t].all[u]
      /\ IF page[t].own = NoScore THEN t \notin DOMAIN ranking
         ELSE t \in DOMAIN ranking /\ ranking[t] = page[t].own
  <2>1. S \subseteq DOMAIN page[t].all
    BY <1>0 DEF Picks
  <2> QED BY <2>1, RankingTells
<1> HIDE DEF ranking
<1>8. Partial(ranking)
  BY <1>6, <1>7 DEF PageInv, ReadInv, Partial
<1>9. ReadInv(t)'
  BY <1>2, <1>5, <1>6, <1>8 DEF PageInv, ReadInv, tables, Partial
<1>10. ASSUME page[t].fixed PROVE FrozenFor(t, ranking)
  <2>1. page[t].all = Unofficial(latestFixed)
    BY <1>6, <1>10 DEF PageInv, FrozenInv
  <2> QED BY <1>7, <2>1 DEF FrozenFor
<1>11. FrozenInv(t)'
  <2>1. latestFixed' = latestFixed /\ scoresFixed' = scoresFixed
    BY <1>2 DEF tables
  <2>2. page'[t].fixed => FrozenFor(t, page[t].ranking)'
    BY <1>5, <1>10, <2>1 DEF FrozenFor
  <2>3. {r \in page'[t].plot : r.team # t} \subseteq scoresFixed'
    BY <1>5, <1>6, <2>1 DEF PageInv, FrozenInv
  <2> QED BY <1>5, <2>2, <2>3 DEF FrozenInv
<1>12. Mine(t)' = Mine(t) /\ \A s : UpToDate(t, s) => UpToDate(t, s)'
  BY <1>2, <1>5 DEF Mine, UpToDate, tables
<1>13. ASSUME t # Admin PROVE OwnInv(t)'
  <2>1. Mine(t) # {} => t \in DOMAIN ranking /\ UpToDate(t, ranking[t])
    BY <1>6, <1>7, <1>13 DEF PageInv, OwnInv
  <2>2. Mine(t)' # {} => t \in DOMAIN page'[t].ranking /\ UpToDate(t, page[t].ranking[t])'
    BY <1>2, <1>5, <1>12, <2>1 DEF UpToDate, tables
  <2> QED BY <1>5, <2>2 DEF OwnInv
<1> QED BY <1>2, <1>4, <1>9, <1>11, <1>13, ReadPage DEF PageInv

LEMMA FlyStep ==
  ASSUME LeaderboardAssumption, BoardInv, NEW t \in Team, Fly(t) PROVE BoardInv'
<1> DEFINE to == [at |-> "wait"]
<1>1. DOMAIN to = {"at"} /\ to.at = "wait"
  OBVIOUS
<1>2. Step(t, "plot", to) /\ UNCHANGED tables /\ PageShape
  BY DEF Fly, BoardInv
<1> HIDE DEF to
<1>3. DOMAIN to \subseteq Fields
  BY <1>1 DEF Fields
<1>4. /\ PageShape' /\ page[t].at = "plot"
      /\ \A u \in Team \ {t} : page'[u] = page[u]
      /\ \A x \in DOMAIN to : page'[t][x] = to[x]
      /\ \A x \in Fields \ DOMAIN to : page'[t][x] = page[t][x]
  BY <1>2, <1>3, StepSets
<1>5. /\ page'[t].at = "wait" /\ page'[t].all = page[t].all
      /\ page'[t].own = page[t].own /\ page'[t].ranking = page[t].ranking
      /\ page'[t].fixed = page[t].fixed /\ page'[t].rows = page[t].rows
      /\ page'[t].plot = page[t].plot /\ page'[t].since = page[t].since
  BY <1>1, <1>4 DEF Fields
<1>6. PageInv(t) /\ page[t].at = "plot"
  BY <1>4 DEF BoardInv
<1>7. flight'.leader # NoTeam /\ FlightInv'
  BY <1>2 DEF Fly, FlightInv, tables, LeaderboardAssumption
<1>8. ReadInv(t)'
  BY <1>2, <1>5, <1>6, <1>7 DEF PageInv, ReadInv, tables, Partial
<1>9. FrozenInv(t)'
  BY <1>2, <1>5, <1>6 DEF PageInv, FrozenInv, FrozenFor, tables, Ranked
<1>10. OwnInv(t) => OwnInv(t)'
  BY <1>2, <1>5, <1>6 DEF OwnInv, Ranked, Mine, UpToDate, tables
<1> QED BY <1>2, <1>4, <1>6, <1>7, <1>8, <1>9, <1>10, ServePage DEF PageInv

LEMMA JoinStep ==
  ASSUME LeaderboardAssumption, BoardInv, NEW t \in Team, Join(t) PROVE BoardInv'
<1> DEFINE to == [at |-> "wait"]
<1>1. DOMAIN to = {"at"} /\ to.at = "wait"
  OBVIOUS
<1>2. Step(t, "plot", to) /\ UNCHANGED <<tables, flight>> /\ PageShape
  BY DEF Join, BoardInv
<1> HIDE DEF to
<1>3. DOMAIN to \subseteq Fields
  BY <1>1 DEF Fields
<1>4. /\ PageShape' /\ page[t].at = "plot"
      /\ \A u \in Team \ {t} : page'[u] = page[u]
      /\ \A x \in DOMAIN to : page'[t][x] = to[x]
      /\ \A x \in Fields \ DOMAIN to : page'[t][x] = page[t][x]
  BY <1>2, <1>3, StepSets
<1>5. /\ page'[t].at = "wait" /\ page'[t].all = page[t].all
      /\ page'[t].own = page[t].own /\ page'[t].ranking = page[t].ranking
      /\ page'[t].fixed = page[t].fixed /\ page'[t].rows = page[t].rows
      /\ page'[t].plot = page[t].plot /\ page'[t].since = page[t].since
  BY <1>1, <1>4 DEF Fields
<1>6. PageInv(t) /\ page[t].at = "plot"
  BY <1>4 DEF BoardInv
<1>7. flight.leader # NoTeam
  BY DEF Join
<1>8. ReadInv(t)'
  BY <1>2, <1>5, <1>6, <1>7 DEF PageInv, ReadInv, tables, Partial
<1>9. FrozenInv(t)'
  BY <1>2, <1>5, <1>6 DEF PageInv, FrozenInv, FrozenFor, tables, Ranked
<1>10. OwnInv(t) => OwnInv(t)'
  BY <1>2, <1>5, <1>6 DEF OwnInv, Ranked, Mine, UpToDate, tables
<1> QED BY <1>2, <1>4, <1>6, <1>8, <1>9, <1>10, ReadPage DEF PageInv

\* The answer to the plot's query comes to all that wait for it.
LEMMA LandStep ==
  ASSUME LeaderboardAssumption, BoardInv, Land PROVE BoardInv'
<1>1. /\ UNCHANGED tables /\ flight' = NoFlight /\ PageShape
      /\ page' = [u \in Team |-> IF u \in Served
                                 THEN [page[u] EXCEPT !.rows = flight.rows, !.at = "plot_own"]
                                 ELSE page[u]]
  BY DEF Land, BoardInv
<1>2. \A u \in Team : DOMAIN page'[u] = Fields
  BY <1>1 DEF PageShape
<1>3. PageShape' /\ FlightInv'
  BY <1>1, <1>2 DEF PageShape, FlightInv
<1>4. TablesInv'
  BY <1>1 DEF BoardInv, TablesInv, tables, Partial
<1>5. ASSUME NEW u \in Team, u \notin Served PROVE PageInv(u)'
  <2>1. page'[u] = page[u] /\ page[u].at # "wait" /\ UNCHANGED tables
    BY <1>1, <1>5 DEF Served
  <2> QED BY <2>1, OtherPage
<1>6. ASSUME NEW u \in Team, u \in Served PROVE PageInv(u)'
  <2>1. page'[u] = [page[u] EXCEPT !.rows = flight.rows, !.at = "plot_own"] /\ page[u].at = "wait"
    BY <1>1, <1>6 DEF Served
  <2>2. /\ page'[u].at = "plot_own" /\ page'[u].rows = flight.rows
        /\ page'[u].all = page[u].all /\ page'[u].own = page[u].own
        /\ page'[u].ranking = page[u].ranking /\ page'[u].fixed = page[u].fixed
        /\ page'[u].plot = page[u].plot /\ page'[u].since = page[u].since
    BY <1>1, <2>1 DEF PageShape, Fields
  <2>3. PageInv(u) /\ flight.rows \subseteq scoresFixed
    BY DEF BoardInv, FlightInv
  <2>4. ReadInv(u)'
    BY <1>1, <2>1, <2>2, <2>3 DEF PageInv, ReadInv, tables, Partial
  <2>5. FrozenInv(u)'
    <3>1. latestFixed' = latestFixed /\ scoresFixed' = scoresFixed
      BY <1>1 DEF tables
    <3>2. page'[u].fixed => FrozenFor(u, page[u].ranking)'
      BY <2>1, <2>2, <2>3, <3>1 DEF FrozenFor, PageInv, FrozenInv, Ranked
    <3>3. {r \in page'[u].plot : r.team # u} \subseteq scoresFixed'
      BY <2>2, <2>3, <3>1 DEF PageInv, FrozenInv
    <3> QED BY <2>2, <2>3, <3>1, <3>2, <3>3 DEF FrozenInv
  <2>6. OwnInv(u) => OwnInv(u)'
    BY <1>1, <2>1, <2>2 DEF OwnInv, Ranked, Mine, UpToDate, tables
  <2> QED BY <2>3, <2>4, <2>5, <2>6 DEF PageInv
<1> QED BY <1>3, <1>4, <1>5, <1>6 DEF BoardInv

LEMMA ReadOwnPlotStep ==
  ASSUME LeaderboardAssumption, BoardInv, NEW t \in Team, ReadOwnPlot(t) PROVE BoardInv'
<1> DEFINE plot == WithOwn(t, page[t].rows)
<1> DEFINE to == [at |-> "shown", plot |-> plot, rows |-> {}, all |-> Empty, own |-> NoScore]
<1>1. DOMAIN to = {"at", "plot", "rows", "all", "own"} /\ to.at = "shown" /\ to.plot = plot /\ to.rows = {} /\ to.all = Empty /\ to.own = NoScore
  OBVIOUS
<1>2. Step(t, "plot_own", to) /\ UNCHANGED <<tables, flight>> /\ PageShape
  BY DEF ReadOwnPlot, BoardInv
<1> HIDE DEF to
<1>3. DOMAIN to \subseteq Fields
  BY <1>1 DEF Fields
<1>4. /\ PageShape' /\ page[t].at = "plot_own"
      /\ \A u \in Team \ {t} : page'[u] = page[u]
      /\ \A x \in DOMAIN to : page'[t][x] = to[x]
      /\ \A x \in Fields \ DOMAIN to : page'[t][x] = page[t][x]
  BY <1>2, <1>3, StepSets
<1>5. /\ page'[t].at = "shown" /\ page'[t].all = Empty
      /\ page'[t].own = NoScore /\ page'[t].ranking = page[t].ranking
      /\ page'[t].fixed = page[t].fixed /\ page'[t].rows = {}
      /\ page'[t].plot = plot /\ page'[t].since = page[t].since
  BY <1>1, <1>4 DEF Fields
<1>6. PageInv(t) /\ page[t].at = "plot_own"
  BY <1>4 DEF BoardInv
<1>7. page[t].rows \subseteq scoresFixed /\ scoresFixed \subseteq scores
  BY <1>6 DEF PageInv, FrozenInv, BoardInv, TablesInv
<1>8. /\ plot \subseteq scores
      /\ {r \in plot : r.team # t} \subseteq scoresFixed
      /\ t # Admin => Mine(t) \subseteq plot
  BY <1>7 DEF WithOwn, Mine
<1> HIDE DEF plot
<1>9. ReadInv(t)'
  BY <1>2, <1>5, <1>6, <1>8 DEF PageInv, ReadInv, tables, Partial
<1>10. FrozenInv(t)'
  <2>1. latestFixed' = latestFixed /\ scoresFixed' = scoresFixed
    BY <1>2 DEF tables
  <2>2. page'[t].fixed => FrozenFor(t, page[t].ranking)'
    BY <1>5, <1>6, <2>1 DEF FrozenFor, PageInv, FrozenInv, Ranked
  <2> QED BY <1>5, <1>8, <2>1, <2>2 DEF FrozenInv
<1>11. ASSUME t # Admin PROVE OwnInv(t)'
  <2>1. Mine(t)' = Mine(t) /\ \A s : UpToDate(t, s) => UpToDate(t, s)'
    BY <1>2, <1>5 DEF Mine, UpToDate, tables
  <2>2. Mine(t) # {} => t \in DOMAIN page[t].ranking /\ UpToDate(t, page[t].ranking[t])
    BY <1>6, <1>11 DEF PageInv, OwnInv, Ranked
  <2>3. Mine(t)' # {} => t \in DOMAIN page'[t].ranking /\ UpToDate(t, page[t].ranking[t])'
    BY <1>2, <1>5, <2>1, <2>2 DEF UpToDate, tables
  <2> QED BY <1>5, <1>8, <1>11, <2>1, <2>3 DEF OwnInv
<1> QED BY <1>2, <1>4, <1>9, <1>10, <1>11, ReadPage DEF PageInv

-----------------------------------------------------------------------------
(* The tables move on under the pages *)

\* A result that arrives is later than every page's request.
LEMMA DoneJobStep ==
  ASSUME LeaderboardAssumption, BoardInv, NEW t \in Team, NEW s \in Score, DoneJob(t, s)
  PROVE  BoardInv'
<1> DEFINE n == Cardinality(scores)
           new == [n |-> n + 1, team |-> t, score |-> s]
<1>1. /\ scores' = scores \cup {new} /\ UNCHANGED <<latestFixed, scoresFixed, flight, page>>
      /\ new \notin scores /\ n \in Nat
  BY FS_CardinalityType DEF DoneJob, BoardInv, TablesInv
<1>2. Cardinality(scores') = n + 1
  <2>1. IsFiniteSet(scores)
    BY DEF BoardInv, TablesInv
  <2> HIDE DEF new
  <2> QED BY <1>1, <2>1, FS_AddElement
<1>3. TablesInv'
  BY DoneJobTables DEF BoardInv
<1>4. PageShape' /\ FlightInv'
  BY <1>1 DEF BoardInv, PageShape, FlightInv
<1>5. ASSUME NEW u \in Team PROVE PageInv(u)'
  <2>1. PageInv(u) /\ page[u].since \in 0 .. n /\ page' = page
    BY <1>1 DEF BoardInv, PageInv, ReadInv
  <2>2. Mine(u)' = Mine(u)
    BY <1>1, <2>1 DEF Mine
  <2>3. \A v : UpToDate(u, v) => UpToDate(u, v)'
    BY <1>1, <2>2 DEF UpToDate
  <2>4. ReadInv(u)'
    <3>1. page[u].since \in 0 .. n + 1
      BY <1>1, <2>1
    <3> QED BY <1>1, <1>2, <2>1, <3>1 DEF PageInv, ReadInv, Partial
  <2>5. FrozenInv(u)'
    BY <1>1, <2>1 DEF PageInv, FrozenInv, FrozenFor, Ranked
  <2>6. OwnInv(u) => OwnInv(u)'
    <3>1. Mine(u) # {} /\ UpToDate(u, page[u].own) => UpToDate(u, page[u].own)'
      BY <1>1, <2>2 DEF UpToDate
    <3>2. UpToDate(u, page[u].ranking[u]) => UpToDate(u, page[u].ranking[u])'
      BY <1>1, <2>2 DEF UpToDate
    <3> QED BY <2>1, <2>2, <3>1, <3>2 DEF OwnInv, Ranked
  <2> QED BY <2>1, <2>4, <2>5, <2>6 DEF PageInv
<1> QED BY <1>3, <1>4, <1>5 DEF BoardInv

\* A snapshot is filled once, while no page has read anything of it.
LEMMA FixRankingStep ==
  ASSUME LeaderboardAssumption, BoardInv, FixRanking PROVE BoardInv'
<1>1. latestFixed = Empty /\ UNCHANGED <<latest, scores, scoresFixed, flight, page>>
  BY DEF FixRanking
<1>2. TablesInv'
  BY DEF FixRanking, BoardInv, TablesInv
<1>3. PageShape' /\ FlightInv'
  BY <1>1 DEF BoardInv, PageShape, FlightInv
<1>4. ASSUME NEW u \in Team PROVE PageInv(u)'
  <2>1. PageInv(u)
    BY DEF BoardInv
  <2>2. ReadInv(u)'
    BY <1>1, <2>1 DEF PageInv, ReadInv, Partial
  <2>3. Unofficial(latestFixed) = Empty
    BY <1>1
  <2>4. page[u].at # "own" /\ ~ (page[u].at = "rank" /\ page[u].fixed)
    BY <2>1, <2>3 DEF PageInv, FrozenInv
  <2>5. Ranked(u) /\ page[u].fixed => FrozenFor(u, page[u].ranking)'
    BY <1>1, <2>1 DEF PageInv, FrozenInv, FrozenFor
  <2>6. FrozenInv(u)'
    BY <1>1, <2>1, <2>4, <2>5 DEF PageInv, FrozenInv, Ranked
  <2>7. OwnInv(u) => OwnInv(u)'
    BY <1>1 DEF OwnInv, Ranked, Mine, UpToDate
  <2> QED BY <2>1, <2>2, <2>6, <2>7 DEF PageInv
<1> QED BY <1>2, <1>3, <1>4 DEF BoardInv

LEMMA FixPlotStep ==
  ASSUME LeaderboardAssumption, BoardInv, FixPlot PROVE BoardInv'
<1>1. /\ scoresFixed \subseteq scoresFixed'
      /\ UNCHANGED <<latest, scores, latestFixed, flight, page>>
  BY DEF FixPlot
<1>2. TablesInv'
  BY DEF FixPlot, BoardInv, TablesInv
<1>3. PageShape' /\ FlightInv'
  BY <1>1 DEF BoardInv, PageShape, FlightInv
<1>4. ASSUME NEW u \in Team PROVE PageInv(u)'
  <2>1. PageInv(u)
    BY DEF BoardInv
  <2>2. ReadInv(u)'
    BY <1>1, <2>1 DEF PageInv, ReadInv, Partial
  <2>3. FrozenInv(u)'
    BY <1>1, <2>1 DEF PageInv, FrozenInv, FrozenFor, Ranked
  <2>4. OwnInv(u) => OwnInv(u)'
    BY <1>1 DEF OwnInv, Ranked, Mine, UpToDate
  <2> QED BY <2>1, <2>2, <2>3, <2>4 DEF PageInv
<1> QED BY <1>2, <1>3, <1>4 DEF BoardInv

-----------------------------------------------------------------------------
(* The freeze *)

\* A step that changes nothing.
LEMMA StandStill == BoardInv /\ UNCHANGED boardVars => BoardInv'
<1> SUFFICES ASSUME BoardInv, UNCHANGED boardVars PROVE BoardInv'
  OBVIOUS
<1>1. UNCHANGED <<tables, flight, page>>
  BY DEF boardVars
<1>2. TablesInv'
  BY <1>1 DEF BoardInv, TablesInv, tables, Partial
<1>3. PageShape' /\ FlightInv'
  BY <1>1 DEF BoardInv, PageShape, FlightInv, tables
<1>4. ASSUME NEW u \in Team PROVE PageInv(u)'
  <2>1. page'[u] = page[u] /\ UNCHANGED tables /\ (page[u].at = "wait" => flight'.leader # NoTeam)
    BY <1>1 DEF BoardInv, PageInv, ReadInv
  <2> QED BY <2>1, OtherPage
<1> QED BY <1>2, <1>3, <1>4 DEF BoardInv

LEMMA BoardStep == LeaderboardAssumption /\ BoardInv /\ [BoardNext]_boardVars => BoardInv'
<1> SUFFICES ASSUME LeaderboardAssumption, BoardInv, [BoardNext]_boardVars PROVE BoardInv'
  OBVIOUS
<1>1. ASSUME NEW t \in Team, ServeIndex(t) PROVE BoardInv'
  BY <1>1, RequestStep, ReadSnapshotStep, ReadOwnStep, ReadLiveStep, RankStep, FlyStep, JoinStep,
     ReadOwnPlotStep DEF ServeIndex
<1>2. ASSUME NEW t \in Team, NEW s \in Score, DoneJob(t, s) PROVE BoardInv'
  BY <1>2, DoneJobStep
<1>3. CASE FixRanking \/ FixPlot \/ Land
  BY <1>3, FixRankingStep, FixPlotStep, LandStep
<1>4. CASE UNCHANGED boardVars
  BY <1>4, StandStill
<1> QED BY <1>1, <1>2, <1>3, <1>4 DEF BoardNext

LEMMA BoardInvFreezes == BoardInv => FreezeHolds
<1> SUFFICES ASSUME BoardInv PROVE FreezeHolds
  OBVIOUS
<1>1. \A t \in Team : ReadInv(t) /\ FrozenInv(t) /\ (t # Admin => OwnInv(t))
  BY DEF BoardInv, PageInv
<1>2. BoardTypeOK
  BY <1>1 DEF BoardTypeOK, BoardInv, TablesInv, ReadInv
<1>3. FixedIsFrozen
  BY <1>1 DEF FixedIsFrozen, Displayed, FrozenInv, FrozenFor, Ranked
<1>4. PlotFrozen
  BY <1>1 DEF PlotFrozen, FrozenInv
<1>5. OwnIsFresh
  BY <1>1 DEF OwnIsFresh, Displayed, OwnInv, Ranked, Mine, UpToDate
<1> QED BY <1>2, <1>3, <1>4, <1>5 DEF FreezeHolds

\* A page tells of other teams what the freeze allows and of its own team what is
\* committed, in whatever order results, the staff's statements and the queries of any
\* number of pages come.
THEOREM FreezeCorrect == ASSUME LeaderboardAssumption PROVE BoardSpec => []FreezeHolds
<1>1. BoardInit => BoardInv
  BY BoardStart
<1>2. BoardInv /\ [BoardNext]_boardVars => BoardInv'
  BY BoardStep
<1> QED BY <1>1, <1>2, BoardInvFreezes, PTL DEF BoardSpec

\* A set of numbers that is not empty has a least one.
LEMMA LeastNumber ==
    ASSUME NEW B \in SUBSET Nat, B # {}
    PROVE  \E u \in B : \A v \in B : u <= v
  <1>1. PICK u \in B : \A v \in B : ~ (<<v, u>> \in OpToRel(<, Nat))
    BY WFMin, NatLessThanWellFounded
  <1>2. \A v \in B : ~ (v < u)
    BY <1>1 DEF OpToRel
  <1> QED BY <1>2

-----------------------------------------------------------------------------
(* Input: keyboard *)

\* Of a key that was not pressed and did not go up at a clearKey, the ups and downs amount to
\* what is pressed; while it has not been heard of, neither of them is left over.
KeysAddUp ==
    /\ press \in [Keys!Key -> BOOLEAN] /\ held \in [Keys!Key -> BOOLEAN]
    /\ keyboardDown \in [Keys!Key -> BOOLEAN] /\ keyboardUp \in [Keys!Key -> BOOLEAN]
    /\ DOMAIN key \subseteq Keys!Key /\ key \in [DOMAIN key -> BOOLEAN]
    /\ \A k \in Keys!Key : keyboardDown[k] => press[k]
    /\ \A k \in Keys!Key \ (cleared \cup DOMAIN key) : ~ press[k] /\ ~ keyboardUp[k]

KeysInv == KeysAddUp /\ Keys!EdgesAddUp

LEMMA KeysStart ==
    ASSUME Keys!Init
    PROVE  KeysInv
  <1>1. KeysAddUp
    BY DEF Keys!Init, KeysAddUp
  <1>2. Keys!EdgesAddUp
    BY DEF Keys!Init, Keys!EdgesAddUp
  <1> QED  BY <1>1, <1>2 DEF KeysInv

LEMMA KeysStay ==
    ASSUME KeysInv, UNCHANGED keyboardVars
    PROVE  KeysInv'
  BY DEF keyboardVars, KeysInv, KeysAddUp, Keys!EdgesAddUp, Keys!Key

\* What is set or heard of a key waits for the next frame.
LEMMA KeysHear ==
    ASSUME KeysInv, NEW k \in Keys!Key, NEW b \in BOOLEAN,
           key' = Keys!Put(k, b), UNCHANGED <<Keys!frame, cleared>>
    PROVE  KeysInv'
  <1>1. key' \in [DOMAIN key' -> BOOLEAN] /\ DOMAIN key' = DOMAIN key \cup {k}
    BY DEF Keys!Put, Keys!Heard, KeysInv, KeysAddUp
  <1>2. UNCHANGED <<press, keyboardDown, keyboardUp, held, moved, cleared>>
    BY DEF Keys!frame
  <1>3. KeysAddUp'
    BY <1>1, <1>2 DEF KeysInv, KeysAddUp, Keys!Key
  <1>4. Keys!EdgesAddUp'
    BY <1>2 DEF KeysInv, Keys!EdgesAddUp, Keys!Key
  <1> QED  BY <1>3, <1>4 DEF KeysInv

LEMMA KeysForget ==
    ASSUME KeysInv, Keys!ClearKey
    PROVE  KeysInv'
  <1>1. UNCHANGED <<press, keyboardDown, keyboardUp, held, moved>>
    BY DEF Keys!ClearKey, Keys!frame
  <1>2. key' \in [DOMAIN key' -> BOOLEAN] /\ DOMAIN key' = {}
    BY DEF Keys!ClearKey
  <1>3. cleared' = cleared \cup {k \in Keys!Key : press[k] \/ keyboardUp[k]}
    BY DEF Keys!ClearKey
  <1>4. KeysAddUp'
    BY <1>1, <1>2, <1>3 DEF KeysInv, KeysAddUp, Keys!Key
  <1>5. Keys!EdgesAddUp'
    BY <1>1, <1>3 DEF KeysInv, Keys!EdgesAddUp, Keys!Key
  <1> QED  BY <1>4, <1>5 DEF KeysInv

\* A frame turns what was heard of into what is pressed, and shows the difference.
LEMMA KeysUpdate ==
    ASSUME KeysInv, Keys!Update
    PROVE  KeysInv'
  <1> DEFINE K == Keys!Key
  <1>1. /\ press \in [K -> BOOLEAN] /\ held \in [K -> BOOLEAN]
        /\ keyboardDown \in [K -> BOOLEAN] /\ keyboardUp \in [K -> BOOLEAN]
        /\ DOMAIN key \subseteq K /\ key \in [DOMAIN key -> BOOLEAN]
        /\ \A k \in K : keyboardDown[k] => press[k]
        /\ \A k \in K \ (cleared \cup DOMAIN key) : ~ press[k] /\ ~ keyboardUp[k]
        /\ \A k \in K \ cleared : held[k] = press[k] /\ k \notin moved
    BY DEF KeysInv, KeysAddUp, Keys!EdgesAddUp
  <1>2. /\ press' = [k \in K |-> IF k \in DOMAIN key THEN key[k] ELSE press[k]]
        /\ keyboardDown' = [k \in K |-> IF k \in DOMAIN key THEN key[k] # press[k] /\ key[k]
                                        ELSE keyboardDown[k]]
        /\ keyboardUp' = [k \in K |-> IF k \in DOMAIN key THEN key[k] # press[k] /\ press[k]
                                      ELSE keyboardUp[k]]
        /\ held' = [k \in K |-> keyboardDown'[k] \/ (held[k] /\ ~ keyboardUp'[k])]
        /\ moved' = {k \in K : (keyboardDown'[k] /\ held[k]) \/ (keyboardUp'[k] /\ ~ held[k])}
        /\ key' = key /\ cleared' = cleared
    BY DEF Keys!Update, Keys!Heard, Keys!WentDown
  <1> HIDE DEF K
  <1>3. ASSUME NEW k \in K
        PROVE  /\ press'[k] \in BOOLEAN /\ keyboardDown'[k] \in BOOLEAN /\ keyboardUp'[k] \in BOOLEAN
               /\ held'[k] \in BOOLEAN /\ (keyboardDown'[k] => press'[k])
    BY <1>1, <1>2, <1>3, Zenon
  <1>4. ASSUME NEW k \in K, k \notin cleared \cup DOMAIN key
        PROVE  ~ press'[k] /\ ~ keyboardUp'[k]
    BY <1>1, <1>2, <1>4
  <1>5. KeysAddUp'
    BY <1>1, <1>2, <1>3, <1>4 DEF KeysAddUp, K
  <1>6. ASSUME NEW k \in K \ cleared
        PROVE  held'[k] = press'[k] /\ k \notin moved'
    <2>1. CASE k \in DOMAIN key
      <3>1. press[k] \in BOOLEAN /\ key[k] \in BOOLEAN /\ held[k] = press[k]
        BY <1>1, <2>1
      <3>2. /\ press'[k] = key[k] /\ keyboardDown'[k] = (key[k] # press[k] /\ key[k])
            /\ keyboardUp'[k] = (key[k] # press[k] /\ press[k])
        BY <1>2, <2>1
      <3>3. held'[k] = (keyboardDown'[k] \/ (held[k] /\ ~ keyboardUp'[k]))
        BY <1>2
      <3>4. held'[k] = press'[k]
        BY <3>1, <3>2, <3>3, Zenon
      <3>5. ~ (keyboardDown'[k] /\ held[k]) /\ ~ (keyboardUp'[k] /\ ~ held[k])
        BY <3>1, <3>2, Zenon
      <3> QED  BY <1>2, <3>4, <3>5
    <2>2. CASE k \notin DOMAIN key
      <3>1. ~ press[k] /\ ~ keyboardUp[k] /\ ~ keyboardDown[k] /\ held[k] = press[k]
        BY <1>1, <2>2
      <3>2. press'[k] = press[k] /\ keyboardDown'[k] = keyboardDown[k] /\ keyboardUp'[k] = keyboardUp[k]
        BY <1>2, <2>2
      <3>3. held'[k] = (keyboardDown'[k] \/ (held[k] /\ ~ keyboardUp'[k]))
        BY <1>2
      <3>4. held'[k] \in BOOLEAN /\ press'[k] \in BOOLEAN
        BY <1>3
      <3>5. held'[k] = press'[k]
        BY <3>1, <3>2, <3>3, <3>4, Zenon
      <3> QED  BY <1>2, <3>1, <3>2, <3>5
    <2> QED  BY <2>1, <2>2
  <1>7. Keys!EdgesAddUp'
    BY <1>2, <1>6 DEF Keys!EdgesAddUp, Keys!Key, K
  <1> QED  BY <1>5, <1>7 DEF KeysInv

LEMMA KeysStep ==
    ASSUME KeysInv, Keys!Next
    PROVE  KeysInv'
  <1>1. ASSUME NEW k \in Keys!Key, Keys!KeyDown(k)
        PROVE  KeysInv'
    BY <1>1, KeysHear DEF Keys!KeyDown
  <1>2. ASSUME NEW k \in Keys!Key, Keys!KeyUp(k)
        PROVE  KeysInv'
    BY <1>2, KeysHear DEF Keys!KeyUp
  <1>3. ASSUME NEW k \in Keys!Key, NEW b \in BOOLEAN, Keys!SetKey(k, b)
        PROVE  KeysInv'
    BY <1>3, KeysHear DEF Keys!SetKey
  <1> QED  BY <1>1, <1>2, <1>3, KeysForget, KeysUpdate DEF Keys!Next

\* Unless opposite keys are pressed, the angle is that of the direction: of none, of one, or
\* of two that are next to each other.
LEMMA AngleFollows ==
    ASSUME press \in [Keys!Key -> BOOLEAN]
    PROVE  Keys!AngleOfDirection
  <1> DEFINE P == {k \in Keys!Key : press[k]}
  <1> SUFFICES ASSUME ~ ({"left", "right"} \subseteq P), ~ ({"up", "down"} \subseteq P)
               PROVE  Keys!GetKeyAngle = Keys!Degrees(Keys!GetKeyDirection)
    BY DEF Keys!AngleOfDirection, Keys!Opposite, Keys!Pressed
  <1>1. P \in SUBSET Keys!Key /\ \A k \in Keys!Key : k \in P <=> press[k]
    OBVIOUS
  <1>2. /\ "left" \in Keys!Key /\ "right" \in Keys!Key /\ "up" \in Keys!Key /\ "down" \in Keys!Key
        /\ \A k \in P : k = "left" \/ k = "right" \/ k = "up" \/ k = "down"
    BY DEF Keys!Key
  <1>3. Keys!GetKeyAngle = Keys!AngleTable[P]
    BY DEF Keys!GetKeyAngle, Keys!Pressed
  <1>4. Keys!GetKeyDirection =
            <<IF "left" \in P THEN -1 ELSE IF "right" \in P THEN 1 ELSE 0,
              IF "up" \in P THEN -1 ELSE IF "down" \in P THEN 1 ELSE 0>>
    BY <1>1, <1>2 DEF Keys!GetKeyDirection
  <1> HIDE DEF P
  <1>5. \/ P = {} \/ P = {"left"} \/ P = {"right"} \/ P = {"up"} \/ P = {"down"}
        \/ P = {"up", "right"} \/ P = {"right", "down"} \/ P = {"left", "up"} \/ P = {"left", "down"}
    BY <1>2
  <1>6. \A s, t : s = t <=> \A k : k \in s <=> k \in t
    OBVIOUS
  <1>7. CASE P = {}
    BY <1>1, <1>3, <1>4, <1>6, <1>7 DEF Keys!AngleTable, Keys!Degrees
  <1>8. CASE P = {"left"}
    BY <1>1, <1>3, <1>4, <1>8 DEF Keys!AngleTable, Keys!Degrees
  <1>9. CASE P = {"right"}
    <2>1. Keys!AngleTable[P] = 0
      BY <1>1, <1>6, <1>9 DEF Keys!AngleTable
    <2>2. Keys!GetKeyDirection = <<1, 0>>
      BY <1>4, <1>9
    <2>3. Keys!Degrees(<<1, 0>>) = 0
      BY DEF Keys!Degrees
    <2> QED  BY <1>3, <2>1, <2>2, <2>3
  <1>10. CASE P = {"up"}
    BY <1>1, <1>3, <1>4, <1>10 DEF Keys!AngleTable, Keys!Degrees
  <1>11. CASE P = {"down"}
    <2>1. Keys!AngleTable[P] = 270
      BY <1>1, <1>6, <1>11 DEF Keys!AngleTable
    <2>2. Keys!GetKeyDirection = <<0, 1>>
      BY <1>4, <1>11
    <2>3. Keys!Degrees(<<0, 1>>) = 270
      BY DEF Keys!Degrees
    <2> QED  BY <1>3, <2>1, <2>2, <2>3
  <1>12. CASE P = {"up", "right"}
    BY <1>1, <1>3, <1>4, <1>12 DEF Keys!AngleTable, Keys!Degrees
  <1>13. CASE P = {"right", "down"}
    BY <1>1, <1>3, <1>4, <1>13 DEF Keys!AngleTable, Keys!Degrees
  <1>14. CASE P = {"left", "up"}
    BY <1>1, <1>3, <1>4, <1>14 DEF Keys!AngleTable, Keys!Degrees
  <1>15. CASE P = {"left", "down"}
    BY <1>1, <1>3, <1>4, <1>15 DEF Keys!AngleTable, Keys!Degrees
  <1> QED  BY <1>5, <1>7, <1>8, <1>9, <1>10, <1>11, <1>12, <1>13, <1>14, <1>15

-----------------------------------------------------------------------------
(* Input: gamepads *)

RawPad == [time : Nat, pressed : BOOLEAN, index : Pads!Index]
PadObject == [pressed : BOOLEAN, down : BOOLEAN, up : BOOLEAN, connected : BOOLEAN,
              of : Pads!Index \cup {Nothing}]

\* An index has an object exactly if it is among those that were created.
PadsInv ==
    /\ raw \in [Pads!Index -> RawPad \cup {Nothing}] /\ time \in Nat
    /\ created \in Seq(Pads!Index) /\ DOMAIN gamepads = Pads!Index
    /\ \A i \in Pads!Index : IF Pads!Contains(created, i) THEN gamepads[i] \in PadObject
                             ELSE gamepads[i] = Nothing
    /\ Pads!EdgesAlternate

LEMMA PadsStart ==
    ASSUME Pads!Init
    PROVE  PadsInv
  <1>1. created = <<>> /\ twice = {} /\ gamepads = [i \in Pads!Index |-> Nothing]
        /\ raw = [i \in Pads!Index |-> Nothing] /\ time = 0
    BY DEF Pads!Init
  <1>2. \A i \in Pads!Index : ~ Pads!Contains(created, i)
    BY <1>1 DEF Pads!Contains
  <1> QED  BY <1>1, <1>2 DEF PadsInv, Pads!EdgesAlternate

LEMMA PadsStay ==
    ASSUME PadsInv, UNCHANGED gamepadsVars
    PROVE  PadsInv'
  BY DEF gamepadsVars, PadsInv, Pads!EdgesAlternate, Pads!Contains, RawPad, PadObject, Pads!Index

-----------------------------------------------------------------------------
\* The objects after one was asked for, and perhaps told that its pad came or went.
LEMMA PadsAsked ==
    ASSUME PadsInv, NEW i \in Pads!Index, NEW g, Pads!Creation(i),
           g = Pads!Got(i) \/ \E c \in BOOLEAN : g = [Pads!Got(i) EXCEPT ![i].connected = c]
    PROVE  /\ created' \in Seq(Pads!Index) /\ DOMAIN g = Pads!Index
           /\ \A j \in Pads!Index : IF Pads!Contains(created, j)' THEN g[j] \in PadObject
                                    ELSE g[j] = Nothing
  <1> DEFINE I == Pads!Index
             Made(s, j) == \E n \in 1 .. Len(s) : s[n] = j
  <1>1. created \in Seq(I) /\ DOMAIN gamepads = I
        /\ \A j \in I : IF Made(created, j) THEN gamepads[j] \in PadObject ELSE gamepads[j] = Nothing
    BY DEF PadsInv, Pads!Contains
  <1>2. created' = IF gamepads[i] = Nothing THEN Append(created, i) ELSE created
    BY DEF Pads!Creation
  <1>3. created' \in Seq(I)
    BY <1>1, <1>2
  <1>4. \A j \in I : Made(created', j) <=> Made(created, j) \/ j = i
    <2>1. CASE gamepads[i] = Nothing
      <3>1. Len(created') = Len(created) + 1 /\ created'[Len(created) + 1] = i
            /\ \A n \in 1 .. Len(created) : created'[n] = created[n]
        BY <1>1, <1>2, <2>1
      <3>2. Len(created) \in Nat
        BY <1>1
      <3> QED  BY <3>1, <3>2
    <2>2. CASE gamepads[i] # Nothing
      BY <1>1, <1>2, <2>2
    <2> QED  BY <2>1, <2>2
  <1> HIDE DEF Made
  <1>5. Pads!Blank \in PadObject
    BY DEF Pads!Blank, PadObject
  <1>6. /\ DOMAIN Pads!Got(i) = I /\ Pads!Got(i)[i] \in PadObject
        /\ \A j \in I \ {i} : Pads!Got(i)[j] = gamepads[j]
    BY <1>1, <1>5 DEF Pads!Got
  <1>7. DOMAIN g = I /\ g[i] \in PadObject /\ \A j \in I \ {i} : g[j] = gamepads[j]
    <2>1. CASE g = Pads!Got(i)
      BY <1>6, <2>1
    <2>2. CASE \E c \in BOOLEAN : g = [Pads!Got(i) EXCEPT ![i].connected = c]
      <3>1. PICK c \in BOOLEAN : g = [Pads!Got(i) EXCEPT ![i].connected = c]
        BY <2>2
      <3>2. g = [Pads!Got(i) EXCEPT ![i] = [Pads!Got(i)[i] EXCEPT !.connected = c]]
        BY <3>1
      <3>3. [Pads!Got(i)[i] EXCEPT !.connected = c] \in PadObject
        BY <1>6 DEF PadObject
      <3> QED  BY <1>6, <3>2, <3>3
    <2> QED  BY <2>1, <2>2
  <1>8. \A j \in I : IF Made(created', j) THEN g[j] \in PadObject ELSE g[j] = Nothing
    BY <1>1, <1>4, <1>7
  <1> QED  BY <1>3, <1>7, <1>8 DEF Made, Pads!Contains

\* Nothing that was polled or objected to changes but at an update.
LEMMA PadsKept ==
    ASSUME PadsInv, UNCHANGED <<twice, polled>>
    PROVE  Pads!EdgesAlternate'
  BY DEF PadsInv, Pads!EdgesAlternate

LEMMA PadsGet ==
    ASSUME PadsInv, NEW i \in Pads!Index, Pads!Get(i)
    PROVE  PadsInv'
  <1>1. raw' = raw /\ time' = time /\ UNCHANGED <<twice, polled>>
        /\ gamepads' = Pads!Got(i) /\ Pads!Creation(i)
    BY DEF Pads!Get
  <1>2. Pads!EdgesAlternate'
    BY <1>1, PadsKept
  <1>3. /\ created' \in Seq(Pads!Index) /\ DOMAIN gamepads' = Pads!Index
        /\ \A j \in Pads!Index : IF Pads!Contains(created, j)' THEN gamepads'[j] \in PadObject
                                 ELSE gamepads'[j] = Nothing
    BY <1>1, PadsAsked
  <1> QED  BY <1>1, <1>2, <1>3 DEF PadsInv, RawPad, PadObject, Pads!Index

LEMMA PadsDispose ==
    ASSUME PadsInv, NEW i \in Pads!Index, Pads!Dispose(i)
    PROVE  PadsInv'
  BY DEF Pads!Dispose, PadsInv, Pads!EdgesAlternate, Pads!Contains, RawPad, PadObject, Pads!Index

\* A pad that comes or goes.
LEMMA PadsEvent ==
    ASSUME PadsInv, NEW i \in Pads!Index, NEW pad \in RawPad \cup {Nothing}, NEW c \in BOOLEAN,
           Pads!Change(i, pad), Pads!Event(i, c)
    PROVE  PadsInv'
  <1>1. raw' = [raw EXCEPT ![i] = pad] /\ time' = time + 1
    BY DEF Pads!Change
  <1>2. UNCHANGED <<twice, polled>> /\ Pads!Creation(i)
        /\ gamepads' = [Pads!Got(i) EXCEPT ![i].connected = c]
    BY DEF Pads!Event
  <1>3. Pads!EdgesAlternate'
    BY <1>2, PadsKept
  <1>4. /\ created' \in Seq(Pads!Index) /\ DOMAIN gamepads' = Pads!Index
        /\ \A j \in Pads!Index : IF Pads!Contains(created, j)' THEN gamepads'[j] \in PadObject
                                 ELSE gamepads'[j] = Nothing
    BY <1>2, PadsAsked
  <1>5. raw' \in [Pads!Index -> RawPad \cup {Nothing}] /\ time' \in Nat
    BY <1>1 DEF PadsInv
  <1> QED  BY <1>3, <1>4, <1>5 DEF PadsInv, RawPad, PadObject, Pads!Index

LEMMA PadsConnect ==
    ASSUME PadsInv, NEW i \in Pads!Index, Pads!Connects(i) \/ Pads!Disconnects(i)
    PROVE  PadsInv'
  <1>1. time + 1 \in Nat
    BY DEF PadsInv
  <1>2. [time |-> time + 1, pressed |-> FALSE, index |-> i] \in RawPad
    BY <1>1 DEF RawPad
  <1>3. CASE Pads!Connects(i)
    BY <1>2, <1>3, PadsEvent DEF Pads!Connects
  <1>4. CASE Pads!Disconnects(i)
    BY <1>4, PadsEvent DEF Pads!Disconnects
  <1> QED  BY <1>3, <1>4

LEMMA PadsButton ==
    ASSUME PadsInv, NEW i \in Pads!Index, Pads!Button(i)
    PROVE  PadsInv'
  <1> DEFINE pad == [raw[i] EXCEPT !.time = time + 1, !.pressed = ~ raw[i].pressed]
  <1>1. raw[i] \in RawPad /\ time + 1 \in Nat
    BY DEF PadsInv, Pads!Button, Pads!Here
  <1>2. pad \in RawPad
    BY <1>1 DEF RawPad
  <1>3. raw' = [raw EXCEPT ![i] = pad] /\ time' = time + 1
        /\ UNCHANGED <<polled, gamepads, created, twice>>
    BY DEF Pads!Button, Pads!Change
  <1> HIDE DEF pad
  <1>4. raw' \in [Pads!Index -> RawPad \cup {Nothing}] /\ time' \in Nat
    BY <1>1, <1>2, <1>3 DEF PadsInv
  <1>5. Pads!EdgesAlternate'
    BY <1>3, PadsKept
  <1> QED  BY <1>3, <1>4, <1>5 DEF PadsInv, Pads!Contains, RawPad, PadObject, Pads!Index

-----------------------------------------------------------------------------
\* What was polled up to an index, as the pads are now.
PolledTo(n, f) ==
    f = [k \in 0 .. n |->
             IF k = 0 THEN <<>> ELSE IF raw[k] # Nothing THEN Append(f[k - 1], raw[k]) ELSE f[k - 1]]

LEMMA PolledFurther ==
    ASSUME NEW n \in Nat, NEW f, PolledTo(n, f)
    PROVE  \E g : PolledTo(n + 1, g)
  <1> DEFINE g == [k \in 0 .. n + 1 |->
                       IF k <= n THEN f[k]
                       ELSE IF raw[k] # Nothing THEN Append(f[n], raw[k]) ELSE f[n]]
  <1>1. \A k \in 0 .. n + 1 : k \in 0 .. n \/ k = n + 1
    OBVIOUS
  <1>2. \A k \in 0 .. n : k \in 0 .. n + 1 /\ g[k] = f[k]
    OBVIOUS
  <1>3. \A k \in 0 .. n : f[k] = IF k = 0 THEN <<>>
                                 ELSE IF raw[k] # Nothing THEN Append(f[k - 1], raw[k]) ELSE f[k - 1]
    BY DEF PolledTo
  <1>4. g[n + 1] = IF raw[n + 1] # Nothing THEN Append(f[n], raw[n + 1]) ELSE f[n]
    OBVIOUS
  <1> DEFINE h == [k \in 0 .. n + 1 |->
                       IF k = 0 THEN <<>>
                       ELSE IF raw[k] # Nothing THEN Append(g[k - 1], raw[k]) ELSE g[k - 1]]
  <1>5. ASSUME NEW k \in 0 .. n + 1
        PROVE  g[k] = IF k = 0 THEN <<>>
                      ELSE IF raw[k] # Nothing THEN Append(g[k - 1], raw[k]) ELSE g[k - 1]
    <2> HIDE DEF g
    <2>1. CASE k \in 0 .. n
      <3>1. k # 0 => k - 1 \in 0 .. n
        BY <2>1
      <3> QED  BY <1>2, <1>3, <2>1, <3>1
    <2>2. CASE k = n + 1
      <3>1. k # 0 /\ k - 1 = n /\ n \in 0 .. n
        BY <2>2
      <3> QED  BY <1>2, <1>4, <2>2, <3>1
    <2> QED  BY <1>1, <2>1, <2>2
  <1>6. g = h
    <2>1. DOMAIN g = 0 .. n + 1 /\ DOMAIN h = 0 .. n + 1
      OBVIOUS
    <2>2. \A k \in 0 .. n + 1 : g[k] = h[k]
      BY <1>5
    <2>3. g = [k \in 0 .. n + 1 |-> g[k]] /\ h = [k \in 0 .. n + 1 |-> h[k]]
      OBVIOUS
    <2> HIDE DEF g, h
    <2> QED  BY <2>2, <2>3
  <1>7. PolledTo(n + 1, g)
    BY <1>6 DEF PolledTo
  <1> QED  BY <1>7

LEMMA PolledExists ==
    ASSUME NEW n \in Nat
    PROVE  \E f : PolledTo(n, f)
  <1> DEFINE B == {u \in Nat : ~ \E f : PolledTo(u, f)}
  <1>1. SUFFICES ASSUME B # {} PROVE FALSE
    BY <1>1
  <1>2. PICK u \in B : \A v \in B : u <= v
    <2>1. B \in SUBSET Nat
      OBVIOUS
    <2> HIDE DEF B
    <2> QED  BY <1>1, <2>1, LeastNumber
  <1>3. u \in Nat /\ ~ \E f : PolledTo(u, f)
    OBVIOUS
  <1>4. u # 0
    <2> DEFINE e == [k \in 0 .. 0 |-> <<>>]
    <2>1. \A k \in 0 .. 0 : k = 0
      OBVIOUS
    <2>2. [k \in 0 .. 0 |-> IF k = 0 THEN <<>> ELSE IF raw[k] # Nothing THEN Append(e[k - 1], raw[k])
                                            ELSE e[k - 1]] = e
      BY <2>1
    <2>3. PolledTo(0, e)
      BY <2>2 DEF PolledTo
    <2> QED  BY <1>3, <2>3
  <1>5. u - 1 \in Nat /\ (u - 1) + 1 = u /\ ~ (u <= u - 1)
    BY <1>3, <1>4
  <1>6. PICK f : PolledTo(u - 1, f)
    BY <1>2, <1>5
  <1>7. \E g : PolledTo((u - 1) + 1, g)
    BY <1>5, <1>6, PolledFurther
  <1> QED  BY <1>3, <1>5, <1>7

\* What was polled are pads.
LEMMA PollsPads ==
    ASSUME Pads!GamepadsAssumption, PadsInv
    PROVE  Pads!Poll \in Seq(RawPad)
  <1>1. PadCount \in Nat /\ Pads!Index = 1 .. PadCount
    BY DEF Pads!GamepadsAssumption, Pads!Index
  <1>2. PICK f : PolledTo(PadCount, f)
    BY <1>1, PolledExists
  <1> DEFINE g == Pads!Polled
  <1>3. PolledTo(PadCount, g)
    <2>1. g = CHOOSE h : PolledTo(PadCount, h)
      BY DEF Pads!Polled, Pads!Here, PolledTo
    <2> HIDE DEF g
    <2> QED  BY <1>2, <2>1
  <1>4. Pads!Poll = g[PadCount]
    BY DEF Pads!Poll
  <1> HIDE DEF g
  <1>5. \A k \in 0 .. PadCount :
            g[k] = IF k = 0 THEN <<>> ELSE IF raw[k] # Nothing THEN Append(g[k - 1], raw[k])
                   ELSE g[k - 1]
    BY <1>3 DEF PolledTo
  <1>6. \A k \in 1 .. PadCount : raw[k] # Nothing => raw[k] \in RawPad
    BY <1>1 DEF PadsInv
  <1> DEFINE B == {k \in 0 .. PadCount : g[k] \notin Seq(RawPad)}
  <1>7. ASSUME B # {} PROVE FALSE
    <2>1. PICK u \in B : \A v \in B : u <= v
      <3>1. B \in SUBSET Nat
        BY <1>1
      <3> HIDE DEF B
      <3> QED  BY <1>7, <3>1, LeastNumber
    <2>2. u \in 0 .. PadCount /\ g[u] \notin Seq(RawPad)
      OBVIOUS
    <2>3. CASE u = 0
      <3>1. g[u] = <<>>
        BY <1>5, <2>2, <2>3
      <3> QED  BY <2>2, <3>1
    <2>4. CASE u # 0
      <3>1. u - 1 \in 0 .. PadCount /\ ~ (u <= u - 1) /\ u \in 1 .. PadCount
        BY <1>1, <2>2, <2>4
      <3>2. g[u - 1] \in Seq(RawPad)
        BY <2>1, <3>1
      <3>3. g[u] = IF raw[u] # Nothing THEN Append(g[u - 1], raw[u]) ELSE g[u - 1]
        BY <1>5, <2>2, <2>4
      <3> QED  BY <1>6, <2>2, <3>1, <3>2, <3>3
    <2> QED  BY <2>3, <2>4
  <1>8. PadCount \in 0 .. PadCount
    BY <1>1
  <1> QED  BY <1>4, <1>7, <1>8

\* An update leaves its objects to be objects, and turns each button that it shows going
\* down or up.
LEMMA PadsUpdate ==
    ASSUME Pads!GamepadsAssumption, PadsInv, Pads!Update
    PROVE  PadsInv'
  <1> DEFINE I == Pads!Index
             P == Pads!Poll
  <1>1. P \in Seq(RawPad)
    BY PollsPads
  <1>2. I \subseteq Nat \ {0}
    BY DEF Pads!GamepadsAssumption, Pads!Index
  <1>3. /\ polled' = P /\ UNCHANGED <<raw, time, created>>
        /\ gamepads' = [i \in I |-> IF Pads!Contains(created, i)
                                   THEN Pads!Updated(i, Pads!Place(i), P) ELSE Nothing]
        /\ twice' = {i \in I : /\ gamepads[i] # Nothing
                               /\ \/ gamepads'[i].down /\ gamepads[i].pressed
                                  \/ gamepads'[i].up /\ ~ gamepads[i].pressed}
    BY DEF Pads!Update
  <1> HIDE DEF I, P
  <1>4. ASSUME NEW i \in I, Pads!Contains(created, i)
        PROVE  /\ gamepads'[i] \in PadObject
               /\ i <= Len(P) => ~ (gamepads'[i].down /\ gamepads[i].pressed)
                                 /\ ~ (gamepads'[i].up /\ ~ gamepads[i].pressed)
    <2>1. gamepads[i] \in PadObject
      BY <1>4 DEF PadsInv, I
    <2>2. gamepads'[i] = Pads!Updated(i, Pads!Place(i), P)
      BY <1>3, <1>4
    <2>3. CASE i > Len(P)
      <3>1. gamepads'[i] = gamepads[i] /\ ~ (i <= Len(P))
        BY <1>1, <1>2, <2>2, <2>3 DEF Pads!Updated
      <3> QED  BY <2>1, <3>1
    <2>4. CASE ~ (i > Len(P))
      <3>1. P[i] \in RawPad
        BY <1>1, <1>2, <2>4
      <3>2. CASE Pads!Same(P[i], Pads!Place(i))
        <4>1. gamepads'[i] = [gamepads[i] EXCEPT !.down = FALSE, !.up = FALSE]
          BY <2>2, <2>4, <3>2 DEF Pads!Updated, Pads!UpdateStateEmpty
        <4> QED  BY <2>1, <4>1 DEF PadObject
      <3>3. CASE ~ Pads!Same(P[i], Pads!Place(i))
        <4> DEFINE isDown == P[i].pressed
                   wasDown == gamepads[i].pressed
        <4>1. gamepads'[i] = [pressed |-> isDown, down |-> isDown # wasDown /\ isDown,
                              up |-> isDown # wasDown /\ wasDown, connected |-> TRUE, of |-> P[i].index]
          BY <2>2, <2>4, <3>3 DEF Pads!Updated, Pads!UpdateState, Pads!WentDown
        <4>2. isDown \in BOOLEAN /\ wasDown \in BOOLEAN /\ P[i].index \in Pads!Index
          BY <2>1, <3>1 DEF RawPad, PadObject
        <4> HIDE DEF isDown, wasDown
        <4>3. /\ gamepads'[i].down = (isDown # wasDown /\ isDown) /\ gamepads'[i].up = (isDown # wasDown /\ wasDown)
          BY <4>1
        <4>4. (isDown # wasDown /\ isDown) \in BOOLEAN /\ (isDown # wasDown /\ wasDown) \in BOOLEAN
          BY <4>2, Zenon
        <4>5. gamepads'[i] \in PadObject
          BY <4>1, <4>2, <4>4 DEF PadObject
        <4>6. ~ ((isDown # wasDown /\ isDown) /\ wasDown) /\ ~ ((isDown # wasDown /\ wasDown) /\ ~ wasDown)
          BY <4>2, Zenon
        <4>7. ~ (gamepads'[i].down /\ wasDown) /\ ~ (gamepads'[i].up /\ ~ wasDown)
          BY <4>3, <4>6, Zenon
        <4> QED  BY <4>5, <4>7 DEF wasDown
      <3> QED  BY <3>2, <3>3
    <2> QED  BY <2>3, <2>4
  <1>5. \A i \in I : ~ Pads!Contains(created, i) => gamepads'[i] = Nothing /\ gamepads[i] = Nothing
    BY <1>3 DEF PadsInv, I
  <1>6. \A i \in twice' : i > Len(polled')
    <2>1. Len(P) \in Nat
      BY <1>1
    <2> QED  BY <1>2, <1>3, <1>4, <1>5, <2>1
  <1>7. Pads!EdgesAlternate'
    BY <1>6 DEF Pads!EdgesAlternate
  <1>8. created' = created /\ raw' = raw /\ time' = time /\ DOMAIN gamepads' = I
    BY <1>3
  <1>9. \A i \in I : IF Pads!Contains(created, i) THEN gamepads'[i] \in PadObject
                    ELSE gamepads'[i] = Nothing
    BY <1>4, <1>5
  <1> QED  BY <1>7, <1>8, <1>9 DEF PadsInv, Pads!Contains, RawPad, PadObject, Pads!Index, I

LEMMA PadsStep ==
    ASSUME Pads!GamepadsAssumption, PadsInv, Pads!Next
    PROVE  PadsInv'
  BY PadsGet, PadsDispose, PadsConnect, PadsButton, PadsUpdate DEF Pads!Next

-----------------------------------------------------------------------------
(* Input: the list of touches *)

\* A touch that a frame samples, and removes at the next one if it was lifted.
Moved(t) == [Pointing!Sampled(t) EXCEPT !.released = (t.flags = 0)]

Visit(s, i) ==
    IF i > Len(s) THEN s
    ELSE IF s[i].released THEN Pointing!RemoveAt(s, i)
    ELSE [s EXCEPT ![i] = Moved(s[i])]

Unlike(s) == \A i, j \in 1 .. Len(s) : s[i].id = s[j].id => i = j

\* The list after its first n places were visited: in the order of the touches, those
\* behind the places still as they were, the first one sampled or removed, and none
\* removed that was not lifted.
From(s, n, t, j, i) ==
    /\ j <= i
    /\ \/ t = s[i]
       \/ j <= n /\ ~ s[i].released /\ t = Moved(s[i])
    /\ i = 1 /\ n >= 1 => ~ s[1].released /\ t = Moved(s[1])

ListAfter(s, n, r) ==
    /\ r \in Seq(Pointing!InputType)
    /\ \A j \in 1 .. Len(r) : \E i \in 1 .. Len(s) : From(s, n, r[j], j, i)
    /\ Unlike(r)
    /\ \A i \in 1 .. Len(s) : ~ s[i].released => \E j \in 1 .. Len(r) : r[j] \in {s[i], Moved(s[i])}

LEMMA MovedIs ==
    ASSUME NEW t \in Pointing!InputType
    PROVE  /\ Moved(t) \in Pointing!InputType
           /\ Moved(t).id = t.id /\ Moved(t).press = t.press /\ Moved(t).flags = t.flags
           /\ Moved(t).now = t.flags /\ Moved(t).last = t.now
           /\ Moved(t).pos = t.temp /\ Moved(t).temp = t.temp
           /\ Moved(t).released = (t.flags = 0)
  BY DEF Moved, Pointing!Sampled, Pointing!InputType

LEMMA RemovedAt ==
    ASSUME NEW S, NEW s \in Seq(S), NEW i \in 1 .. Len(s)
    PROVE  /\ Pointing!RemoveAt(s, i) \in Seq(S) /\ Len(Pointing!RemoveAt(s, i)) = Len(s) - 1
           /\ \A k \in 1 .. Len(s) - 1 :
                 Pointing!RemoveAt(s, i)[k] = IF k < i THEN s[k] ELSE s[k + 1]
  <1> DEFINE a == SubSeq(s, 1, i - 1)
             b == SubSeq(s, i + 1, Len(s))
  <1>1. i \in 1 .. Len(s) /\ Len(s) \in Nat
    OBVIOUS
  <1>2. a \in Seq(S) /\ Len(a) = i - 1 /\ \A k \in 1 .. i - 1 : a[k] = s[k]
    BY <1>1
  <1>3. b \in Seq(S) /\ Len(b) = Len(s) - i /\ \A k \in 1 .. Len(s) - i : b[k] = s[i + k]
    BY <1>1
  <1> HIDE DEF a, b
  <1>4. a \o b \in Seq(S) /\ Len(a \o b) = Len(s) - 1
    <2>1. a \o b \in Seq(S) /\ Len(a \o b) = Len(a) + Len(b)
      BY <1>2, <1>3, ConcatProperties
    <2>2. (i - 1) + (Len(s) - i) = Len(s) - 1
      BY <1>1
    <2> QED  BY <1>2, <1>3, <2>1, <2>2
  <1>5. ASSUME NEW k \in 1 .. Len(s) - 1
        PROVE  (a \o b)[k] = IF k < i THEN s[k] ELSE s[k + 1]
    <2>1. CASE k < i
      <3>1. k \in 1 .. Len(a) /\ (a \o b)[k] = a[k]
        BY <1>1, <1>2, <1>3, <2>1
      <3> QED  BY <1>2, <2>1, <3>1
    <2>2. CASE ~ (k < i)
      <3>1. (a \o b)[k] = b[k - (i - 1)]
        BY <1>1, <1>2, <1>3, <2>2
      <3>2. k - (i - 1) \in 1 .. Len(s) - i /\ i + (k - (i - 1)) = k + 1
        BY <1>1, <2>2
      <3>3. b[k - (i - 1)] = s[k + 1]
        BY <1>3, <3>2
      <3> QED  BY <2>2, <3>1, <3>3
    <2> QED  BY <2>1, <2>2
  <1> QED  BY <1>4, <1>5 DEF a, b, Pointing!RemoveAt

LEMMA AtFirst ==
    ASSUME NEW s \in Seq(Pointing!InputType), Unlike(s)
    PROVE  ListAfter(s, 0, s)
  <1>1. \A j \in 1 .. Len(s) : From(s, 0, s[j], j, j)
    BY DEF From
  <1> QED  BY <1>1 DEF ListAfter

LEMMA VisitRemoves ==
    ASSUME NEW s \in Seq(Pointing!InputType), Unlike(s), NEW n \in Nat, NEW r,
           ListAfter(s, n, r), n + 1 \in 1 .. Len(r), r[n + 1].released
    PROVE  ListAfter(s, n + 1, Pointing!RemoveAt(r, n + 1))
  <1> DEFINE T == Pointing!InputType
             q == Pointing!RemoveAt(r, n + 1)
             Was(j) == IF j < n + 1 THEN j ELSE j + 1
  <1> HIDE DEF T
  <1>1. r \in Seq(T) /\ Len(r) \in Nat /\ s \in Seq(T) /\ Len(s) \in Nat
    BY DEF ListAfter, T
  <1>2. q \in Seq(T) /\ Len(q) = Len(r) - 1 /\ \A j \in 1 .. Len(q) : q[j] = r[Was(j)]
    <2>1. \A k \in 1 .. Len(r) - 1 : q[k] = IF k < n + 1 THEN r[k] ELSE r[k + 1]
      BY <1>1, RemovedAt
    <2>2. q \in Seq(T) /\ Len(q) = Len(r) - 1
      BY <1>1, RemovedAt
    <2> HIDE DEF q
    <2> QED  BY <1>1, <2>1, <2>2
  <1> HIDE DEF q
  <1>3. \A j \in 1 .. Len(q) : Was(j) \in 1 .. Len(r) /\ j <= Was(j) /\ Was(j) # n + 1
    BY <1>1, <1>2
  <1>4. \A i, j \in 1 .. Len(q) : Was(i) = Was(j) => i = j
    BY <1>1, <1>2
  <1>5. ASSUME NEW j \in 1 .. Len(q)
        PROVE  \E i \in 1 .. Len(s) : From(s, n + 1, q[j], j, i)
    <2>1. PICK i \in 1 .. Len(s) : From(s, n, r[Was(j)], Was(j), i)
      BY <1>3, <1>5 DEF ListAfter
    <2>2. q[j] = r[Was(j)] /\ j <= i
      BY <1>2, <1>3, <1>5, <2>1 DEF From
    <2>3. q[j] = s[i] \/ (j <= n + 1 /\ ~ s[i].released /\ q[j] = Moved(s[i]))
      BY <1>3, <1>5, <2>1, <2>2 DEF From
    <2>4. ASSUME i = 1
          PROVE  ~ s[1].released /\ q[j] = Moved(s[1])
      <3>1. n >= 1
        BY <1>2, <1>5, <2>1, <2>4 DEF From
      <3> QED  BY <2>1, <2>2, <2>4, <3>1 DEF From
    <2> QED  BY <2>2, <2>3, <2>4 DEF From
  <1>6. Unlike(q)
    <2> HIDE DEF Was
    <2>1. Unlike(r)
      BY DEF ListAfter
    <2>2. \A i, j \in 1 .. Len(q) : q[i].id = q[j].id => Was(i) = Was(j)
      BY <1>2, <1>3, <2>1 DEF Unlike
    <2> QED  BY <1>4, <2>2 DEF Unlike
  <1>7. ASSUME NEW i \in 1 .. Len(s), ~ s[i].released
        PROVE  \E j \in 1 .. Len(q) : q[j] \in {s[i], Moved(s[i])}
    <2>1. PICK j \in 1 .. Len(r) : r[j] \in {s[i], Moved(s[i])}
      BY <1>7 DEF ListAfter
    <2>2. j # n + 1
      <3> SUFFICES ASSUME j = n + 1 PROVE FALSE
        OBVIOUS
      <3>1. r[j].released /\ r[j] # s[i]
        BY <1>7, <2>1
      <3>2. PICK k \in 1 .. Len(s) : From(s, n, r[j], j, k)
        BY <2>1 DEF ListAfter
      <3>3. r[j] = s[k] /\ (k = 1 => n = 0)
        BY <3>2 DEF From
      <3>4. s[i] \in T /\ r[j] = Moved(s[i])
        BY <1>1, <2>1, <3>1
      <3>5. s[k].id = s[i].id
        BY <3>3, <3>4, MovedIs DEF T
      <3>6. k = i
        BY <3>5 DEF Unlike
      <3> QED  BY <3>1, <3>3, <3>6
    <2>3. CASE j < n + 1
      <3>1. j \in 1 .. Len(q) /\ Was(j) = j
        BY <1>1, <1>2, <2>1, <2>3
      <3> QED  BY <1>2, <2>1, <3>1
    <2>4. CASE j > n + 1
      <3>1. j - 1 \in 1 .. Len(q) /\ Was(j - 1) = j
        BY <1>1, <1>2, <2>1, <2>4
      <3> QED  BY <1>2, <2>1, <3>1
    <2> QED  BY <2>1, <2>2, <2>3, <2>4
  <1>8. ListAfter(s, n + 1, q)
    BY <1>2, <1>5, <1>6, <1>7 DEF ListAfter, T
  <1> QED  BY <1>8 DEF q

LEMMA VisitSamples ==
    ASSUME NEW s \in Seq(Pointing!InputType), Unlike(s), NEW n \in Nat, NEW r,
           ListAfter(s, n, r), n + 1 \in 1 .. Len(r), ~ r[n + 1].released
    PROVE  ListAfter(s, n + 1, [r EXCEPT ![n + 1] = Moved(r[n + 1])])
  <1> DEFINE T == Pointing!InputType
             q == [r EXCEPT ![n + 1] = Moved(r[n + 1])]
  <1> HIDE DEF T
  <1>1. r \in Seq(T) /\ Len(r) \in Nat /\ s \in Seq(T) /\ Len(s) \in Nat /\ r[n + 1] \in T
        /\ \A i \in 1 .. Len(s) : s[i] \in T
    BY DEF ListAfter, T
  <1>2. Moved(r[n + 1]) \in T /\ Moved(r[n + 1]).id = r[n + 1].id
    BY <1>1, MovedIs DEF T
  <1>3. q \in Seq(T) /\ Len(q) = Len(r) /\ q[n + 1] = Moved(r[n + 1])
        /\ \A j \in 1 .. Len(r) : j # n + 1 => q[j] = r[j]
    BY <1>1, <1>2
  <1> HIDE DEF q
  <1>4. PICK m \in 1 .. Len(s) : From(s, n, r[n + 1], n + 1, m)
    BY DEF ListAfter
  <1>5. r[n + 1] = s[m] /\ n + 1 <= m /\ ~ s[m].released
    BY <1>4 DEF From
  <1>6. ASSUME NEW j \in 1 .. Len(q)
        PROVE  \E i \in 1 .. Len(s) : From(s, n + 1, q[j], j, i)
    <2>1. CASE j = n + 1
      <3>1. From(s, n + 1, q[j], j, m)
        BY <1>3, <1>5, <2>1 DEF From
      <3> QED  BY <3>1
    <2>2. CASE j # n + 1
      <3>1. PICK i \in 1 .. Len(s) : From(s, n, r[j], j, i)
        BY <1>3, <1>6 DEF ListAfter
      <3>2. q[j] = r[j]
        BY <1>3, <1>6, <2>2
      <3>3. i = 1 => n >= 1
        BY <1>3, <1>6, <2>2, <3>1 DEF From
      <3>4. From(s, n + 1, q[j], j, i)
        BY <3>1, <3>2, <3>3 DEF From
      <3> QED  BY <3>4
    <2> QED  BY <2>1, <2>2
  <1>7. Unlike(q)
    <2>1. \A j \in 1 .. Len(r) : q[j].id = r[j].id
      BY <1>2, <1>3
    <2> QED  BY <1>3, <2>1 DEF ListAfter, Unlike
  <1>8. ASSUME NEW i \in 1 .. Len(s), ~ s[i].released
        PROVE  \E j \in 1 .. Len(q) : q[j] \in {s[i], Moved(s[i])}
    <2>1. PICK j \in 1 .. Len(r) : r[j] \in {s[i], Moved(s[i])}
      BY <1>8 DEF ListAfter
    <2>2. CASE j # n + 1
      BY <1>3, <2>1, <2>2
    <2>3. CASE j = n + 1
      <3>1. s[m].id = s[i].id
        BY <1>1, <1>5, <2>1, <2>3, MovedIs DEF T
      <3>2. m = i
        BY <3>1 DEF Unlike
      <3> QED  BY <1>3, <1>5, <2>3, <3>2
    <2> QED  BY <2>2, <2>3
  <1>9. ListAfter(s, n + 1, q)
    BY <1>3, <1>6, <1>7, <1>8 DEF ListAfter, T
  <1> QED  BY <1>9 DEF q

LEMMA VisitNext ==
    ASSUME NEW s \in Seq(Pointing!InputType), Unlike(s), NEW n \in Nat, NEW r, ListAfter(s, n, r)
    PROVE  ListAfter(s, n + 1, Visit(r, n + 1))
  <1>1. r \in Seq(Pointing!InputType) /\ Len(r) \in Nat
    BY DEF ListAfter
  <1>2. CASE n + 1 > Len(r)
    <2>1. ASSUME NEW j \in 1 .. Len(r)
          PROVE  \E i \in 1 .. Len(s) : From(s, n + 1, r[j], j, i)
      <3>1. PICK i \in 1 .. Len(s) : From(s, n, r[j], j, i)
        BY <2>1 DEF ListAfter
      <3>2. n >= 1
        BY <1>1, <1>2, <2>1
      <3>3. From(s, n + 1, r[j], j, i)
        BY <3>1, <3>2 DEF From
      <3> QED  BY <3>3
    <2> QED  BY <1>2, <2>1 DEF Visit, ListAfter
  <1>3. CASE n + 1 <= Len(r)
    <2>1. n + 1 \in 1 .. Len(r) /\ ~ (n + 1 > Len(r))
      BY <1>1, <1>3
    <2> QED  BY <2>1, VisitRemoves, VisitSamples DEF Visit
  <1> QED  BY <1>1, <1>2, <1>3

-----------------------------------------------------------------------------
\* The lists that update goes through.
Visits(s, n, f) == f = [k \in 0 .. n |-> IF k = 0 THEN s ELSE Visit(f[k - 1], k)]

LEMMA VisitsFurther ==
    ASSUME NEW s, NEW n \in Nat, NEW f, Visits(s, n, f)
    PROVE  \E g : Visits(s, n + 1, g)
  <1> DEFINE g == [k \in 0 .. n + 1 |-> IF k <= n THEN f[k] ELSE Visit(f[n], k)]
             h == [k \in 0 .. n + 1 |-> IF k = 0 THEN s ELSE Visit(g[k - 1], k)]
  <1>1. \A k \in 0 .. n + 1 : k \in 0 .. n \/ k = n + 1
    OBVIOUS
  <1>2. \A k \in 0 .. n : k \in 0 .. n + 1 /\ g[k] = f[k]
    OBVIOUS
  <1>3. \A k \in 0 .. n : f[k] = IF k = 0 THEN s ELSE Visit(f[k - 1], k)
    BY DEF Visits
  <1>4. g[n + 1] = Visit(f[n], n + 1)
    OBVIOUS
  <1>5. ASSUME NEW k \in 0 .. n + 1
        PROVE  g[k] = IF k = 0 THEN s ELSE Visit(g[k - 1], k)
    <2> HIDE DEF g
    <2>1. CASE k \in 0 .. n
      <3>1. k # 0 => k - 1 \in 0 .. n
        BY <2>1
      <3> QED  BY <1>2, <1>3, <2>1, <3>1
    <2>2. CASE k = n + 1
      <3>1. k # 0 /\ k - 1 = n /\ n \in 0 .. n
        BY <2>2
      <3> QED  BY <1>2, <1>4, <2>2, <3>1
    <2> QED  BY <1>1, <2>1, <2>2
  <1>6. g = h
    <2>1. \A k \in 0 .. n + 1 : g[k] = h[k]
      BY <1>5
    <2>2. g = [k \in 0 .. n + 1 |-> g[k]] /\ h = [k \in 0 .. n + 1 |-> h[k]]
      OBVIOUS
    <2> HIDE DEF g, h
    <2> QED  BY <2>1, <2>2
  <1>7. Visits(s, n + 1, g)
    BY <1>6 DEF Visits
  <1> QED  BY <1>7

LEMMA VisitsExist ==
    ASSUME NEW s, NEW n \in Nat
    PROVE  \E f : Visits(s, n, f)
  <1> DEFINE B == {u \in Nat : ~ \E f : Visits(s, u, f)}
  <1>1. SUFFICES ASSUME B # {} PROVE FALSE
    BY <1>1
  <1>2. PICK u \in B : \A v \in B : u <= v
    <2>1. B \in SUBSET Nat
      OBVIOUS
    <2> HIDE DEF B
    <2> QED  BY <1>1, <2>1, LeastNumber
  <1>3. u \in Nat /\ ~ \E f : Visits(s, u, f)
    OBVIOUS
  <1>4. u # 0
    <2> DEFINE e == [k \in 0 .. 0 |-> s]
    <2>1. \A k \in 0 .. 0 : k = 0
      OBVIOUS
    <2>2. [k \in 0 .. 0 |-> IF k = 0 THEN s ELSE Visit(e[k - 1], k)] = e
      BY <2>1
    <2>3. Visits(s, 0, e)
      BY <2>2 DEF Visits
    <2> QED  BY <1>3, <2>3
  <1>5. u - 1 \in Nat /\ (u - 1) + 1 = u /\ ~ (u <= u - 1)
    BY <1>3, <1>4
  <1>6. PICK f : Visits(s, u - 1, f)
    BY <1>2, <1>5
  <1>7. \E g : Visits(s, (u - 1) + 1, g)
    BY <1>5, <1>6, VisitsFurther
  <1> QED  BY <1>3, <1>5, <1>7

\* What the visits to all places leave.
LEMMA ListUpdated ==
    ASSUME touches \in Seq(Pointing!InputType), Unlike(touches)
    PROVE  ListAfter(touches, Len(touches), Pointing!UpdateList)
  <1> DEFINE L == Len(touches)
             g == CHOOSE f : Visits(touches, L, f)
  <1>1. L \in Nat
    OBVIOUS
  <1>2. Visits(touches, L, g)
    BY <1>1, VisitsExist
  <1>3. Pointing!UpdateList = g[L]
    BY DEF Pointing!UpdateList, Pointing!RemoveTouch, Visits, Visit, Moved
  <1> HIDE DEF g
  <1>4. \A k \in 0 .. L : g[k] = IF k = 0 THEN touches ELSE Visit(g[k - 1], k)
    BY <1>2 DEF Visits
  <1> DEFINE B == {k \in 0 .. L : ~ ListAfter(touches, k, g[k])}
  <1>5. ASSUME B # {} PROVE FALSE
    <2>1. PICK u \in B : \A v \in B : u <= v
      <3>1. B \in SUBSET Nat
        BY <1>1
      <3> HIDE DEF B
      <3> QED  BY <1>5, <3>1, LeastNumber
    <2>2. u \in 0 .. L /\ ~ ListAfter(touches, u, g[u])
      OBVIOUS
    <2>3. CASE u = 0
      BY <1>4, <2>2, <2>3, AtFirst
    <2>4. CASE u # 0
      <3>1. u - 1 \in 0 .. L /\ ~ (u <= u - 1) /\ u - 1 \in Nat /\ (u - 1) + 1 = u
        BY <1>1, <2>2, <2>4
      <3>2. ListAfter(touches, u - 1, g[u - 1])
        BY <2>1, <3>1
      <3>3. ListAfter(touches, u, Visit(g[u - 1], u))
        BY <3>1, <3>2, VisitNext
      <3> QED  BY <1>4, <2>2, <2>4, <3>3
    <2> QED  BY <2>3, <2>4
  <1>6. L \in 0 .. L
    BY <1>1
  <1> QED  BY <1>3, <1>5, <1>6

-----------------------------------------------------------------------------
(* Input: pointers *)

\* The pointers that the objects are asked about.
InUse == IF pointers = "mouse" THEN {mouse} ELSE {touches[i] : i \in 1 .. Len(touches)}

PointTypes ==
    /\ touches \in Seq(Pointing!InputType) /\ mouse \in Pointing!InputType
    /\ pointers \in {"touches", "mouse"} /\ interactive \subseteq Obj
    /\ over \subseteq Obj \X Pointing!Id /\ touch \subseteq Obj \X Pointing!Id
    /\ holds \in [Obj -> Nat]
    /\ touchMap \in [Finger -> Pointing!Id \cup {Pointing!NoTouch}]
    /\ nextId \in Nat /\ presses \in Nat /\ nextId <= presses /\ presses <= MaxPresses
    /\ starts \in [Pointing!Press -> Nat]

\* Each touch has an id and a press of its own.  Only the first of the list was alone when
\* it began, and such a touch, once its start was told, is seen down until it is lifted.
GoodTouch(t, i) ==
    /\ t.id < nextId /\ 1 <= t.press /\ t.press <= presses /\ t.press # mouse.press
    /\ t.released => t.flags = 0 /\ t.now = 0
    /\ i >= 2 => t.press \in crowded
    /\ t.press \notin crowded => t.flags = 0 \/ t.now = 1 \/ starts[t.press] = 0

PointList ==
    /\ Unlike(touches)
    /\ \A i, j \in 1 .. Len(touches) : touches[i].press = touches[j].press => i = j
    /\ \A i \in 1 .. Len(touches) : GoodTouch(touches[i], i)

PointMouse ==
    /\ mouse.id = 0 /\ mouse.press <= presses
    /\ mouse.press = 0 => mouse.flags = 0 /\ mouse.now = 0
    /\ mouse.flags = 0 \/ mouse.now = 1 \/ starts[mouse.press] = 0

PointFingers ==
    /\ \A f \in Finger : touchMap[f] # Pointing!NoTouch =>
          \E i \in 1 .. Len(touches) : touches[i].id = touchMap[f] /\ touches[i].flags = 1
    /\ \A f, g \in Finger : touchMap[f] # Pointing!NoTouch /\ touchMap[f] = touchMap[g] => f = g

PointStarts ==
    /\ \A k \in Pointing!Press : k \notin crowded => starts[k] <= 1
    /\ \A k \in Pointing!Press : k > presses => starts[k] = 0

\* Unless something was upset, an object is touched by a pointer in use that is down, whose
\* press was told to have begun once more than to have ended; by one such an object only.
Touching(o, p, ended, started) ==
    /\ p.now = 1 /\ ended[p.press] < started[p.press]
    /\ p.last = 0 => p.pos = o

PointEnds ==
    ~ upset =>
        /\ ends \in [Pointing!Press -> Nat]
        /\ \A k \in Pointing!Press : ends[k] <= starts[k]
        /\ \A o \in Obj, tag \in Pointing!Id : <<o, tag>> \in touch =>
              o \in interactive /\ \E p \in InUse : p.id = tag /\ Touching(o, p, ends, starts)
        /\ \A o, q \in Obj, tag \in Pointing!Id :
              <<o, tag>> \in touch /\ <<q, tag>> \in touch => o = q

PointInv ==
    /\ PointTypes /\ PointList /\ PointMouse /\ PointFingers /\ PointStarts /\ PointEnds
    /\ Pointing!HoverHeld

LEMMA CountIs == \A S : Pointing!Cardinality(S) = Cardinality(S)
  BY DEF Pointing!Cardinality, Cardinality

\* The ids of the pointers over an object.
OverBy(o) == {tag \in Pointing!Id : <<o, tag>> \in over}

LEMMA HoverIs == Pointing!HoverHeld <=> \A o \in Obj : Cardinality(OverBy(o)) <= holds[o]
  BY CountIs, Zenon DEF Pointing!HoverHeld, OverBy

LEMMA PointNumbers ==
    ASSUME Pointing!PressAssumption
    PROVE  /\ MaxPresses \in Nat /\ Pointing!Id = 0 .. MaxPresses /\ Pointing!Press = 1 .. MaxPresses
           /\ Pointing!NoTouch = -1
  BY DEF Pointing!PressAssumption, Pointing!Id, Pointing!Press, Pointing!NoTouch

LEMMA EachTouch ==
    ASSUME PointInv, Pointing!PressAssumption
    PROVE  \A i \in 1 .. Len(touches) :
               /\ touches[i] \in Pointing!InputType
               /\ touches[i].id \in Nat /\ touches[i].press \in Nat /\ GoodTouch(touches[i], i)
  <1>1. \A i \in 1 .. Len(touches) : touches[i] \in Pointing!InputType
    BY DEF PointInv, PointTypes
  <1>2. \A t \in Pointing!InputType : t.id \in Pointing!Id /\ t.press \in 0 .. MaxPresses
    BY DEF Pointing!InputType
  <1> QED  BY <1>1, <1>2, PointNumbers DEF PointInv, PointList

LEMMA PointStart ==
    ASSUME Pointing!PressAssumption, Pointing!Init
    PROVE  PointInv
  <1>1. touches = <<>> /\ Len(touches) = 0 /\ 1 .. Len(touches) = {}
    BY DEF Pointing!Init
  <1>2. /\ mouse = [id |-> 0, flags |-> 0, now |-> 0, last |-> 0, pos |-> Pointing!Outside,
                    temp |-> Pointing!Outside, released |-> FALSE, press |-> 0]
        /\ mouse \in Pointing!InputType
    <2> DEFINE new == [id |-> 0, flags |-> 1, now |-> 0, last |-> 0, pos |-> Pointing!Outside,
                       temp |-> Pointing!Outside, released |-> FALSE, press |-> 0]
    <2>1. mouse = [new EXCEPT !.flags = 0]
      BY DEF Pointing!Init, Pointing!NewInput
    <2>2. mouse = [id |-> 0, flags |-> 0, now |-> 0, last |-> 0, pos |-> Pointing!Outside,
                   temp |-> Pointing!Outside, released |-> FALSE, press |-> 0]
      BY <2>1
    <2>3. 0 \in Pointing!Id /\ Pointing!Outside \in Pointing!Place /\ 0 \in 0 .. MaxPresses
      BY PointNumbers DEF Pointing!Place
    <2> QED  BY <2>2, <2>3 DEF Pointing!InputType
  <1>3. PointTypes
    BY <1>1, <1>2, PointNumbers DEF Pointing!Init, PointTypes, Pointing!NoTouch
  <1>4. PointList
    BY <1>1 DEF PointList, Unlike
  <1>5. PointMouse /\ PointFingers /\ PointStarts /\ PointEnds
    BY <1>2, PointNumbers DEF Pointing!Init, PointMouse, PointFingers, PointStarts, PointEnds
  <1>6. Pointing!HoverHeld
    <2>1. over = {} /\ holds = [o \in Obj |-> 0]
      BY DEF Pointing!Init
    <2>2. \A o \in Obj : OverBy(o) = {}
      BY <2>1 DEF OverBy
    <2>3. Cardinality({}) = 0
      BY FS_EmptySet
    <2> QED  BY <2>1, <2>2, <2>3, HoverIs
  <1> QED  BY <1>3, <1>4, <1>5, <1>6 DEF PointInv

LEMMA PointStay ==
    ASSUME PointInv, UNCHANGED pointersVars
    PROVE  PointInv'
  <1>1. /\ UNCHANGED <<touches, touchMap, nextId, mouse, pointers, interactive, over, touch>>
        /\ UNCHANGED <<holds, presses, starts, ends, crowded, upset>>
    BY DEF pointersVars
  <1>2. PointTypes'
    BY <1>1 DEF PointInv, PointTypes
  <1>3. PointList' /\ PointMouse' /\ PointFingers'
    BY <1>1 DEF PointInv, PointList, GoodTouch, PointMouse, PointFingers, Unlike
  <1>4. PointStarts' /\ PointEnds'
    BY <1>1 DEF PointInv, PointStarts, PointEnds, Touching, InUse
  <1>5. Pointing!HoverHeld'
    BY <1>1 DEF PointInv, Pointing!HoverHeld
  <1> QED  BY <1>2, <1>3, <1>4, <1>5 DEF PointInv

-----------------------------------------------------------------------------
\* What an action keeps that leaves alone what is over and held, and what was told.
LEMMA HoverKept ==
    ASSUME PointInv, UNCHANGED <<over, holds>>
    PROVE  Pointing!HoverHeld'
  BY DEF PointInv, Pointing!HoverHeld

\* The events of the browser change where a touch will be, or that it was lifted.
LEMMA Retouched ==
    ASSUME PointInv, Pointing!PressAssumption,
           touches' \in Seq(Pointing!InputType), Len(touches') = Len(touches),
           \A i \in 1 .. Len(touches) :
               /\ touches'[i].id = touches[i].id /\ touches'[i].press = touches[i].press
               /\ touches'[i].now = touches[i].now /\ touches'[i].last = touches[i].last
               /\ touches'[i].pos = touches[i].pos /\ touches'[i].released = touches[i].released
               /\ touches'[i].flags \in {touches[i].flags, 0},
           UNCHANGED <<nextId, mouse, pointers, interactive, over, touch, holds>>,
           UNCHANGED <<presses, starts, ends, crowded, upset>>
    PROVE  PointList' /\ PointMouse' /\ PointStarts' /\ PointEnds' /\ Pointing!HoverHeld'
  <1> DEFINE L == Len(touches)
  <1>1. Unlike(touches)' /\ \A i, j \in 1 .. Len(touches') : touches'[i].press = touches'[j].press => i = j
    BY DEF PointInv, PointList, Unlike
  <1>2. ASSUME NEW i \in 1 .. L
        PROVE  GoodTouch(touches[i], i)'
    <2>1. GoodTouch(touches[i], i)
      BY DEF PointInv, PointList
    <2> QED  BY <2>1 DEF GoodTouch
  <1>3. PointList'
    BY <1>1, <1>2 DEF PointList
  <1>4. PointMouse' /\ PointStarts'
    BY DEF PointInv, PointMouse, PointStarts
  <1>5. PointEnds'
    <2>1. SUFFICES ASSUME ~ upset PROVE PointEnds'
      BY DEF PointEnds
    <2>2. ASSUME NEW o \in Obj, NEW tag \in Pointing!Id, <<o, tag>> \in touch'
          PROVE  o \in interactive' /\ \E p \in InUse' : p.id = tag /\ Touching(o, p, ends', starts')
      <3>1. o \in interactive /\ \E p \in InUse : p.id = tag /\ Touching(o, p, ends, starts)
        BY <2>1, <2>2 DEF PointInv, PointEnds
      <3>2. PICK p \in InUse : p.id = tag /\ Touching(o, p, ends, starts)
        BY <3>1
      <3>3. CASE pointers = "mouse"
        BY <3>1, <3>2, <3>3 DEF InUse, Touching
      <3>4. CASE pointers # "mouse"
        <4>1. PICK i \in 1 .. L : p = touches[i]
          BY <3>2, <3>4 DEF InUse
        <4>2. touches'[i] \in InUse'
          BY <3>4 DEF InUse
        <4>3. touches'[i].id = tag /\ Touching(o, touches'[i], ends', starts')
          BY <3>2, <4>1 DEF Touching
        <4> QED  BY <3>1, <4>2, <4>3
      <3> QED  BY <3>3, <3>4
    <2> QED  BY <2>1, <2>2 DEF PointInv, PointEnds, Pointing!Press, Pointing!Id
  <1> QED  BY <1>3, <1>4, <1>5, HoverKept

LEMMA Changed ==
    ASSUME PointInv, NEW f \in Finger, NEW g \in [1 .. Len(touches) -> Pointing!InputType],
           touches' = [i \in DOMAIN touches |-> IF touches[i].id = touchMap[f] THEN g[i]
                                                ELSE touches[i]]
    PROVE  /\ touches' \in Seq(Pointing!InputType) /\ Len(touches') = Len(touches)
           /\ \A i \in 1 .. Len(touches) :
                 touches'[i] = IF touches[i].id = touchMap[f] THEN g[i] ELSE touches[i]
  <1> DEFINE T == Pointing!InputType
             L == Len(touches)
  <1>1. touches \in Seq(T) /\ L \in Nat /\ DOMAIN touches = 1 .. L
    BY DEF PointInv, PointTypes
  <1> HIDE DEF T
  <1>2. \A i \in 1 .. L : touches[i] \in T /\ g[i] \in T
    BY <1>1 DEF T
  <1>3. touches' \in [1 .. L -> T]
    BY <1>1, <1>2
  <1>4. touches' \in Seq(T) /\ Len(touches') = L
    BY <1>1, <1>3
  <1> QED  BY <1>1, <1>4 DEF T

LEMMA PointMove ==
    ASSUME PointInv, Pointing!PressAssumption, NEW f \in Finger, NEW place0 \in Pointing!Place,
           Pointing!TouchMove(f, place0)
    PROVE  PointInv'
  <1> DEFINE g == [i \in 1 .. Len(touches) |-> [touches[i] EXCEPT !.temp = place0]]
  <1>1. touches \in Seq(Pointing!InputType) /\ DOMAIN touches = 1 .. Len(touches)
    BY DEF PointInv, PointTypes
  <1>2. \A i \in 1 .. Len(touches) : touches[i] \in Pointing!InputType
    BY <1>1
  <1>3. g \in [1 .. Len(touches) -> Pointing!InputType]
    BY <1>2 DEF Pointing!InputType
  <1>4. touches' = [i \in DOMAIN touches |-> IF touches[i].id = touchMap[f] THEN g[i] ELSE touches[i]]
    BY <1>1 DEF Pointing!TouchMove, Pointing!ChangeTouch
  <1>5. \A i \in 1 .. Len(touches) :
            /\ g[i].id = touches[i].id /\ g[i].press = touches[i].press
            /\ g[i].now = touches[i].now /\ g[i].last = touches[i].last
            /\ g[i].pos = touches[i].pos /\ g[i].released = touches[i].released
            /\ g[i].flags = touches[i].flags
    BY <1>2 DEF Pointing!InputType
  <1> HIDE DEF g
  <1>6. /\ UNCHANGED <<touchMap, nextId, mouse, pointers, interactive, over, touch, holds>>
        /\ UNCHANGED <<presses, starts, ends, crowded, upset>>
    BY DEF Pointing!TouchMove, Pointing!objects, Pointing!history
  <1>7. /\ touches' \in Seq(Pointing!InputType) /\ Len(touches') = Len(touches)
        /\ \A i \in 1 .. Len(touches) :
              touches'[i] = IF touches[i].id = touchMap[f] THEN g[i] ELSE touches[i]
    BY <1>3, <1>4, Changed
  <1>8. PointList' /\ PointMouse' /\ PointStarts' /\ PointEnds' /\ Pointing!HoverHeld'
    BY <1>5, <1>6, <1>7, Retouched
  <1>9. PointFingers'
    BY <1>5, <1>6, <1>7 DEF PointInv, PointFingers
  <1>10. PointTypes'
    BY <1>6, <1>7 DEF PointInv, PointTypes
  <1> QED  BY <1>8, <1>9, <1>10 DEF PointInv

LEMMA PointLift ==
    ASSUME PointInv, Pointing!PressAssumption, NEW f \in Finger, Pointing!TouchEnd(f)
    PROVE  PointInv'
  <1> DEFINE g == [i \in 1 .. Len(touches) |-> [touches[i] EXCEPT !.flags = 0]]
  <1>1. touches \in Seq(Pointing!InputType) /\ DOMAIN touches = 1 .. Len(touches)
    BY DEF PointInv, PointTypes
  <1>2. \A i \in 1 .. Len(touches) : touches[i] \in Pointing!InputType
    BY <1>1
  <1>3. g \in [1 .. Len(touches) -> Pointing!InputType]
    BY <1>2 DEF Pointing!InputType
  <1>4. touches' = [i \in DOMAIN touches |-> IF touches[i].id = touchMap[f] THEN g[i] ELSE touches[i]]
    BY <1>1 DEF Pointing!TouchEnd, Pointing!ChangeTouch
  <1>5. \A i \in 1 .. Len(touches) :
            /\ g[i].id = touches[i].id /\ g[i].press = touches[i].press
            /\ g[i].now = touches[i].now /\ g[i].last = touches[i].last
            /\ g[i].pos = touches[i].pos /\ g[i].released = touches[i].released
            /\ g[i].flags = 0
    BY <1>2 DEF Pointing!InputType
  <1> HIDE DEF g
  <1>6. /\ UNCHANGED <<nextId, mouse, pointers, interactive, over, touch, holds>>
        /\ UNCHANGED <<presses, starts, ends, crowded, upset>>
        /\ touchMap' = [touchMap EXCEPT ![f] = Pointing!NoTouch] /\ touchMap[f] # Pointing!NoTouch
    BY DEF Pointing!TouchEnd, Pointing!objects, Pointing!history
  <1>7. /\ touches' \in Seq(Pointing!InputType) /\ Len(touches') = Len(touches)
        /\ \A i \in 1 .. Len(touches) :
              touches'[i] = IF touches[i].id = touchMap[f] THEN g[i] ELSE touches[i]
    BY <1>3, <1>4, Changed
  <1>8. PointList' /\ PointMouse' /\ PointStarts' /\ PointEnds' /\ Pointing!HoverHeld'
    BY <1>5, <1>6, <1>7, Retouched
  <1>9. PointTypes'
    BY <1>6, <1>7 DEF PointInv, PointTypes
  <1>10. \A h \in Finger : touchMap'[h] = IF h = f THEN Pointing!NoTouch ELSE touchMap[h]
    BY <1>6 DEF PointInv, PointTypes
  <1>11. PointFingers'
    BY <1>6, <1>7, <1>10 DEF PointInv, PointFingers, Pointing!NoTouch
  <1> QED  BY <1>8, <1>9, <1>11 DEF PointInv

\* The lists of touches and objects while only the mouse, or a press, is new.
LEMMA MouseOnly ==
    ASSUME PointInv, Pointing!PressAssumption,
           UNCHANGED <<touches, touchMap, nextId, interactive, over, touch, holds, starts, ends, crowded>>,
           mouse' \in Pointing!InputType, pointers' \in {"touches", "mouse"},
           presses' \in Nat, presses <= presses', presses' <= MaxPresses,
           mouse'.press = mouse.press \/ mouse'.press = presses + 1
    PROVE  PointTypes' /\ PointList' /\ PointFingers' /\ PointStarts' /\ Pointing!HoverHeld'
  <1>1. PointTypes'
    BY DEF PointInv, PointTypes
  <1>2. \A i \in 1 .. Len(touches) : touches[i].press \in Nat
    BY EachTouch
  <1>3. ASSUME NEW i \in 1 .. Len(touches)
        PROVE  GoodTouch(touches[i], i)'
    <2>1. GoodTouch(touches[i], i)
      BY DEF PointInv, PointList
    <2>2. touches[i].press \in Int /\ presses \in Nat
      BY <1>2, PointNumbers DEF PointInv, PointTypes
    <2> QED  BY <2>1, <2>2 DEF GoodTouch
  <1>4. PointList'
    BY <1>3 DEF PointInv, PointList, Unlike
  <1>5. PointFingers'
    BY DEF PointInv, PointFingers
  <1>6. PointStarts'
    BY PointNumbers DEF PointInv, PointTypes, PointStarts
  <1> QED  BY <1>1, <1>4, <1>5, <1>6, HoverKept

LEMMA PointOver ==
    ASSUME PointInv, Pointing!PressAssumption, Pointing!MouseOver
    PROVE  PointInv'
  <1>1. /\ UNCHANGED <<touches, touchMap, nextId, interactive, over, touch, holds, starts, ends, crowded>>
        /\ mouse' = mouse /\ presses' = presses /\ pointers # "mouse" /\ pointers' = "mouse"
        /\ upset' = (upset \/ (pointers # "mouse" /\ touch # {}))
    BY DEF Pointing!MouseOver, Pointing!Switch, Pointing!objects
  <1>2. mouse \in Pointing!InputType /\ presses \in Nat /\ presses <= MaxPresses
    BY DEF PointInv, PointTypes
  <1>3. PointTypes' /\ PointList' /\ PointFingers' /\ PointStarts' /\ Pointing!HoverHeld'
    BY <1>1, <1>2, MouseOnly
  <1>4. PointMouse'
    BY <1>1 DEF PointInv, PointMouse
  <1>5. PointEnds'
    BY <1>1 DEF PointInv, PointEnds, Pointing!Press
  <1> QED  BY <1>3, <1>4, <1>5 DEF PointInv

LEMMA PointDown ==
    ASSUME PointInv, Pointing!PressAssumption, Pointing!MouseDown
    PROVE  PointInv'
  <1>1. /\ UNCHANGED <<touches, touchMap, nextId, interactive, over, touch, holds, starts, ends, crowded>>
        /\ mouse' = [mouse EXCEPT !.flags = 1, !.press = presses + 1, !.pos = mouse.temp]
        /\ pointers' = pointers /\ presses < MaxPresses /\ presses' = presses + 1
        /\ upset' = (upset \/ mouse.now = 1)
    BY DEF Pointing!MouseDown, Pointing!Pressed, Pointing!objects
  <1>2. /\ mouse \in Pointing!InputType /\ presses \in Nat /\ MaxPresses \in Nat
        /\ presses + 1 \in 1 .. MaxPresses /\ pointers \in {"touches", "mouse"}
    BY <1>1, PointNumbers DEF PointInv, PointTypes
  <1>3. /\ mouse' \in Pointing!InputType /\ mouse'.press = presses + 1 /\ mouse'.id = mouse.id
        /\ mouse'.now = mouse.now
    <2> DEFINE a == [mouse EXCEPT !.flags = 1]
               b == [a EXCEPT !.press = presses + 1]
    <2>1. /\ a \in Pointing!InputType /\ a.id = mouse.id /\ a.now = mouse.now
          /\ a.temp = mouse.temp
      BY <1>2 DEF Pointing!InputType
    <2> HIDE DEF a
    <2>2. b \in Pointing!InputType /\ b.id = mouse.id /\ b.now = mouse.now /\ b.press = presses + 1
      BY <1>2, <2>1 DEF Pointing!InputType
    <2>3. mouse' = [b EXCEPT !.pos = mouse.temp] /\ mouse.temp \in Pointing!Place
      BY <1>1, <1>2 DEF a, Pointing!InputType
    <2> HIDE DEF b
    <2> QED  BY <2>2, <2>3 DEF Pointing!InputType
  <1>4. PointTypes' /\ PointList' /\ PointFingers' /\ PointStarts' /\ Pointing!HoverHeld'
    BY <1>1, <1>2, <1>3, MouseOnly
  <1>5. starts[presses + 1] = 0
    BY <1>2, PointNumbers DEF PointInv, PointStarts
  <1>6. PointMouse'
    BY <1>1, <1>2, <1>3, <1>5 DEF PointInv, PointMouse
  <1>7. PointEnds'
    <2>1. SUFFICES ASSUME ~ upset' PROVE PointEnds'
      BY DEF PointEnds
    <2>2. ~ upset /\ mouse.now # 1
      BY <1>1, <2>1
    <2>3. pointers = "mouse" => touch = {}
      <3>1. touch \subseteq Obj \X Pointing!Id
        BY DEF PointInv, PointTypes
      <3>2. ASSUME pointers = "mouse", NEW o \in Obj, NEW tag \in Pointing!Id, <<o, tag>> \in touch
            PROVE  FALSE
        <4>1. PICK p \in InUse : p.id = tag /\ Touching(o, p, ends, starts)
          BY <2>2, <3>2 DEF PointInv, PointEnds
        <4>2. p = mouse /\ p.now = 1
          BY <3>2, <4>1 DEF InUse, Touching
        <4> QED  BY <2>2, <4>2
      <3> QED  BY <3>1, <3>2
    <2>4. pointers # "mouse" => InUse' = InUse
      BY <1>1 DEF InUse
    <2>5. ASSUME NEW o \in Obj, NEW tag \in Pointing!Id, <<o, tag>> \in touch'
          PROVE  o \in interactive' /\ \E p \in InUse' : p.id = tag /\ Touching(o, p, ends', starts')
      BY <1>1, <2>2, <2>3, <2>4, <2>5 DEF PointInv, PointEnds, Touching
    <2> QED  BY <1>1, <2>2, <2>5 DEF PointInv, PointEnds, Pointing!Press, Pointing!Id
  <1> QED  BY <1>4, <1>6, <1>7 DEF PointInv

\* The mouse is let go or moved.
LEMMA PointMouseMoves ==
    ASSUME PointInv, Pointing!PressAssumption,
           Pointing!MouseUp \/ \E place0 \in Pointing!Place : Pointing!MouseMove(place0)
    PROVE  PointInv'
  <1>1. /\ UNCHANGED <<touches, touchMap, nextId, interactive, over, touch, holds, starts, ends, crowded>>
        /\ pointers' = pointers /\ presses' = presses /\ upset' = upset
    BY DEF Pointing!MouseUp, Pointing!MouseMove, Pointing!objects, Pointing!history
  <1>2. mouse \in Pointing!InputType /\ presses \in Nat /\ presses <= MaxPresses
        /\ pointers \in {"touches", "mouse"}
    BY DEF PointInv, PointTypes
  <1>3. /\ mouse' \in Pointing!InputType /\ mouse'.press = mouse.press /\ mouse'.id = mouse.id
        /\ mouse'.now = mouse.now /\ mouse'.last = mouse.last /\ mouse'.pos = mouse.pos
        /\ mouse'.flags = mouse.flags \/ mouse'.flags = 0
    <2>1. CASE Pointing!MouseUp
      BY <1>2, <2>1 DEF Pointing!MouseUp, Pointing!InputType
    <2>2. CASE \E place0 \in Pointing!Place : Pointing!MouseMove(place0)
      BY <1>2, <2>2 DEF Pointing!MouseMove, Pointing!InputType
    <2> QED  BY <2>1, <2>2
  <1>4. PointTypes' /\ PointList' /\ PointFingers' /\ PointStarts' /\ Pointing!HoverHeld'
    BY <1>1, <1>2, <1>3, MouseOnly
  <1>5. PointMouse'
    BY <1>1, <1>3 DEF PointInv, PointMouse
  <1>6. PointEnds'
    <2>1. SUFFICES ASSUME ~ upset PROVE PointEnds'
      BY <1>1 DEF PointEnds
    <2>2. ASSUME NEW o \in Obj, NEW tag \in Pointing!Id, <<o, tag>> \in touch'
          PROVE  o \in interactive' /\ \E p \in InUse' : p.id = tag /\ Touching(o, p, ends', starts')
      <3>1. o \in interactive /\ \E p \in InUse : p.id = tag /\ Touching(o, p, ends, starts)
        BY <1>1, <2>1, <2>2 DEF PointInv, PointEnds
      <3>2. CASE pointers = "mouse"
        <4>1. InUse' = {mouse'} /\ mouse.id = tag /\ Touching(o, mouse, ends, starts)
          BY <1>1, <3>1, <3>2 DEF InUse
        <4>2. mouse'.id = tag /\ Touching(o, mouse', ends', starts')
          BY <1>1, <1>3, <4>1 DEF Touching
        <4> QED  BY <1>1, <3>1, <4>1, <4>2
      <3>3. CASE pointers # "mouse"
        <4>1. InUse' = InUse
          BY <1>1, <3>3 DEF InUse
        <4> QED  BY <1>1, <3>1, <4>1 DEF Touching
      <3> QED  BY <3>2, <3>3
    <2> QED  BY <1>1, <2>1, <2>2 DEF PointInv, PointEnds, Pointing!Press, Pointing!Id
  <1> QED  BY <1>4, <1>5, <1>6 DEF PointInv

LEMMA PointInteractive ==
    ASSUME PointInv, Pointing!PressAssumption, NEW o \in Obj, Pointing!SetInteractive(o)
    PROVE  PointInv'
  <1>1. /\ UNCHANGED <<touches, touchMap, nextId, mouse, pointers, over, touch, holds>>
        /\ UNCHANGED <<presses, starts, ends, crowded>>
        /\ interactive' = IF o \in interactive THEN interactive \ {o} ELSE interactive \cup {o}
        /\ upset' = (upset \/ (o \in interactive /\ \E tag \in Pointing!Id : <<o, tag>> \in touch))
    BY DEF Pointing!SetInteractive, Pointing!inputs
  <1>2. PointTypes'
    BY <1>1 DEF PointInv, PointTypes
  <1>3. PointList' /\ PointMouse' /\ PointFingers'
    BY <1>1 DEF PointInv, PointList, GoodTouch, PointMouse, PointFingers, Unlike
  <1>4. PointStarts'
    BY <1>1 DEF PointInv, PointStarts
  <1>5. PointEnds'
    <2>1. SUFFICES ASSUME ~ upset' PROVE PointEnds'
      BY DEF PointEnds
    <2>2. ~ upset /\ \A tag \in Pointing!Id : o \in interactive => <<o, tag>> \notin touch
      BY <1>1, <2>1
    <2>3. InUse' = InUse
      BY <1>1 DEF InUse
    <2>4. ASSUME NEW q \in Obj, NEW tag \in Pointing!Id, <<q, tag>> \in touch'
          PROVE  q \in interactive' /\ \E p \in InUse' : p.id = tag /\ Touching(q, p, ends', starts')
      <3>1. q \in interactive /\ \E p \in InUse : p.id = tag /\ Touching(q, p, ends, starts)
        BY <1>1, <2>2, <2>4 DEF PointInv, PointEnds
      <3> QED  BY <1>1, <2>2, <2>3, <2>4, <3>1 DEF Touching
    <2> QED  BY <1>1, <2>2, <2>4 DEF PointInv, PointEnds, Pointing!Press, Pointing!Id
  <1> QED  BY <1>2, <1>3, <1>4, <1>5, <1>1, HoverKept DEF PointInv

LEMMA PointTouch ==
    ASSUME PointInv, Pointing!PressAssumption, NEW f \in Finger, NEW place0 \in Pointing!Place,
           Pointing!TouchStart(f, place0)
    PROVE  PointInv'
  <1> DEFINE L == Len(touches)
             T == Pointing!InputType
             t == Pointing!NewInput(nextId, place0, presses + 1)
  <1>1. /\ touchMap[f] = Pointing!NoTouch /\ presses < MaxPresses /\ presses' = presses + 1
        /\ touches' = Append(touches, t) /\ touchMap' = [touchMap EXCEPT ![f] = nextId]
        /\ nextId' = nextId + 1 /\ pointers' = "touches"
        /\ upset' = (upset \/ (pointers # "touches" /\ touch # {}))
        /\ crowded' = IF touches = <<>> THEN crowded ELSE crowded \cup {presses + 1}
        /\ UNCHANGED <<mouse, interactive, over, touch, holds, starts, ends>>
    BY DEF Pointing!TouchStart, Pointing!Pressed, Pointing!Switch, Pointing!objects
  <1>2. /\ touches \in Seq(T) /\ L \in Nat /\ nextId \in Nat /\ presses \in Nat /\ MaxPresses \in Nat
        /\ nextId <= presses /\ nextId \in Pointing!Id /\ presses + 1 \in Pointing!Press
    BY <1>1, PointNumbers DEF PointInv, PointTypes
  <1>3. t \in T /\ t.id = nextId /\ t.press = presses + 1 /\ t.flags = 1 /\ t.released = FALSE
    BY <1>1, <1>2, PointNumbers DEF Pointing!NewInput, Pointing!InputType
  <1> HIDE DEF t, T
  <1>4. /\ touches' \in Seq(T) /\ Len(touches') = L + 1 /\ touches'[L + 1] = t
        /\ \A i \in 1 .. L : touches'[i] = touches[i]
    BY <1>1, <1>2, <1>3
  <1>5. \A i \in 1 .. L + 1 : i \in 1 .. L \/ i = L + 1
    BY <1>2
  <1>6. /\ \A i \in 1 .. L : /\ touches[i].id \in Nat /\ touches[i].press \in Nat
                             /\ GoodTouch(touches[i], i)
        /\ mouse.press \in Nat /\ mouse.press <= presses
    <2>1. \A i \in 1 .. L : touches[i] \in T
      BY <1>2
    <2> QED  BY <2>1, PointNumbers DEF PointInv, PointTypes, PointList, PointMouse, T, Pointing!InputType
  <1>7. \A i \in 1 .. L : touches[i].id # t.id /\ touches[i].press # t.press
    BY <1>2, <1>3, <1>6 DEF GoodTouch
  <1>8. crowded \subseteq crowded' /\ (L > 0 => presses + 1 \in crowded')
    BY <1>1, <1>2
  <1>9. starts[presses + 1] = 0
    BY <1>2 DEF PointInv, PointStarts
  <1>10. PointTypes'
    <2>1. touchMap' \in [Finger -> Pointing!Id \cup {Pointing!NoTouch}]
      BY <1>1, <1>2 DEF PointInv, PointTypes
    <2>2. nextId' \in Nat /\ presses' \in Nat /\ nextId' <= presses' /\ presses' <= MaxPresses
      BY <1>1, <1>2
    <2> QED  BY <1>1, <1>4, <2>1, <2>2 DEF PointInv, PointTypes, T
  <1>11. PointList'
    <2>1. Unlike(touches')
      BY <1>4, <1>5, <1>7 DEF PointInv, PointList, Unlike
    <2>2. \A i, j \in 1 .. Len(touches') : touches'[i].press = touches'[j].press => i = j
      BY <1>4, <1>5, <1>7 DEF PointInv, PointList
    <2>3. ASSUME NEW i \in 1 .. L + 1
          PROVE  GoodTouch(touches[i], i)'
      <3>1. CASE i \in 1 .. L
        <4>1. GoodTouch(touches[i], i) /\ touches'[i] = touches[i]
          BY <1>4, <1>6, <3>1
        <4> QED  BY <1>1, <1>2, <1>6, <1>8, <3>1, <4>1 DEF GoodTouch
      <3>2. CASE i = L + 1
        <4>1. touches'[i] = t /\ (i >= 2 => t.press \in crowded') /\ t.id < nextId'
              /\ t.press <= presses' /\ 1 <= t.press /\ t.press # mouse'.press
          BY <1>1, <1>2, <1>3, <1>4, <1>6, <1>8, <3>2
        <4>2. starts'[t.press] = 0 /\ t.released = FALSE
          BY <1>1, <1>3, <1>9
        <4> QED  BY <4>1, <4>2 DEF GoodTouch
      <3> QED  BY <1>5, <3>1, <3>2
    <2> QED  BY <1>4, <2>1, <2>2, <2>3 DEF PointList
  <1>12. PointMouse'
    BY <1>1, <1>2, <1>6 DEF PointInv, PointMouse
  <1>13. PointFingers'
    <2>1. \A g \in Finger : touchMap'[g] = IF g = f THEN nextId ELSE touchMap[g]
      BY <1>1 DEF PointInv, PointTypes
    <2>2. ASSUME NEW g \in Finger, touchMap'[g] # Pointing!NoTouch
          PROVE  \E i \in 1 .. Len(touches') : touches'[i].id = touchMap'[g] /\ touches'[i].flags = 1
      <3>1. CASE g = f
        <4>1. L + 1 \in 1 .. Len(touches')
          BY <1>2, <1>4
        <4> QED  BY <1>3, <1>4, <2>1, <3>1, <4>1
      <3>2. CASE g # f
        <4>1. PICK i \in 1 .. L : touches[i].id = touchMap[g] /\ touches[i].flags = 1
          BY <2>1, <2>2, <3>2 DEF PointInv, PointFingers
        <4> QED  BY <1>2, <1>4, <2>1, <3>2, <4>1
      <3> QED  BY <3>1, <3>2
    <2>3. ASSUME NEW g \in Finger, touchMap[g] # Pointing!NoTouch
          PROVE  touchMap[g] # nextId
      <3>1. PICK i \in 1 .. L : touches[i].id = touchMap[g]
        BY <2>3 DEF PointInv, PointFingers
      <3> QED  BY <1>3, <1>7, <3>1
    <2> QED  BY <2>1, <2>2, <2>3 DEF PointInv, PointFingers
  <1>14. PointStarts'
    BY <1>1, <1>2, <1>8, PointNumbers DEF PointInv, PointTypes, PointStarts
  <1>15. PointEnds'
    <2>1. SUFFICES ASSUME ~ upset' PROVE PointEnds'
      BY DEF PointEnds
    <2>2. ~ upset /\ (pointers # "touches" => touch = {})
      BY <1>1, <2>1
    <2>3. ASSUME NEW o \in Obj, NEW tag \in Pointing!Id, <<o, tag>> \in touch'
          PROVE  o \in interactive' /\ \E p \in InUse' : p.id = tag /\ Touching(o, p, ends', starts')
      <3>1. o \in interactive /\ pointers = "touches" /\ \E p \in InUse : p.id = tag /\ Touching(o, p, ends, starts)
        BY <1>1, <2>2, <2>3 DEF PointInv, PointEnds
      <3>2. InUse \subseteq InUse'
        <4>1. InUse = {touches[i] : i \in 1 .. L}
          BY <3>1 DEF InUse
        <4>2. InUse' = {touches'[i] : i \in 1 .. L + 1}
          BY <1>1, <1>4 DEF InUse
        <4>3. \A i \in 1 .. L : i \in 1 .. L + 1
          BY <1>2
        <4> QED  BY <1>4, <4>1, <4>2, <4>3
      <3> QED  BY <1>1, <3>1, <3>2
    <2> QED  BY <1>1, <2>2, <2>3 DEF PointInv, PointEnds, Pointing!Press, Pointing!Id
  <1> QED  BY <1>1, <1>10, <1>11, <1>12, <1>13, <1>14, <1>15, HoverKept DEF PointInv

-----------------------------------------------------------------------------
(* Input: a frame *)

\* The pointers as a frame sees them: of each in use, one that is as it was or sampled,
\* unless it is a touch that was lifted before.
Seen == IF pointers = "mouse" THEN {Pointing!Sampled(mouse)}
        ELSE {Pointing!UpdateList[i] : i \in 1 .. Len(Pointing!UpdateList)}

Sample(p, u) == /\ p.now = u.flags /\ p.last = u.now /\ p.flags = u.flags

Sees(p, u) == p.id = u.id /\ p.press = u.press /\ (p = u \/ Sample(p, u))

LEMMA ListGood ==
    ASSUME PointInv, Pointing!PressAssumption
    PROVE  LET r == Pointing!UpdateList
           IN  /\ r \in Seq(Pointing!InputType) /\ Len(r) \in Nat /\ Unlike(r)
               /\ \A j \in 1 .. Len(r) : \E i \in 1 .. Len(touches) :
                     j <= i /\ Sees(r[j], touches[i]) /\ r[j].flags = touches[i].flags
                     /\ (i = 1 => Sample(r[j], touches[1]))
                     /\ (r[j].released => r[j].flags = 0 /\ r[j].now = 0)
               /\ \A i \in 1 .. Len(touches) :
                     ~ touches[i].released => \E j \in 1 .. Len(r) : Sees(r[j], touches[i])
  <1> DEFINE r == Pointing!UpdateList
             L == Len(touches)
  <1>1. touches \in Seq(Pointing!InputType) /\ L \in Nat /\ Unlike(touches)
    BY DEF PointInv, PointTypes, PointList
  <1>2. ListAfter(touches, L, r)
    BY <1>1, ListUpdated
  <1> HIDE DEF r
  <1>3. \A i \in 1 .. L : /\ touches[i] \in Pointing!InputType
                          /\ Sample(Moved(touches[i]), touches[i])
                          /\ Moved(touches[i]).id = touches[i].id
                          /\ Moved(touches[i]).press = touches[i].press
                          /\ Moved(touches[i]).released = (touches[i].flags = 0)
                          /\ touches[i].released => touches[i].flags = 0 /\ touches[i].now = 0
    BY EachTouch, MovedIs DEF Sample, GoodTouch
  <1>4. r \in Seq(Pointing!InputType) /\ Len(r) \in Nat /\ Unlike(r)
    BY <1>2 DEF ListAfter
  <1>5. ASSUME NEW j \in 1 .. Len(r)
        PROVE  \E i \in 1 .. L :
                   j <= i /\ Sees(r[j], touches[i]) /\ r[j].flags = touches[i].flags
                   /\ (i = 1 => Sample(r[j], touches[1]))
                   /\ (r[j].released => r[j].flags = 0 /\ r[j].now = 0)
    <2>1. PICK i \in 1 .. L : From(touches, L, r[j], j, i)
      BY <1>2, <1>5 DEF ListAfter
    <2>2. j <= i /\ (r[j] = touches[i] \/ r[j] = Moved(touches[i]))
      BY <2>1 DEF From
    <2>3. Sees(r[j], touches[i]) /\ r[j].flags = touches[i].flags
      BY <1>3, <2>2 DEF Sees, Sample
    <2>4. i = 1 => Sample(r[j], touches[1])
      <3>1. i = 1 => r[j] = Moved(touches[1])
        BY <1>1, <2>1 DEF From
      <3> QED  BY <1>3, <3>1
    <2>5. r[j].released => r[j].flags = 0 /\ r[j].now = 0
      BY <1>3, <2>2, <2>3 DEF Sample
    <2> QED  BY <2>2, <2>3, <2>4, <2>5
  <1>6. ASSUME NEW i \in 1 .. L, ~ touches[i].released
        PROVE  \E j \in 1 .. Len(r) : Sees(r[j], touches[i])
    <2>1. PICK j \in 1 .. Len(r) : r[j] \in {touches[i], Moved(touches[i])}
      BY <1>2, <1>6 DEF ListAfter
    <2>2. Sees(r[j], touches[i])
      BY <1>3, <2>1 DEF Sees, Sample
    <2> QED  BY <2>2
  <1> QED  BY <1>4, <1>5, <1>6 DEF r

LEMMA MouseSampled ==
    ASSUME PointInv
    PROVE  LET m == Pointing!Sampled(mouse)
           IN  /\ m \in Pointing!InputType /\ Sees(m, mouse) /\ Sample(m, mouse)
               /\ m.id = mouse.id /\ m.press = mouse.press
  BY DEF PointInv, PointTypes, Pointing!InputType, Pointing!Sampled, Sees, Sample

\* No two of them have an id or a press in common.
LEMMA SeenApart ==
    ASSUME PointInv, Pointing!PressAssumption
    PROVE  /\ Seen \subseteq Pointing!InputType /\ IsFiniteSet(Seen)
           /\ \A p, q \in Seen : p.id = q.id => p = q
           /\ \A p, q \in Seen : p.press = q.press => p = q
  <1>1. CASE pointers = "mouse"
    <2>1. Seen = {Pointing!Sampled(mouse)} /\ Pointing!Sampled(mouse) \in Pointing!InputType
      BY <1>1, MouseSampled DEF Seen
    <2>2. IsFiniteSet(Seen)
      BY <2>1, FS_Singleton
    <2> QED  BY <2>1, <2>2
  <1>2. CASE pointers # "mouse"
    <2> DEFINE r == Pointing!UpdateList
    <2>1. /\ r \in Seq(Pointing!InputType) /\ Len(r) \in Nat /\ Unlike(r)
          /\ \A j \in 1 .. Len(r) : \E i \in 1 .. Len(touches) : Sees(r[j], touches[i])
      BY ListGood
    <2>2. Seen = {r[i] : i \in 1 .. Len(r)}
      BY <1>2 DEF Seen
    <2> HIDE DEF r
    <2>3. Seen \subseteq Pointing!InputType
      BY <2>1, <2>2
    <2>4. IsFiniteSet(Seen)
      <3>1. IsFiniteSet(1 .. Len(r))
        BY <2>1, FS_Interval
      <3>2. [i \in 1 .. Len(r) |-> r[i]] \in Surjection(1 .. Len(r), Seen)
        BY <2>2 DEF Surjection
      <3> QED  BY <3>1, <3>2, FS_Surjection
    <2>5. \A p, q \in Seen : p.id = q.id => p = q
      BY <2>1, <2>2 DEF Unlike
    <2>6. ASSUME NEW p \in Seen, NEW q \in Seen, p.press = q.press
          PROVE  p = q
      <3>1. PICK i \in 1 .. Len(touches) : p.id = touches[i].id /\ p.press = touches[i].press
        BY <2>1, <2>2 DEF Sees
      <3>2. PICK j \in 1 .. Len(touches) : q.id = touches[j].id /\ q.press = touches[j].press
        BY <2>1, <2>2 DEF Sees
      <3>3. i = j
        BY <2>6, <3>1, <3>2 DEF PointInv, PointList
      <3> QED  BY <2>5, <3>1, <3>2, <3>3
    <2> QED  BY <2>3, <2>4, <2>5, <2>6
  <1> QED  BY <1>1, <1>2

\* What is seen was in use, and what was in use and down is seen.
LEMMA SeenOf ==
    ASSUME PointInv, Pointing!PressAssumption
    PROVE  /\ \A p \in Seen : \E u \in InUse :
                 Sees(p, u) /\ (p.press \notin crowded => Sample(p, u))
           /\ \A u \in InUse : u.now = 1 => \E p \in Seen : Sees(p, u)
           /\ \A p \in Seen : p.press \notin crowded /\ p.press # 0 =>
                 p.flags = 0 \/ p.now = 1
  <1>1. CASE pointers = "mouse"
    <2>1. Seen = {Pointing!Sampled(mouse)} /\ InUse = {mouse}
      BY <1>1 DEF Seen, InUse
    <2>2. mouse.flags \in {0, 1}
      BY DEF PointInv, PointTypes, Pointing!InputType
    <2> QED  BY <2>1, <2>2, MouseSampled DEF Sample
  <1>2. CASE pointers # "mouse"
    <2> DEFINE r == Pointing!UpdateList
    <2>1. /\ Len(r) \in Nat
          /\ \A j \in 1 .. Len(r) : \E i \in 1 .. Len(touches) :
                j <= i /\ Sees(r[j], touches[i]) /\ (i = 1 => Sample(r[j], touches[1]))
          /\ \A i \in 1 .. Len(touches) :
                ~ touches[i].released => \E j \in 1 .. Len(r) : Sees(r[j], touches[i])
      BY ListGood
    <2>2. Seen = {r[i] : i \in 1 .. Len(r)} /\ InUse = {touches[i] : i \in 1 .. Len(touches)}
      BY <1>2 DEF Seen, InUse
    <2> HIDE DEF r
    <2>3. \A i \in 1 .. Len(touches) : /\ i # 1 => touches[i].press \in crowded
                                       /\ touches[i].released => touches[i].now = 0
                                       /\ touches[i].flags \in {0, 1}
      BY EachTouch DEF GoodTouch, Pointing!InputType
    <2>4. ASSUME NEW p \in Seen
          PROVE  /\ \E u \in InUse : Sees(p, u) /\ (p.press \notin crowded => Sample(p, u))
                 /\ p.press \notin crowded => p.flags = 0 \/ p.now = 1
      <3>1. PICK j \in 1 .. Len(r) : p = r[j]
        BY <2>2
      <3>2. PICK i \in 1 .. Len(touches) : Sees(p, touches[i]) /\ (i = 1 => Sample(p, touches[1]))
        BY <2>1, <3>1
      <3>3. p.press \notin crowded => Sample(p, touches[i])
        BY <2>3, <3>2 DEF Sees
      <3>4. p.press \notin crowded => p.flags = 0 \/ p.now = 1
        BY <2>3, <3>3 DEF Sample
      <3> QED  BY <2>2, <3>2, <3>3, <3>4
    <2>5. ASSUME NEW u \in InUse, u.now = 1
          PROVE  \E p \in Seen : Sees(p, u)
      <3>1. PICK i \in 1 .. Len(touches) : u = touches[i]
        BY <2>2
      <3>2. ~ touches[i].released
        BY <2>3, <2>5, <3>1
      <3> QED  BY <2>1, <2>2, <3>1, <3>2
    <2> QED  BY <2>4, <2>5
  <1> QED  BY <1>1, <1>2

-----------------------------------------------------------------------------
\* A frame, of the pointers it asks about.
Asked(ps) == interactive \X ps
KeyOf(a) == <<a[1], a[2].id>>
KeysOf(as) == {KeyOf(a) : a \in as}
EnteredBy(o, ps) == {p \in ps : Pointing!IsOver(o, p) /\ <<o, p.id>> \notin over}
LeftBy(o, ps) == {p \in ps : ~ Pointing!IsOver(o, p) /\ <<o, p.id>> \in over}
Begun(k, ps) == {a \in Asked(ps) : a[2].press = k /\ Pointing!StartOn(a[1], a[2])}
Ended(k, ps) == {a \in Asked(ps) : a[2].press = k /\ Pointing!EndOn(a[1], a[2])}
OverOf(ps) == {b \in Asked(ps) : Pointing!IsOver(b[1], b[2]) /\ ~ Pointing!EndOn(b[1], b[2])}
TouchOf(ps) == {b \in Asked(ps) : Pointing!Touched(b[1], b[2]) /\ ~ Pointing!EndOn(b[1], b[2])}

FrameOf(ps) ==
    /\ over' = (over \ KeysOf(Asked(ps))) \cup KeysOf(OverOf(ps))
    /\ touch' = (touch \ KeysOf(Asked(ps))) \cup KeysOf(TouchOf(ps))
    /\ holds' = [o \in Obj |->
                    IF o \in interactive
                    THEN Pointing!Erase(holds[o] + Cardinality(EnteredBy(o, ps)),
                                        Cardinality(LeftBy(o, ps)))
                    ELSE holds[o]]
    /\ starts' = [k \in Pointing!Press |-> starts[k] + Cardinality(Begun(k, ps))]
    /\ ends' = [k \in Pointing!Press |-> ends[k] + Cardinality(Ended(k, ps))]

LEMMA FrameIs ==
    ASSUME PointInv, Pointing!PressAssumption, Pointing!Frame
    PROVE  /\ touches' = Pointing!UpdateList /\ mouse' = Pointing!Sampled(mouse)
           /\ UNCHANGED <<touchMap, nextId, pointers, interactive, presses, crowded, upset>>
           /\ FrameOf(Seen) /\ InUse' = Seen
  <1> DEFINE P == IF pointers = "mouse" THEN {Pointing!Sampled(mouse)}
                  ELSE Pointing!ToSet(Pointing!UpdateList)
  <1>1. P = Seen
    <2>1. /\ Pointing!UpdateList \in Seq(Pointing!InputType)
      BY ListGood
    <2>2. DOMAIN Pointing!UpdateList = 1 .. Len(Pointing!UpdateList)
      BY <2>1
    <2> QED  BY <2>2 DEF Seen, Pointing!ToSet
  <1>2. /\ touches' = Pointing!UpdateList /\ mouse' = Pointing!Sampled(mouse)
        /\ UNCHANGED <<touchMap, nextId, pointers, interactive, presses, crowded, upset>>
    BY DEF Pointing!Frame
  <1>3. FrameOf(P)
    <2>1. over' = (over \ KeysOf(Asked(P))) \cup KeysOf(OverOf(P))
      BY DEF Pointing!Frame, KeysOf, KeyOf, Asked, OverOf
    <2>2. touch' = (touch \ KeysOf(Asked(P))) \cup KeysOf(TouchOf(P))
      BY DEF Pointing!Frame, KeysOf, KeyOf, Asked, TouchOf
    <2>3. holds' = [o \in Obj |->
                    IF o \in interactive
                    THEN Pointing!Erase(holds[o] + Cardinality(EnteredBy(o, P)),
                                        Cardinality(LeftBy(o, P)))
                    ELSE holds[o]]
      BY CountIs, Zenon DEF Pointing!Frame, EnteredBy, LeftBy
    <2>4. starts' = [k \in Pointing!Press |-> starts[k] + Cardinality(Begun(k, P))]
      BY CountIs, Zenon DEF Pointing!Frame, Begun, Asked
    <2>5. ends' = [k \in Pointing!Press |-> ends[k] + Cardinality(Ended(k, P))]
      BY CountIs, Zenon DEF Pointing!Frame, Ended, Asked
    <2> QED  BY <2>1, <2>2, <2>3, <2>4, <2>5, Zenon DEF FrameOf
  <1>4. InUse' = Seen
    BY <1>2 DEF InUse, Seen
  <1> QED  BY <1>1, <1>2, <1>3, <1>4, Zenon

-----------------------------------------------------------------------------
\* What becomes of an object and an id in the flags.
LEMMA FlagsAre ==
    ASSUME NEW ps, FrameOf(ps), NEW o \in Obj, NEW tag \in Pointing!Id
    PROVE  /\ <<o, tag>> \in over' =>
                 \/ \E p \in ps : p.id = tag /\ Pointing!IsOver(o, p) /\ o \in interactive
                 \/ <<o, tag>> \in over /\ (o \notin interactive \/ \A p \in ps : p.id # tag)
           /\ <<o, tag>> \in touch' =>
                 \/ \E p \in ps : p.id = tag /\ Pointing!Touched(o, p) /\ ~ Pointing!EndOn(o, p)
                                /\ o \in interactive
                 \/ <<o, tag>> \in touch /\ (o \notin interactive \/ \A p \in ps : p.id # tag)
  <1>1. ASSUME NEW as \in SUBSET Asked(ps), <<o, tag>> \in KeysOf(as)
        PROVE  \E p \in ps : <<o, p>> \in as /\ p.id = tag /\ o \in interactive
    <2>1. PICK a \in as : <<o, tag>> = <<a[1], a[2].id>>
      BY <1>1 DEF KeysOf, KeyOf
    <2>2. a \in interactive \X ps
      BY <1>1, <2>1 DEF Asked
    <2>3. a = <<a[1], a[2]>> /\ a[1] \in interactive /\ a[2] \in ps
      BY <2>2
    <2>4. a[1] = o /\ a[2].id = tag
      BY <2>1
    <2> QED  BY <2>1, <2>3, <2>4
  <1>2. ASSUME NEW p \in ps, p.id = tag, o \in interactive
        PROVE  <<o, tag>> \in KeysOf(Asked(ps))
    <2>1. <<o, p>> \in Asked(ps) /\ KeyOf(<<o, p>>) = <<o, tag>>
      BY <1>2 DEF Asked, KeyOf
    <2> QED  BY <2>1 DEF KeysOf
  <1>3. \A p : <<o, p>> \in OverOf(ps) => Pointing!IsOver(o, p)
    BY DEF OverOf
  <1>4. \A p : <<o, p>> \in TouchOf(ps) => Pointing!Touched(o, p) /\ ~ Pointing!EndOn(o, p)
    BY DEF TouchOf
  <1>5. OverOf(ps) \in SUBSET Asked(ps) /\ TouchOf(ps) \in SUBSET Asked(ps)
    BY DEF OverOf, TouchOf
  <1>6. ASSUME <<o, tag>> \in over'
        PROVE  \/ \E p \in ps : p.id = tag /\ Pointing!IsOver(o, p) /\ o \in interactive
               \/ <<o, tag>> \in over /\ (o \notin interactive \/ \A p \in ps : p.id # tag)
    <2>1. <<o, tag>> \in over \ KeysOf(Asked(ps)) \/ <<o, tag>> \in KeysOf(OverOf(ps))
      BY <1>6 DEF FrameOf
    <2> QED  BY <1>1, <1>2, <1>3, <1>5, <2>1
  <1>7. ASSUME <<o, tag>> \in touch'
        PROVE  \/ \E p \in ps : p.id = tag /\ Pointing!Touched(o, p) /\ ~ Pointing!EndOn(o, p)
                                /\ o \in interactive
               \/ <<o, tag>> \in touch /\ (o \notin interactive \/ \A p \in ps : p.id # tag)
    <2>1. <<o, tag>> \in touch \ KeysOf(Asked(ps)) \/ <<o, tag>> \in KeysOf(TouchOf(ps))
      BY <1>7 DEF FrameOf
    <2> QED  BY <1>1, <1>2, <1>4, <1>5, <2>1
  <1> QED  BY <1>6, <1>7

LEMMA FlagsTyped ==
    ASSUME NEW ps \in SUBSET Pointing!InputType, FrameOf(ps), interactive \subseteq Obj,
           over \subseteq Obj \X Pointing!Id, touch \subseteq Obj \X Pointing!Id
    PROVE  over' \subseteq Obj \X Pointing!Id /\ touch' \subseteq Obj \X Pointing!Id
  <1>1. \A as \in SUBSET Asked(ps) : KeysOf(as) \subseteq Obj \X Pointing!Id
    <2>1. \A p \in ps : p.id \in Pointing!Id
      BY DEF Pointing!InputType
    <2>2. ASSUME NEW a \in Asked(ps)
          PROVE  KeyOf(a) \in Obj \X Pointing!Id
      <3>1. a[1] \in interactive /\ a[2] \in ps
        BY DEF Asked
      <3> QED  BY <2>1, <3>1 DEF KeyOf
    <2> QED  BY <2>2 DEF KeysOf
  <1>2. OverOf(ps) \in SUBSET Asked(ps) /\ TouchOf(ps) \in SUBSET Asked(ps)
    BY DEF OverOf, TouchOf
  <1> QED  BY <1>1, <1>2 DEF FrameOf

\* As many ids as pointers.
LEMMA AsManyIds ==
    ASSUME NEW S, IsFiniteSet(S), \A p, q \in S : p.id = q.id => p = q
    PROVE  /\ IsFiniteSet({p.id : p \in S}) /\ Cardinality({p.id : p \in S}) = Cardinality(S)
  <1> DEFINE T == {p.id : p \in S}
             f == [p \in S |-> p.id]
  <1>1. f \in [S -> T]
    OBVIOUS
  <1>2. \A p, q \in S : f[p] = f[q] => p = q
    OBVIOUS
  <1>3. \A t \in T : \E p \in S : f[p] = t
    OBVIOUS
  <1> HIDE DEF f, T
  <1>4. f \in Bijection(S, T)
    BY <1>1, <1>2, <1>3 DEF Bijection, Injection, Surjection, IsInjective
  <1>5. ExistsBijection(S, T)
    BY <1>4 DEF ExistsBijection
  <1>6. IsFiniteSet(T) /\ Cardinality(T) = Cardinality(S)
    BY <1>5, FS_Bijection
  <1> QED  BY <1>6 DEF T

\* The pointers that enter an object are held; as many as leave it let go.
LEMMA FrameHovers ==
    ASSUME PointInv, Pointing!PressAssumption, Pointing!Frame
    PROVE  Pointing!HoverHeld' /\ holds' \in [Obj -> Nat]
  <1>1. FrameOf(Seen)
    BY FrameIs
  <1>2. /\ Seen \subseteq Pointing!InputType /\ IsFiniteSet(Seen)
        /\ \A p, q \in Seen : p.id = q.id => p = q
    BY SeenApart
  <1>3. ASSUME NEW o \in Obj
        PROVE  Cardinality(OverBy(o)') <= holds'[o] /\ holds'[o] \in Nat
    <2> DEFINE E == EnteredBy(o, Seen)
               W == LeftBy(o, Seen)
               IdsE == {p.id : p \in E}
               IdsW == {p.id : p \in W}
               I == OverBy(o)
               J == OverBy(o)'
    <2>1. E \in SUBSET Seen /\ W \in SUBSET Seen
      BY DEF EnteredBy, LeftBy
    <2>2. IsFiniteSet(E) /\ IsFiniteSet(W) /\ Cardinality(E) \in Nat /\ Cardinality(W) \in Nat
      BY <1>2, <2>1, FS_Subset, FS_CardinalityType
    <2>3. /\ IsFiniteSet(IdsE) /\ Cardinality(IdsE) = Cardinality(E)
          /\ IsFiniteSet(IdsW) /\ Cardinality(IdsW) = Cardinality(W)
      <3>1. /\ \A p, q \in E : p.id = q.id => p = q
            /\ \A p, q \in W : p.id = q.id => p = q
        BY <1>2, <2>1
      <3> HIDE DEF E, W
      <3> QED  BY <2>2, <3>1, AsManyIds
    <2>4. IsFiniteSet(I) /\ Cardinality(I) \in Nat /\ Cardinality(I) <= holds[o] /\ holds[o] \in Nat
      <3>1. IsFiniteSet(Pointing!Id) /\ I \in SUBSET Pointing!Id
        BY PointNumbers, FS_Interval DEF OverBy
      <3> HIDE DEF I
      <3>2. IsFiniteSet(I) /\ Cardinality(I) \in Nat
        BY <3>1, FS_Subset, FS_CardinalityType
      <3> QED  BY <3>2, HoverIs DEF PointInv, PointTypes, I
    <2>5. CASE o \in interactive
      <3>1. IdsW \subseteq I
        <4>1. \A p \in W : p.id \in Pointing!Id /\ <<o, p.id>> \in over
          BY <1>2 DEF LeftBy, Pointing!InputType
        <4> HIDE DEF W
        <4> QED  BY <4>1 DEF OverBy
      <3>2. J \subseteq (I \ IdsW) \cup IdsE
        <4>1. ASSUME NEW tag \in J
              PROVE  tag \in (I \ IdsW) \cup IdsE
          <5>1. tag \in Pointing!Id /\ <<o, tag>> \in over'
            BY <4>1 DEF OverBy, Pointing!Id
          <5>2. CASE \E p \in Seen : p.id = tag /\ Pointing!IsOver(o, p)
            <6>1. PICK p \in Seen : p.id = tag /\ Pointing!IsOver(o, p)
              BY <5>2
            <6>2. CASE <<o, tag>> \in over
              <7>1. \A q \in W : q.id # tag
                BY <1>2, <6>1 DEF LeftBy
              <7>2. tag \in I /\ tag \notin IdsW
                <8> HIDE DEF W
                <8> QED  BY <5>1, <6>2, <7>1 DEF OverBy
              <7> QED  BY <7>2
            <6>3. CASE <<o, tag>> \notin over
              <7>1. p \in E
                BY <6>1, <6>3 DEF EnteredBy
              <7> HIDE DEF E
              <7> QED  BY <6>1, <7>1
            <6> QED  BY <6>2, <6>3
          <5>3. CASE <<o, tag>> \in over /\ \A p \in Seen : p.id # tag
            <6>1. \A q \in W : q.id # tag
              BY <5>3 DEF LeftBy
            <6>2. tag \in I /\ tag \notin IdsW
              <7> HIDE DEF W
              <7> QED  BY <5>1, <5>3, <6>1 DEF OverBy
            <6> QED  BY <6>2
          <5> QED  BY <1>1, <2>5, <5>1, <5>2, <5>3, FlagsAre
        <4> QED  BY <4>1
      <3>3. holds'[o] = Pointing!Erase(holds[o] + Cardinality(E), Cardinality(W))
        BY <1>1, <2>5 DEF FrameOf
      <3> HIDE DEF E, W, IdsE, IdsW, I, J
      <3>4. IsFiniteSet(I \ IdsW) /\ Cardinality(I \ IdsW) = Cardinality(I) - Cardinality(W)
        <4>1. I \cap IdsW = IdsW
          BY <3>1
        <4>2. /\ IsFiniteSet(I \ IdsW)
              /\ Cardinality(I \ IdsW) = Cardinality(I) - Cardinality(I \cap IdsW)
          BY <2>4, FS_Difference
        <4> QED  BY <2>3, <4>1, <4>2
      <3>5. IsFiniteSet((I \ IdsW) \cup IdsE)
            /\ Cardinality((I \ IdsW) \cup IdsE) <= Cardinality(I \ IdsW) + Cardinality(E)
        <4> DEFINE A == I \ IdsW
        <4>1. IsFiniteSet(A)
          BY <3>4
        <4> HIDE DEF A
        <4>2. IsFiniteSet(A \cup IdsE) /\ IsFiniteSet(A \cap IdsE)
              /\ Cardinality(A \cup IdsE) = Cardinality(A) + Cardinality(IdsE) - Cardinality(A \cap IdsE)
          <5>1. A \cap IdsE \in SUBSET A
            OBVIOUS
          <5> QED  BY <2>3, <4>1, <5>1, FS_Union, FS_Subset
        <4>3. Cardinality(A) \in Nat /\ Cardinality(A \cap IdsE) \in Nat
          BY <4>1, <4>2, FS_CardinalityType
        <4>4. Cardinality(A \cup IdsE) <= Cardinality(A) + Cardinality(E)
          BY <2>2, <2>3, <4>2, <4>3
        <4> QED  BY <4>2, <4>4 DEF A
      <3>6. IsFiniteSet(J) /\ Cardinality(J) <= Cardinality((I \ IdsW) \cup IdsE)
        BY <3>2, <3>5, FS_Subset
      <3>7. Cardinality(J) \in Nat /\ Cardinality((I \ IdsW) \cup IdsE) \in Nat
        BY <3>5, <3>6, FS_CardinalityType
      <3>8. Cardinality(J) <= (Cardinality(I) - Cardinality(W)) + Cardinality(E)
        BY <2>2, <2>4, <3>4, <3>5, <3>6, <3>7
      <3>9. Cardinality(J) <= holds'[o] /\ holds'[o] \in Nat
        BY <2>2, <2>4, <3>3, <3>7, <3>8 DEF Pointing!Erase
      <3> QED  BY <3>9 DEF J
    <2>6. CASE o \notin interactive
      <3>1. holds'[o] = holds[o]
        BY <1>1, <2>6 DEF FrameOf
      <3>2. J \in SUBSET I
        <4>1. ASSUME NEW tag \in J
              PROVE  tag \in I
          <5>1. tag \in Pointing!Id /\ <<o, tag>> \in over'
            BY <4>1 DEF OverBy, Pointing!Id
          <5>2. <<o, tag>> \in over
            BY <1>1, <2>6, <5>1, FlagsAre
          <5> QED  BY <5>1, <5>2 DEF OverBy
        <4> QED  BY <4>1
      <3> HIDE DEF I, J
      <3>3. IsFiniteSet(J) /\ Cardinality(J) <= Cardinality(I)
        BY <2>4, <3>2, FS_Subset
      <3>4. Cardinality(J) \in Nat
        BY <3>3, FS_CardinalityType
      <3>5. Cardinality(J) <= holds'[o] /\ holds'[o] \in Nat
        BY <2>4, <3>1, <3>3, <3>4
      <3> QED  BY <3>5 DEF J
    <2> QED  BY <2>5, <2>6
  <1>4. DOMAIN holds' = Obj /\ holds' = [o \in Obj |-> holds'[o]]
    BY <1>1 DEF FrameOf
  <1>5. Pointing!HoverHeld'
    <2>1. (\A o \in Obj : Cardinality(OverBy(o)) <= holds[o])'
      BY <1>3
    <2> QED  BY <2>1, HoverIs, PTL
  <1> QED  BY <1>3, <1>4, <1>5

-----------------------------------------------------------------------------
\* What a frame tells of a press: one start at most, of the pointer that has it, and none of a
\* press that has no pointer.
LEMMA BegunIs ==
    ASSUME PointInv, Pointing!PressAssumption, NEW k \in Pointing!Press
    PROVE  /\ IsFiniteSet(Begun(k, Seen)) /\ Cardinality(Begun(k, Seen)) \in {0, 1}
           /\ Cardinality(Begun(k, Seen)) = 1 => \E p \in Seen : p.press = k /\ Pointing!Start(p)
           /\ \A o \in interactive, p \in Seen :
                 p.press = k /\ Pointing!StartOn(o, p) => Cardinality(Begun(k, Seen)) = 1
  <1> DEFINE B == Begun(k, Seen)
  <1>1. \A a \in B : /\ a[1] \in interactive /\ a[2] \in Seen /\ a = <<a[1], a[2]>>
                     /\ a[2].press = k /\ a[2].pos = a[1] /\ Pointing!Start(a[2])
    BY DEF Begun, Asked, Pointing!StartOn, Pointing!IsOver
  <1>2. \A o \in interactive, p \in Seen : p.press = k /\ Pointing!StartOn(o, p) => <<o, p>> \in B
    BY DEF Begun, Asked
  <1> HIDE DEF B
  <1>3. \A a, b \in B : a = b
    BY <1>1, SeenApart
  <1>4. B = {} \/ \E a \in B : B = {a}
    BY <1>3
  <1>5. CASE B = {}
    BY <1>2, <1>5, FS_EmptySet DEF B
  <1>6. CASE \E a \in B : B = {a}
    <2>1. IsFiniteSet(B) /\ Cardinality(B) = 1
      BY <1>6, FS_Singleton
    <2> QED  BY <1>1, <1>6, <2>1 DEF B
  <1> QED  BY <1>4, <1>5, <1>6

LEMMA EndedIs ==
    ASSUME PointInv, Pointing!PressAssumption, ~ upset, NEW k \in Pointing!Press
    PROVE  /\ Cardinality(Ended(k, Seen)) \in {0, 1}
           /\ Cardinality(Ended(k, Seen)) = 1 =>
                 \E o \in Obj, p \in Seen : p.press = k /\ Pointing!End(p) /\ <<o, p.id>> \in touch
  <1> DEFINE B == Ended(k, Seen)
  <1>1. ASSUME NEW a \in B
        PROVE  /\ a[1] \in Obj /\ a[2] \in Seen /\ a = <<a[1], a[2]>> /\ a[2].press = k
               /\ a[2].id \in Pointing!Id /\ Pointing!End(a[2]) /\ <<a[1], a[2].id>> \in touch
    <2>1. /\ a[1] \in interactive /\ a[2] \in Seen /\ a = <<a[1], a[2]>> /\ a[2].press = k
          /\ Pointing!Touched(a[1], a[2]) /\ Pointing!End(a[2])
      BY DEF Ended, Asked, Pointing!EndOn
    <2>2. <<a[1], a[2].id>> \in touch
      BY <2>1 DEF Pointing!Touched, Pointing!StartOn, Pointing!Start, Pointing!End
    <2>3. a[2].id \in Pointing!Id /\ a[1] \in Obj
      BY <2>1, SeenApart DEF PointInv, PointTypes, Pointing!InputType
    <2> QED  BY <2>1, <2>2, <2>3
  <1> HIDE DEF B
  <1>2. \A a, b \in B : a[2] = b[2]
    BY <1>1, SeenApart
  <1>3. \A a, b \in B : a[1] = b[1]
    BY <1>1, <1>2 DEF PointInv, PointEnds
  <1>4. \A a, b \in B : a = b
    BY <1>1, <1>2, <1>3
  <1>5. B = {} \/ \E a \in B : B = {a}
    BY <1>4
  <1>6. CASE B = {}
    BY <1>6, FS_EmptySet DEF B
  <1>7. CASE \E a \in B : B = {a}
    <2>1. Cardinality(B) = 1
      BY <1>7, FS_Singleton
    <2> QED  BY <1>1, <1>7, <2>1 DEF B
  <1> QED  BY <1>5, <1>6, <1>7

\* The starts: of a pointer that shared its list with none before it, only while none was told.
LEMMA FrameStarts ==
    ASSUME PointInv, Pointing!PressAssumption, Pointing!Frame
    PROVE  /\ PointStarts' /\ starts' \in [Pointing!Press -> Nat]
           /\ \A k \in Pointing!Press : starts[k] <= starts'[k]
  <1>1. FrameOf(Seen) /\ crowded' = crowded /\ presses' = presses
    BY FrameIs
  <1>2. starts \in [Pointing!Press -> Nat] /\ presses \in Nat
    BY DEF PointInv, PointTypes
  <1>3. ASSUME NEW k \in Pointing!Press
        PROVE  /\ starts'[k] \in {starts[k], starts[k] + 1}
               /\ starts'[k] # starts[k] => \E p \in Seen : p.press = k /\ Pointing!Start(p)
    <2>1. starts'[k] = starts[k] + Cardinality(Begun(k, Seen)) /\ starts[k] \in Nat
      BY <1>1, <1>2 DEF FrameOf
    <2> QED  BY <2>1, BegunIs
  <1>4. starts' \in [Pointing!Press -> Nat]
    <2>1. starts' = [k \in Pointing!Press |-> starts'[k]]
      BY <1>1 DEF FrameOf
    <2> QED  BY <1>2, <1>3, <2>1
  <1>5. ASSUME NEW k \in Pointing!Press, starts'[k] # starts[k]
        PROVE  k <= presses /\ (k \notin crowded => starts[k] = 0)
    <2>1. PICK p \in Seen : p.press = k /\ Pointing!Start(p)
      BY <1>3, <1>5
    <2>2. PICK u \in InUse : Sees(p, u) /\ (k \notin crowded => Sample(p, u))
      BY <2>1, SeenOf
    <2>3. u.press = k /\ (k \notin crowded => u.flags = 1 /\ u.now = 0)
      BY <2>1, <2>2 DEF Sees, Sample, Pointing!Start
    <2>4. u.press <= presses /\ (u.press \notin crowded => u.flags = 0 \/ u.now = 1 \/ starts[u.press] = 0)
      <3>1. CASE pointers = "mouse"
        BY <3>1 DEF InUse, PointInv, PointMouse
      <3>2. CASE pointers # "mouse"
        BY <3>2, EachTouch DEF InUse, GoodTouch
      <3> QED  BY <3>1, <3>2
    <2> QED  BY <2>3, <2>4
  <1>6. PointStarts'
    <2>1. ASSUME NEW k \in Pointing!Press
          PROVE  /\ k \notin crowded => starts'[k] <= 1
                 /\ k > presses => starts'[k] = 0
      <3>1. /\ k \notin crowded => starts[k] <= 1
            /\ k > presses => starts[k] = 0
        BY DEF PointInv, PointStarts
      <3>2. k \in Nat /\ starts[k] \in Nat
        BY <1>2, PointNumbers
      <3> QED  BY <1>2, <1>3, <1>5, <3>1, <3>2
    <2> QED  BY <1>1, <2>1 DEF PointStarts, Pointing!Press
  <1> QED  BY <1>2, <1>3, <1>4, <1>6

LEMMA FrameLists ==
    ASSUME PointInv, Pointing!PressAssumption, Pointing!Frame
    PROVE  PointTypes' /\ PointList' /\ PointMouse' /\ PointFingers'
  <1> DEFINE r == Pointing!UpdateList
             m == Pointing!Sampled(mouse)
             T == Pointing!InputType
  <1>1. /\ touches' = r /\ mouse' = m
        /\ UNCHANGED <<touchMap, nextId, pointers, interactive, presses, crowded>>
        /\ FrameOf(Seen)
    BY FrameIs
  <1>2. /\ r \in Seq(T) /\ Len(r) \in Nat /\ Unlike(r)
        /\ \A j \in 1 .. Len(r) : \E i \in 1 .. Len(touches) :
              j <= i /\ Sees(r[j], touches[i]) /\ r[j].flags = touches[i].flags
              /\ (i = 1 => Sample(r[j], touches[1]))
              /\ (r[j].released => r[j].flags = 0 /\ r[j].now = 0)
        /\ \A i \in 1 .. Len(touches) :
              ~ touches[i].released => \E j \in 1 .. Len(r) : Sees(r[j], touches[i])
    BY ListGood
  <1>3. m \in T /\ Sample(m, mouse) /\ m.id = mouse.id /\ m.press = mouse.press
    BY MouseSampled
  <1> HIDE DEF r, m
  <1>4. PointTypes'
    <2>1. over' \subseteq Obj \X Pointing!Id /\ touch' \subseteq Obj \X Pointing!Id
      <3>1. interactive \subseteq Obj /\ over \subseteq Obj \X Pointing!Id /\ touch \subseteq Obj \X Pointing!Id
        BY DEF PointInv, PointTypes
      <3>2. Seen \in SUBSET T
        BY SeenApart
      <3> QED  BY <1>1, <3>1, <3>2, FlagsTyped
    <2>2. holds' \in [Obj -> Nat] /\ starts' \in [Pointing!Press -> Nat]
      BY FrameHovers, FrameStarts
    <2> QED  BY <1>1, <1>2, <1>3, <2>1, <2>2 DEF PointInv, PointTypes
  <1>5. PointList'
    <2>1. ASSUME NEW j \in 1 .. Len(r), NEW l \in 1 .. Len(r), r[j].press = r[l].press
          PROVE  j = l
      <3>1. PICK i \in 1 .. Len(touches) : Sees(r[j], touches[i])
        BY <1>2
      <3>2. PICK k \in 1 .. Len(touches) : Sees(r[l], touches[k])
        BY <1>2
      <3>3. i = k
        BY <2>1, <3>1, <3>2 DEF Sees, PointInv, PointList
      <3> QED  BY <1>2, <3>1, <3>2, <3>3 DEF Sees, Unlike
    <2>2. ASSUME NEW j \in 1 .. Len(r)
          PROVE  GoodTouch(touches[j], j)'
      <3>1. PICK i \in 1 .. Len(touches) :
                j <= i /\ Sees(r[j], touches[i]) /\ r[j].flags = touches[i].flags
                /\ (i = 1 => Sample(r[j], touches[1]))
                /\ (r[j].released => r[j].flags = 0 /\ r[j].now = 0)
        BY <1>2
      <3>2. GoodTouch(touches[i], i) /\ touches[i].flags \in {0, 1}
        BY EachTouch DEF Pointing!InputType
      <3>3. r[j].id = touches[i].id /\ r[j].press = touches[i].press
        BY <3>1 DEF Sees
      <3>4. i \in Nat /\ j \in Nat /\ (j >= 2 => i >= 2) /\ (i = 1 \/ i >= 2)
        BY <1>2, <3>1
      <3>5. r[j].press \notin crowded => r[j].flags = 0 \/ r[j].now = 1
        BY <3>1, <3>2, <3>3, <3>4 DEF GoodTouch, Sample
      <3>6. touches'[j] = r[j] /\ mouse'.press = mouse.press
        BY <1>1, <1>3
      <3>7. /\ r[j].id < nextId' /\ 1 <= r[j].press /\ r[j].press <= presses'
            /\ r[j].press # mouse'.press /\ (j >= 2 => r[j].press \in crowded')
        BY <1>1, <3>2, <3>3, <3>4, <3>6 DEF GoodTouch
      <3> QED  BY <1>1, <3>1, <3>5, <3>6, <3>7 DEF GoodTouch
    <2> QED  BY <1>1, <1>2, <2>1, <2>2 DEF PointList
  <1>6. PointMouse'
    <2>1. mouse \in T
      BY DEF PointInv, PointTypes
    <2>2. mouse.flags \in {0, 1}
      BY <2>1 DEF Pointing!InputType
    <2> QED  BY <1>1, <1>3, <2>2 DEF PointInv, PointMouse, Sample
  <1>7. PointFingers'
    <2>1. ASSUME NEW f \in Finger, touchMap[f] # Pointing!NoTouch
          PROVE  \E j \in 1 .. Len(r) : r[j].id = touchMap[f] /\ r[j].flags = 1
      <3>1. PICK i \in 1 .. Len(touches) : touches[i].id = touchMap[f] /\ touches[i].flags = 1
        BY <2>1 DEF PointInv, PointFingers
      <3>2. ~ touches[i].released
        BY <3>1, EachTouch DEF GoodTouch
      <3>3. PICK j \in 1 .. Len(r) : Sees(r[j], touches[i])
        BY <1>2, <3>2
      <3>4. r[j].id = touches[i].id /\ r[j].flags = touches[i].flags
        BY <3>3 DEF Sees, Sample
      <3> QED  BY <3>1, <3>4
    <2> QED  BY <1>1, <2>1 DEF PointInv, PointFingers, Pointing!NoTouch
  <1> QED  BY <1>4, <1>5, <1>6, <1>7

\* The ends, each of an object that was touched by a press that is told to end once more.
LEMMA FrameEnds ==
    ASSUME PointInv, Pointing!PressAssumption, Pointing!Frame
    PROVE  PointEnds'
  <1> SUFFICES ASSUME ~ upset' PROVE PointEnds'
    BY DEF PointEnds
  <1>1. ~ upset /\ FrameOf(Seen) /\ InUse' = Seen /\ interactive' = interactive
    BY FrameIs
  <1>2. /\ ends \in [Pointing!Press -> Nat] /\ \A k \in Pointing!Press : ends[k] <= starts[k]
        /\ \A o \in Obj, tag \in Pointing!Id : <<o, tag>> \in touch =>
              o \in interactive /\ \E p \in InUse : p.id = tag /\ Touching(o, p, ends, starts)
        /\ \A o, q \in Obj, tag \in Pointing!Id : <<o, tag>> \in touch /\ <<q, tag>> \in touch => o = q
    BY <1>1 DEF PointInv, PointEnds
  <1>3. /\ Seen \subseteq Pointing!InputType /\ \A p, q \in Seen : p.id = q.id => p = q
        /\ \A p, q \in Seen : p.press = q.press => p = q
    BY SeenApart
  <1>4. /\ \A p \in Seen : \E u \in InUse : Sees(p, u)
        /\ \A u \in InUse : u.now = 1 => \E p \in Seen : Sees(p, u)
    BY SeenOf
  <1>5. \A k \in Pointing!Press : /\ starts[k] \in Nat /\ starts'[k] \in Nat /\ starts[k] <= starts'[k]
                                  /\ ends[k] \in Nat
    BY <1>2, FrameStarts DEF PointInv, PointTypes
  <1>6. \A k \in Pointing!Press : starts'[k] = starts[k] + Cardinality(Begun(k, Seen))
                                  /\ ends'[k] = ends[k] + Cardinality(Ended(k, Seen))
    BY <1>1 DEF FrameOf
  \* The pointer of a flag, and its press.
  <1>7. ASSUME NEW o \in Obj, NEW tag \in Pointing!Id, <<o, tag>> \in touch,
               NEW p \in Seen, p.id = tag
        PROVE  /\ o \in interactive /\ p.press \in Pointing!Press /\ ends[p.press] < starts[p.press]
               /\ \/ p.now = 1 /\ (p.last = 0 => p.pos = o)
                  \/ p.last = 1
    <2>1. PICK u \in InUse : u.id = tag /\ Touching(o, u, ends, starts)
      BY <1>2, <1>7
    <2>2. u.now = 1
      BY <2>1 DEF Touching
    <2>3. PICK q \in Seen : Sees(q, u)
      BY <1>4, <2>2
    <2>4. q = p
      BY <1>3, <1>7, <2>1, <2>3 DEF Sees
    <2>5. /\ ends[p.press] < starts[p.press]
          /\ \/ p.now = 1 /\ (p.last = 0 => p.pos = o)
             \/ p.last = 1
      BY <2>1, <2>3, <2>4 DEF Sees, Sample, Touching
    <2>6. p.press \in Pointing!Press
      <3>1. u.press \in Pointing!Press
        <4>1. CASE pointers = "mouse"
          <5>1. u = mouse
            BY <2>1, <4>1 DEF InUse
          <5>2. mouse \in Pointing!InputType /\ mouse.press # 0
            BY <2>2, <5>1 DEF PointInv, PointTypes, PointMouse
          <5>3. mouse.press \in 0 .. MaxPresses
            BY <5>2 DEF Pointing!InputType
          <5> QED  BY <5>1, <5>2, <5>3, PointNumbers
        <4>2. CASE pointers # "mouse"
          <5>1. PICK i \in 1 .. Len(touches) : u = touches[i]
            BY <2>1, <4>2 DEF InUse
          <5>2. u \in Pointing!InputType /\ 1 <= u.press
            BY <5>1, EachTouch DEF GoodTouch
          <5>3. u.press \in 0 .. MaxPresses
            BY <5>2 DEF Pointing!InputType
          <5> QED  BY <5>2, <5>3, PointNumbers
        <4> QED  BY <4>1, <4>2
      <3> QED  BY <2>3, <2>4, <3>1 DEF Sees
    <2> QED  BY <1>2, <1>7, <2>5, <2>6
  <1>8. ASSUME NEW p \in Seen, p.press \in Pointing!Press, ~ Pointing!End(p)
        PROVE  ends'[p.press] = ends[p.press]
    <2> DEFINE c == Cardinality(Ended(p.press, Seen))
    <2>1. c \in {0, 1} /\ (c = 1 => \E q \in Seen : q.press = p.press /\ Pointing!End(q))
      BY <1>1, <1>8, EndedIs
    <2>2. c = 0
      BY <1>3, <1>8, <2>1
    <2> QED  BY <1>5, <1>6, <1>8, <2>2
  <1>9. ASSUME NEW k \in Pointing!Press
        PROVE  ends'[k] \in Nat /\ ends'[k] <= starts'[k]
    <2> DEFINE c == Cardinality(Ended(k, Seen))
    <2>1. c \in {0, 1} /\ (c = 1 => \E o \in Obj, q \in Seen : q.press = k /\ <<o, q.id>> \in touch)
      BY <1>1, EndedIs
    <2>2. c = 1 => ends[k] < starts[k]
      <3> SUFFICES ASSUME c = 1 PROVE ends[k] < starts[k]
        OBVIOUS
      <3>1. PICK o \in Obj, q \in Seen : q.press = k /\ <<o, q.id>> \in touch
        BY <2>1
      <3>2. q.id \in Pointing!Id
        BY <1>3 DEF Pointing!InputType
      <3> QED  BY <1>7, <3>1, <3>2
    <2>3. ends'[k] = ends[k] + c
      BY <1>6
    <2> HIDE DEF c
    <2> QED  BY <1>2, <1>5, <2>1, <2>2, <2>3
  \* A flag that is set after the frame, by what it was or by a start.
  <1>10. ASSUME NEW o \in Obj, NEW tag \in Pointing!Id, <<o, tag>> \in touch'
         PROVE  \E p \in Seen : /\ p.id = tag /\ o \in interactive /\ ~ Pointing!EndOn(o, p)
                               /\ Pointing!Touched(o, p)
    <2>1. CASE \E p \in Seen : p.id = tag /\ Pointing!Touched(o, p) /\ ~ Pointing!EndOn(o, p)
                              /\ o \in interactive
      BY <2>1
    <2>2. CASE <<o, tag>> \in touch /\ (o \notin interactive \/ \A p \in Seen : p.id # tag)
      <3>1. o \in interactive
        BY <1>2, <2>2
      <3>2. PICK u \in InUse : u.id = tag /\ Touching(o, u, ends, starts)
        BY <1>2, <2>2
      <3>3. PICK p \in Seen : Sees(p, u)
        BY <1>4, <3>2 DEF Touching
      <3> QED  BY <2>2, <3>1, <3>2, <3>3 DEF Sees
    <2> QED  BY <1>1, <1>10, <2>1, <2>2, FlagsAre
  <1>11. ASSUME NEW o \in Obj, NEW tag \in Pointing!Id, <<o, tag>> \in touch'
         PROVE  o \in interactive /\ \E p \in Seen : p.id = tag /\ Touching(o, p, ends', starts')
    <2>1. PICK p \in Seen : /\ p.id = tag /\ o \in interactive /\ ~ Pointing!EndOn(o, p)
                            /\ Pointing!Touched(o, p)
      BY <1>10, <1>11
    <2>2. ~ Pointing!End(p) /\ p.now \in {0, 1} /\ p.last \in {0, 1}
      BY <1>3, <2>1 DEF Pointing!EndOn, Pointing!InputType
    <2>3. CASE <<o, tag>> \in touch
      <3>1. /\ p.press \in Pointing!Press /\ ends[p.press] < starts[p.press]
            /\ \/ p.now = 1 /\ (p.last = 0 => p.pos = o)
               \/ p.last = 1
        BY <1>7, <2>1, <2>3
      <3>2. p.now = 1 /\ (p.last = 0 => p.pos = o)
        BY <2>2, <3>1 DEF Pointing!End
      <3>3. ends'[p.press] < starts'[p.press]
        BY <1>5, <1>8, <2>2, <3>1
      <3> QED  BY <2>1, <3>2, <3>3 DEF Touching
    <2>4. CASE <<o, tag>> \notin touch
      <3>1. Pointing!StartOn(o, p)
        BY <2>1, <2>4 DEF Pointing!Touched
      <3>2. p.now = 1 /\ p.last = 0 /\ p.pos = o
        BY <3>1 DEF Pointing!StartOn, Pointing!Start, Pointing!IsOver
      <3>3. p.press \in Pointing!Press
        <4>1. PICK u \in InUse : Sees(p, u)
          BY <1>4
        <4>2. u.press # 0
          <5>1. CASE pointers = "mouse"
            <6>1. u = mouse /\ (u.flags = 1 \/ u.now = 1)
              BY <3>2, <4>1, <5>1 DEF InUse, Sees, Sample
            <6> QED  BY <6>1 DEF PointInv, PointMouse
          <5>2. CASE pointers # "mouse"
            BY <5>2, EachTouch DEF InUse, GoodTouch
          <5> QED  BY <5>1, <5>2
        <4>3. p.press \in 0 .. MaxPresses
          BY <1>3 DEF Pointing!InputType
        <4> QED  BY <4>1, <4>2, <4>3, PointNumbers DEF Sees
      <3>4. starts'[p.press] = starts[p.press] + 1
        BY <1>6, <2>1, <3>1, <3>3, BegunIs
      <3>5. ends'[p.press] < starts'[p.press]
        BY <1>2, <1>5, <1>8, <2>2, <3>3, <3>4
      <3> QED  BY <2>1, <3>2, <3>5 DEF Touching
    <2> QED  BY <2>3, <2>4
  <1>12. ASSUME NEW o \in Obj, NEW q \in Obj, NEW tag \in Pointing!Id,
                <<o, tag>> \in touch', <<q, tag>> \in touch'
         PROVE  o = q
    <2>1. PICK p \in Seen : p.id = tag /\ Pointing!Touched(o, p)
      BY <1>10, <1>12
    <2>2. PICK s \in Seen : s.id = tag /\ Pointing!Touched(q, s)
      BY <1>10, <1>12
    <2>3. s = p
      BY <1>3, <2>1, <2>2
    <2>4. CASE <<o, tag>> \in touch /\ <<q, tag>> \in touch
      BY <1>2, <2>4
    <2>5. ASSUME Pointing!StartOn(o, p), Pointing!StartOn(q, p)
          PROVE  o = q
      BY <2>5 DEF Pointing!StartOn, Pointing!IsOver
    <2>6. ASSUME NEW a \in Obj, NEW b \in Obj, <<a, tag>> \in touch, Pointing!StartOn(b, p)
          PROVE  a = b
      <3>1. p.now = 1 /\ p.last = 0 /\ p.pos = b
        BY <2>6 DEF Pointing!StartOn, Pointing!Start, Pointing!IsOver
      <3> QED  BY <1>7, <2>1, <2>6, <3>1
    <2>7. /\ <<o, tag>> \in touch \/ Pointing!StartOn(o, p)
          /\ <<q, tag>> \in touch \/ Pointing!StartOn(q, p)
      BY <2>1, <2>2, <2>3 DEF Pointing!Touched
    <2> QED  BY <2>4, <2>5, <2>6, <2>7
  <1>13. ends' \in [Pointing!Press -> Nat]
    <2>1. ends' = [k \in Pointing!Press |-> ends'[k]]
      BY <1>1 DEF FrameOf
    <2> QED  BY <1>9, <2>1
  <1> QED  BY <1>1, <1>9, <1>11, <1>12, <1>13 DEF PointEnds, Pointing!Press, Pointing!Id

LEMMA PointFrame ==
    ASSUME PointInv, Pointing!PressAssumption, Pointing!Frame
    PROVE  PointInv'
  BY FrameLists, FrameStarts, FrameEnds, FrameHovers DEF PointInv

LEMMA PointStep ==
    ASSUME PointInv, Pointing!PressAssumption, Pointing!Next
    PROVE  PointInv'
  BY PointLift, PointTouch, PointMove, PointOver, PointDown, PointMouseMoves, PointFrame,
     PointInteractive DEF Pointing!Next

\* What the invariant says of the properties.
LEMMA PointGood ==
    ASSUME PointInv, Pointing!PressAssumption
    PROVE  Pointing!TypeOK /\ Pointing!StartOnce /\ Pointing!EndsMatched /\ Pointing!HoverHeld
  <1>1. ASSUME NEW f \in Finger, touchMap[f] # Pointing!NoTouch
        PROVE  \E t \in Pointing!ToSet(touches) : t.id = touchMap[f] /\ t.flags = 1 /\ ~ t.released
    <2>1. PICK i \in 1 .. Len(touches) : touches[i].id = touchMap[f] /\ touches[i].flags = 1
      BY <1>1 DEF PointInv, PointFingers
    <2>2. ~ touches[i].released
      BY <2>1, EachTouch DEF GoodTouch
    <2>3. DOMAIN touches = 1 .. Len(touches)
      BY DEF PointInv, PointTypes
    <2> QED  BY <2>1, <2>2, <2>3 DEF Pointing!ToSet
  <1>2. DOMAIN touches = 1 .. Len(touches)
    BY DEF PointInv, PointTypes
  <1>3. Pointing!TypeOK
    BY <1>1, <1>2 DEF Pointing!TypeOK, PointInv, PointTypes, PointList, Unlike
  <1>4. Pointing!StartOnce
    BY DEF PointInv, PointStarts, Pointing!StartOnce
  <1>5. Pointing!EndsMatched
    BY DEF PointInv, PointEnds, Pointing!EndsMatched
  <1> QED  BY <1>3, <1>4, <1>5 DEF PointInv

-----------------------------------------------------------------------------
InputInv ==
    /\ part = "keyboard" => KeysInv
    /\ part = "gamepads" => PadsInv
    /\ part = "pointers" => PointInv

LEMMA InputStarts == InputInit => InputInv
  BY KeysStart, PadsStart, PointStart, PointingAssumption DEF InputInit, InputInv

LEMMA InputSteps == InputInv /\ [InputNext]_inputVars => InputInv'
  <1> SUFFICES ASSUME InputInv, [InputNext]_inputVars PROVE InputInv'
    OBVIOUS
  <1>1. part' = part
    BY DEF InputNext, inputVars
  <1>2. part = "keyboard" => KeysInv'
    BY KeysStep, KeysStay DEF InputInv, InputNext, inputVars
  <1>3. part = "gamepads" => PadsInv'
    BY PadsStep, PadsStay, PadsAssumption DEF InputInv, InputNext, inputVars
  <1>4. part = "pointers" => PointInv'
    BY PointStep, PointStay, PointingAssumption DEF InputInv, InputNext, inputVars
  <1> QED  BY <1>1, <1>2, <1>3, <1>4 DEF InputInv

\* Of any number of keys' events, gamepads, fingers, presses and objects: what the library
\* reports as going down or up is what happened, once each; a pointend belongs to a press
\* that was reported; what a pointer is over is held (phina.js:6089, 6877, 6010, 7229).
THEOREM PressesAlwaysAddUp == InputSpec => []PressesAddUp
  <1>1. InputInv => PressesAddUp
    <2>1. KeysInv => Keys!EdgesAddUp /\ Keys!AngleOfDirection
      BY AngleFollows DEF KeysInv, KeysAddUp
    <2>2. PadsInv => Pads!EdgesAlternate
      BY DEF PadsInv
    <2>3. PointInv => Pointing!TypeOK /\ Pointing!StartOnce /\ Pointing!EndsMatched /\ Pointing!HoverHeld
      BY PointGood, PointingAssumption
    <2> QED  BY <2>1, <2>2, <2>3 DEF InputInv, PressesAddUp
  <1> QED  BY <1>1, InputStarts, InputSteps, PTL DEF InputSpec

-----------------------------------------------------------------------------
(* Input: dragging *)

DragElement(count) == [x : Int, interactive : BOOLEAN, dragging : BOOLEAN, touch : SUBSET (1 .. count)]
Telling(count) == [el : DragElement(count), initial : Int, followed : Int,
                   grip : SUBSET (1 .. count), mixed : BOOLEAN]

\* Of an element, and what grips it: one pointer at most touches it, and none while it is
\* not interactive; it is dragged exactly if that one has gripped it.
Held(e, g) ==
    /\ \A p, q \in e.touch : p = q
    /\ ~ e.interactive => e.touch = {}
    /\ e.dragging <=> e.touch \cap g # {}

\* While pointers 1 .. n have been told what they did, that are down in d and were so in was.
Even(s, n, d, was) ==
    ~ s.mixed /\ (\A p, q \in s.grip : p = q) =>
        /\ Held(s.el, s.grip)
        /\ \A p \in s.el.touch : IF p <= n THEN p \in d ELSE p \in was
        /\ \A p \in s.grip : p \in s.el.touch \/ (p <= n /\ p \notin d)
        /\ s.el.x = s.initial + s.followed

\* What a pointer that starts or ends makes of s, and one that moves.
StartOf(count, crossing, s, t, p) ==
    /\ t \in Telling(count)
    /\ t.el.x = s.el.x /\ t.el.interactive = s.el.interactive /\ t.el.touch = s.el.touch \cup {p}
    /\ lock => /\ t.el.dragging = s.el.dragging /\ t.initial = s.initial
               /\ t.followed = s.followed /\ t.grip = s.grip
               /\ t.mixed = (s.mixed \/ s.el.touch # {})
    /\ ~ lock => /\ t.el.dragging /\ t.initial = s.el.x
                 /\ t.followed = 0 /\ t.grip = s.grip \cup {p}
                 /\ t.mixed = (crossing \/ s.el.touch \ {p} # {})
MoveOf(count, s, t, m) ==
    /\ t \in Telling(count)
    /\ t.el.x = IF s.el.dragging THEN s.el.x + m ELSE s.el.x
    /\ t.el.interactive = s.el.interactive /\ t.el.dragging = s.el.dragging
    /\ t.el.touch = s.el.touch /\ t.initial = s.initial /\ t.followed = s.followed
    /\ t.grip = s.grip /\ t.mixed = s.mixed
EndOf(count, s, t, p) ==
    /\ t \in Telling(count)
    /\ t.el.x = s.el.x /\ t.el.interactive = s.el.interactive /\ ~ t.el.dragging
    /\ t.el.touch = s.el.touch \ {p} /\ t.initial = s.initial /\ t.followed = s.followed
    /\ t.grip = s.grip /\ t.mixed = s.mixed

LEMMA StartIs ==
    ASSUME NEW CONSTANT count, NEW CONSTANT again, NEW CONSTANT backs, NEW s \in Telling(count), NEW p \in 1 .. count
    PROVE  StartOf(count, Drag(count, again, backs)!Backs # {}, s, Drag(count, again, backs)!PointStart(s, p), p)
  <1> DEFINE D == Drag(count, again, backs)!Backs
  <1>1. s.el \in DragElement(count) /\ s.initial \in Int /\ s.followed \in Int
        /\ s.grip \in SUBSET (1 .. count) /\ s.mixed \in BOOLEAN
    BY DEF Telling
  <1>2. CASE lock
    <2> DEFINE e == [s.el EXCEPT !.touch = @ \cup {p}]
               m == s.mixed \/ s.el.touch # {}
    <2>1. /\ e \in DragElement(count) /\ e.x = s.el.x /\ e.interactive = s.el.interactive
          /\ e.dragging = s.el.dragging /\ e.touch = s.el.touch \cup {p}
      BY <1>1 DEF DragElement
    <2>2. m \in BOOLEAN
      OBVIOUS
    <2>3. Drag(count, again, backs)!PointStart(s, p) = [s EXCEPT !.el = e, !.mixed = m]
      BY <1>1, <1>2 DEF Drag!PointStart, Telling
    <2> HIDE DEF e
    <2>4. m = (s.mixed \/ s.el.touch # {})
      OBVIOUS
    <2> HIDE DEF m
    <2> QED  BY <1>1, <1>2, <2>1, <2>2, <2>3, <2>4 DEF Telling, StartOf
  <1>3. CASE ~ lock
    <2> DEFINE e == [s.el EXCEPT !.touch = @ \cup {p}, !.dragging = TRUE]
               m == D # {} \/ s.el.touch \ {p} # {}
    <2>1. /\ e \in DragElement(count) /\ e.x = s.el.x /\ e.interactive = s.el.interactive
          /\ e.dragging /\ e.touch = s.el.touch \cup {p} /\ e.x \in Int
      BY <1>1 DEF DragElement
    <2>2. m \in BOOLEAN
      OBVIOUS
    <2>3. Drag(count, again, backs)!PointStart(s, p) =
            [el |-> e, initial |-> s.el.x, followed |-> 0, grip |-> s.grip \cup {p}, mixed |-> m]
      BY <1>1, <1>3 DEF Drag!PointStart, Telling
    <2>5. m = (D # {} \/ s.el.touch \ {p} # {})
      OBVIOUS
    <2> HIDE DEF e, m
    <2> QED  BY <1>1, <1>3, <2>1, <2>2, <2>3, <2>5 DEF Telling, StartOf
  <1> QED  BY <1>2, <1>3

LEMMA MoveIs ==
    ASSUME NEW CONSTANT count, NEW CONSTANT again, NEW CONSTANT backs, NEW s \in Telling(count), NEW m \in Int
    PROVE  MoveOf(count, s, Drag(count, again, backs)!PointMove(s, m), m)
  BY DEF Drag!PointMove, MoveOf, Telling, DragElement

LEMMA EndIs ==
    ASSUME NEW CONSTANT count, NEW CONSTANT again, NEW CONSTANT backs, NEW s \in Telling(count), NEW p
    PROVE  EndOf(count, s, Drag(count, again, backs)!PointEnd(s, p), p)
  BY DEF Drag!PointEnd, EndOf, Telling, DragElement

\* What the next pointer, p, has been told of its start.
EvenAt(s, n, d, was, p) ==
    ~ s.mixed /\ (\A r, q \in s.grip : r = q) =>
        /\ Held(s.el, s.grip)
        /\ \A q \in s.el.touch : IF q <= n THEN q \in d ELSE q \in was \/ (q = p /\ q \in d)
        /\ \A q \in s.grip : q \in s.el.touch \/ (q <= n /\ q \notin d)
        /\ s.el.x = s.initial + s.followed

LEMMA StartEven ==
    ASSUME NEW CONSTANT count, NEW CONSTANT again, NEW CONSTANT backs,
           count \in Nat, NEW n \in Nat, n + 1 <= count, NEW d, NEW was, n + 1 \in d, n + 1 \notin was,
           Drag(count, again, backs)!Backs = {}, lock \in BOOLEAN,
           NEW s \in Telling(count), s.el.interactive, Even(s, n, d, was)
    PROVE  EvenAt(Drag(count, again, backs)!PointStart(s, n + 1), n, d, was, n + 1)
  <1> DEFINE p == n + 1
             t == Drag(count, again, backs)!PointStart(s, p)
  <1>1. p \in 1 .. count /\ p \in Nat /\ ~ (p <= n)
    OBVIOUS
  <1>2. /\ t \in Telling(count)
        /\ t.el.x = s.el.x /\ t.el.interactive = s.el.interactive
        /\ t.el.touch = s.el.touch \cup {p}
        /\ lock => /\ t.el.dragging = s.el.dragging /\ t.initial = s.initial
                   /\ t.followed = s.followed /\ t.grip = s.grip
                   /\ t.mixed = (s.mixed \/ s.el.touch # {})
        /\ ~ lock => /\ t.el.dragging /\ t.initial = s.el.x
                     /\ t.followed = 0 /\ t.grip = s.grip \cup {p}
                     /\ t.mixed = (Drag(count, again, backs)!Backs # {} \/ s.el.touch \ {p} # {})
    <2>1. t = Drag(count, again, backs)!PointStart(s, p)
      OBVIOUS
    <2> HIDE DEF t, p
    <2>2. StartOf(count, Drag(count, again, backs)!Backs # {}, s, t, p)
      BY <1>1, <2>1, StartIs
    <2> QED  BY <2>2 DEF StartOf
  <1>3. s.el.x \in Int /\ s.el.touch \subseteq 1 .. count /\ s.grip \subseteq 1 .. count
    BY DEF Telling, DragElement
  <1>4. p \in d /\ p \notin was
    OBVIOUS
  <1> HIDE DEF t, p
  <1>5. CASE lock
    <2> SUFFICES ASSUME ~ t.mixed, \A r, q \in t.grip : r = q
                 PROVE  /\ Held(t.el, t.grip)
                        /\ \A q \in t.el.touch : IF q <= n THEN q \in d ELSE q \in was \/ (q = p /\ q \in d)
                        /\ \A q \in t.grip : q \in t.el.touch \/ (q <= n /\ q \notin d)
                        /\ t.el.x = t.initial + t.followed
      BY DEF EvenAt, t, p
    <2>1. ~ s.mixed /\ s.el.touch = {} /\ t.grip = s.grip /\ t.el.touch = {p}
      BY <1>2, <1>5
    <2>2. /\ Held(s.el, s.grip) /\ s.el.x = s.initial + s.followed
          /\ \A q \in s.grip : q <= n /\ q \notin d
      BY <2>1 DEF Even
    <2>3. p \notin t.grip /\ ~ t.el.dragging
      BY <1>2, <1>4, <1>5, <2>1, <2>2 DEF Held
    <2>4. Held(t.el, t.grip)
      BY <1>2, <2>1, <2>3 DEF Held
    <2> QED  BY <1>1, <1>2, <1>4, <1>5, <2>1, <2>2, <2>4
  <1>6. CASE ~ lock
    <2> SUFFICES ASSUME ~ t.mixed, \A r, q \in t.grip : r = q
                 PROVE  /\ Held(t.el, t.grip)
                        /\ \A q \in t.el.touch : IF q <= n THEN q \in d ELSE q \in was \/ (q = p /\ q \in d)
                        /\ \A q \in t.grip : q \in t.el.touch \/ (q <= n /\ q \notin d)
                        /\ t.el.x = t.initial + t.followed
      BY DEF EvenAt, t, p
    <2>1. t.el.touch = {p} /\ t.grip = {p} /\ t.el.dragging
      BY <1>2, <1>6
    <2>2. Held(t.el, t.grip)
      BY <1>2, <2>1 DEF Held
    <2>3. t.el.x = t.initial + t.followed
      BY <1>2, <1>3, <1>6
    <2> QED  BY <1>1, <1>4, <2>1, <2>2, <2>3
  <1> QED  BY <1>5, <1>6 DEF t, p

LEMMA ToldNext ==
    ASSUME NEW CONSTANT count, NEW CONSTANT again, NEW CONSTANT backs,
           count \in Nat, NEW n \in Nat, n + 1 <= count,
           Drag(count, again, backs)!Backs = {}, lock \in BOOLEAN, last' = draggingDown,
           NEW over1, NEW by \in [1 .. count -> {-1, 0, 1}],
           NEW s \in Telling(count), Even(s, n, draggingDown', draggingDown)
    PROVE  LET t == Drag(count, again, backs)!Tell(s, over1, by, n + 1)
           IN  t \in Telling(count) /\ Even(t, n + 1, draggingDown', draggingDown)
  <1> DEFINE p == n + 1
             m == by[p]
             d == draggingDown'
             was == draggingDown
             st == p \in over1 /\ p \in d /\ p \notin was
             s1 == IF st THEN Drag(count, again, backs)!PointStart(s, p) ELSE s
             s2 == IF m # 0 /\ p \in s1.el.touch THEN Drag(count, again, backs)!PointMove(s1, m) ELSE s1
             s3 == IF p \in s1.grip THEN [s2 EXCEPT !.followed = @ + m] ELSE s2
             s4 == IF p \in s3.el.touch /\ p \notin d /\ p \in was
                   THEN Drag(count, again, backs)!PointEnd(s3, p) ELSE s3
             t == Drag(count, again, backs)!Tell(s, over1, by, p)
  <1>1. p \in 1 .. count /\ p \in Nat /\ ~ (p <= n) /\ m \in Int
    OBVIOUS
  <1>2. \A q \in Nat : (q <= p <=> q <= n \/ q = p)
    OBVIOUS
  <1>3. s.el.touch \subseteq 1 .. count /\ s.grip \subseteq 1 .. count /\ s.el.interactive \in BOOLEAN
    BY DEF Telling, DragElement
  <1>4. CASE p \notin again \cup d \cup was
    <2>1. t = s
      BY <1>1, <1>4 DEF Drag!Tell, Drag!Asked, Drag!Pointer
    <2>2. Even(s, p, d, was)
      BY <1>1, <1>2, <1>3, <1>4 DEF Even
    <2> QED  BY <2>1, <2>2
  <1>5. CASE p \in again \cup d \cup was /\ ~ s.el.interactive
    <2>1. t = s
      BY <1>1, <1>5 DEF Drag!Tell, Drag!Asked, Drag!Pointer, Drag!CheckPoint
    <2>2. Even(s, p, d, was)
      BY <1>1, <1>2, <1>3, <1>5 DEF Even, Held
    <2> QED  BY <2>1, <2>2
  <1>6. CASE p \in again \cup d \cup was /\ s.el.interactive
    <2>1. t = s4
      BY <1>1, <1>3, <1>6 DEF Drag!Tell, Drag!Asked, Drag!Pointer, Drag!CheckPoint, Drag!Starts, Drag!Ends, Drag!Drags
    <2>2. s1 \in Telling(count) /\ EvenAt(s1, n, d, was, p)
      <3>1. CASE st
        <4>1. Drag(count, again, backs)!PointStart(s, p) \in Telling(count)
          BY <1>1, StartIs DEF StartOf
        <4>2. EvenAt(Drag(count, again, backs)!PointStart(s, p), n, d, was, p)
          <5>1. p \in d /\ p \notin was
            BY <3>1
          <5> QED  BY <1>6, <5>1, StartEven
        <4> QED  BY <3>1, <4>1, <4>2
      <3>2. CASE ~ st
        BY <3>2 DEF Even, EvenAt
      <3> QED  BY <3>1, <3>2
    <2> HIDE DEF s1, t
    <2>3. /\ s2 \in Telling(count) /\ s2.el.touch = s1.el.touch /\ s2.el.interactive = s1.el.interactive
          /\ s2.el.dragging = s1.el.dragging /\ s2.initial = s1.initial /\ s2.followed = s1.followed
          /\ s2.grip = s1.grip /\ s2.mixed = s1.mixed
          /\ s2.el.x = IF p \in s1.el.touch /\ s1.el.dragging THEN s1.el.x + m ELSE s1.el.x
      <3>1. s1.el.x \in Int /\ s1.el.x + 0 = s1.el.x
        BY <2>2 DEF Telling, DragElement
      <3>2. CASE m # 0 /\ p \in s1.el.touch
        <4>1. s2 = Drag(count, again, backs)!PointMove(s1, m)
          BY <3>2
        <4> HIDE DEF s2, m
        <4>2. /\ s2 \in Telling(count) /\ s2.el.touch = s1.el.touch /\ s2.el.interactive = s1.el.interactive
              /\ s2.el.dragging = s1.el.dragging /\ s2.initial = s1.initial /\ s2.followed = s1.followed
              /\ s2.grip = s1.grip /\ s2.mixed = s1.mixed
              /\ s2.el.x = IF s1.el.dragging THEN s1.el.x + m ELSE s1.el.x
          <5>1. MoveOf(count, s1, s2, m)
            BY <1>1, <2>2, <4>1, MoveIs
          <5> QED  BY <5>1 DEF MoveOf
        <4> QED  BY <3>2, <4>2
      <3>3. CASE ~ (m # 0 /\ p \in s1.el.touch)
        <4>1. s2 = s1
          BY <3>3
        <4>2. m = 0 \/ p \notin s1.el.touch
          BY <3>3
        <4> HIDE DEF s2, m
        <4> QED  BY <2>2, <3>1, <4>1, <4>2
      <3> HIDE DEF s2
      <3> QED  BY <3>2, <3>3
    <2> HIDE DEF s2
    <2>4. /\ s3 \in Telling(count) /\ s3.el = s2.el /\ s3.initial = s2.initial
          /\ s3.grip = s2.grip /\ s3.mixed = s2.mixed
          /\ s3.followed = IF p \in s1.grip THEN s1.followed + m ELSE s1.followed
      <3>1. s2.followed \in Int /\ s2.followed + m \in Int
        BY <1>1, <2>3 DEF Telling
      <3> QED  BY <2>3, <3>1 DEF Telling
    <2> HIDE DEF s3
    <2>5. EvenAt(s3, n, d, was, p)
      <3> SUFFICES ASSUME ~ s3.mixed, \A r, q \in s3.grip : r = q
                   PROVE  /\ Held(s3.el, s3.grip)
                          /\ \A q \in s3.el.touch : IF q <= n THEN q \in d ELSE q \in was \/ (q = p /\ q \in d)
                          /\ \A q \in s3.grip : q \in s3.el.touch \/ (q <= n /\ q \notin d)
                          /\ s3.el.x = s3.initial + s3.followed
        BY DEF EvenAt
      <3>1. /\ Held(s1.el, s1.grip)
            /\ \A q \in s1.el.touch : IF q <= n THEN q \in d ELSE q \in was \/ (q = p /\ q \in d)
            /\ \A q \in s1.grip : q \in s1.el.touch \/ (q <= n /\ q \notin d)
            /\ s1.el.x = s1.initial + s1.followed
        BY <2>2, <2>3, <2>4 DEF EvenAt
      <3>2. Held(s3.el, s3.grip)
        BY <2>3, <2>4, <3>1 DEF Held
      <3>3. p \in s1.grip <=> p \in s1.el.touch /\ s1.el.dragging
        BY <1>1, <3>1 DEF Held
      <3>4. s1.el.x \in Int /\ s1.initial \in Int /\ s1.followed \in Int
        BY <2>2 DEF Telling, DragElement
      <3>5. s3.el.x = s3.initial + s3.followed
        BY <1>1, <2>3, <2>4, <3>1, <3>3, <3>4
      <3> QED  BY <2>3, <2>4, <3>1, <3>2, <3>5
    <2>6. s4 \in Telling(count) /\ Even(s4, p, d, was)
      <3>1. s3.el.touch \subseteq 1 .. count /\ s3.grip \subseteq 1 .. count
        BY <2>4 DEF Telling, DragElement
      <3>2. CASE p \in s3.el.touch /\ p \notin d /\ p \in was
        <4>1. /\ s4 \in Telling(count) /\ s4.el.x = s3.el.x /\ s4.el.interactive = s3.el.interactive
              /\ ~ s4.el.dragging /\ s4.el.touch = s3.el.touch \ {p} /\ s4.initial = s3.initial
              /\ s4.followed = s3.followed /\ s4.grip = s3.grip /\ s4.mixed = s3.mixed
          <5>1. s4 = Drag(count, again, backs)!PointEnd(s3, p)
            BY <3>2
          <5> HIDE DEF s4, p
          <5>2. EndOf(count, s3, s4, p)
            BY <2>4, <5>1, EndIs
          <5> QED  BY <5>2 DEF EndOf
        <4> HIDE DEF s4
        <4>2. ASSUME ~ s4.mixed, \A r, q \in s4.grip : r = q
              PROVE  /\ Held(s4.el, s4.grip)
                     /\ \A q \in s4.el.touch : IF q <= p THEN q \in d ELSE q \in was
                     /\ \A q \in s4.grip : q \in s4.el.touch \/ (q <= p /\ q \notin d)
                     /\ s4.el.x = s4.initial + s4.followed
          <5>1. /\ Held(s3.el, s3.grip)
                /\ \A q \in s3.grip : q \in s3.el.touch \/ (q <= n /\ q \notin d)
                /\ s3.el.x = s3.initial + s3.followed
            BY <2>5, <4>1, <4>2 DEF EvenAt
          <5>2. s4.el.touch = {}
            BY <3>2, <4>1, <5>1 DEF Held
          <5>3. \A q \in s4.grip : q <= p /\ q \notin d
            BY <1>1, <1>2, <3>1, <3>2, <4>1, <5>1 DEF Held
          <5>4. Held(s4.el, s4.grip)
            BY <4>1, <5>2 DEF Held
          <5> QED  BY <4>1, <5>1, <5>2, <5>3, <5>4
        <4> QED  BY <4>1, <4>2 DEF Even
      <3>3. CASE ~ (p \in s3.el.touch /\ p \notin d /\ p \in was)
        <4>1. s4 = s3
          BY <3>3
        <4> HIDE DEF s4
        <4>2. Even(s3, p, d, was)
          BY <1>1, <1>2, <2>5, <3>1, <3>3 DEF Even, EvenAt
        <4> QED  BY <2>4, <4>1, <4>2
      <3> HIDE DEF s4
      <3> QED  BY <3>2, <3>3
    <2> QED  BY <2>1, <2>6 DEF t
  <1> QED  BY <1>4, <1>5, <1>6

\* What pointers and accessories are told, and update, one after the other.
AtCheck == [el |-> draggingEl, initial |-> initial, followed |-> followed, grip |-> grip, mixed |-> mixed]
AtUpdate == [el |-> draggingEl, tween |-> tween, list |-> accessories, updated |-> {}, gone |-> {}]

TellFold(count, again, backs, over1, by, n, f) ==
    f = [k \in 0 .. n |-> IF k = 0 THEN AtCheck ELSE Drag(count, again, backs)!Tell(f[k - 1], over1, by, k)]

LEMMA TellFurther ==
    ASSUME NEW CONSTANT count, NEW CONSTANT again, NEW CONSTANT backs,
           NEW over1, NEW by, NEW n \in Nat, NEW f, TellFold(count, again, backs, over1, by, n, f)
    PROVE  \E g : TellFold(count, again, backs, over1, by, n + 1, g)
  <1> DEFINE g == [k \in 0 .. n + 1 |-> IF k <= n THEN f[k] ELSE Drag(count, again, backs)!Tell(f[n], over1, by, k)]
             h == [k \in 0 .. n + 1 |-> IF k = 0 THEN AtCheck ELSE Drag(count, again, backs)!Tell(g[k - 1], over1, by, k)]
  <1>1. \A k \in 0 .. n + 1 : k \in 0 .. n \/ k = n + 1
    OBVIOUS
  <1>2. \A k \in 0 .. n : k \in 0 .. n + 1 /\ g[k] = f[k]
    OBVIOUS
  <1>3. \A k \in 0 .. n : f[k] = IF k = 0 THEN AtCheck ELSE Drag(count, again, backs)!Tell(f[k - 1], over1, by, k)
    BY DEF TellFold
  <1>4. g[n + 1] = Drag(count, again, backs)!Tell(f[n], over1, by, n + 1)
    OBVIOUS
  <1>5. ASSUME NEW k \in 0 .. n + 1
        PROVE  g[k] = IF k = 0 THEN AtCheck ELSE Drag(count, again, backs)!Tell(g[k - 1], over1, by, k)
    <2> HIDE DEF g
    <2>1. CASE k \in 0 .. n
      <3>1. k # 0 => k - 1 \in 0 .. n
        BY <2>1
      <3> QED  BY <1>2, <1>3, <2>1, <3>1
    <2>2. CASE k = n + 1
      <3>1. k # 0 /\ k - 1 = n /\ n \in 0 .. n
        BY <2>2
      <3> QED  BY <1>2, <1>4, <2>2, <3>1
    <2> QED  BY <1>1, <2>1, <2>2
  <1>6. g = h
    <2>1. \A k \in 0 .. n + 1 : g[k] = h[k]
      BY <1>5
    <2>2. g = [k \in 0 .. n + 1 |-> g[k]] /\ h = [k \in 0 .. n + 1 |-> h[k]]
      OBVIOUS
    <2> HIDE DEF g, h
    <2> QED  BY <2>1, <2>2
  <1>7. TellFold(count, again, backs, over1, by, n + 1, g)
    BY <1>6 DEF TellFold
  <1> QED  BY <1>7

LEMMA TellExists ==
    ASSUME NEW CONSTANT count, NEW CONSTANT again, NEW CONSTANT backs, NEW over1, NEW by, NEW n \in Nat
    PROVE  \E f : TellFold(count, again, backs, over1, by, n, f)
  <1> DEFINE B == {u \in Nat : ~ \E f : TellFold(count, again, backs, over1, by, u, f)}
  <1>1. SUFFICES ASSUME B # {} PROVE FALSE
    BY <1>1
  <1>2. PICK u \in B : \A v \in B : u <= v
    <2>1. B \in SUBSET Nat
      OBVIOUS
    <2> HIDE DEF B
    <2> QED  BY <1>1, <2>1, LeastNumber
  <1>3. u \in Nat /\ ~ \E f : TellFold(count, again, backs, over1, by, u, f)
    OBVIOUS
  <1>4. u # 0
    <2> DEFINE e == [k \in 0 .. 0 |-> AtCheck]
    <2>1. \A k \in 0 .. 0 : k = 0
      OBVIOUS
    <2>2. [k \in 0 .. 0 |-> IF k = 0 THEN AtCheck ELSE Drag(count, again, backs)!Tell(e[k - 1], over1, by, k)] = e
      BY <2>1
    <2>3. TellFold(count, again, backs, over1, by, 0, e)
      BY <2>2 DEF TellFold
    <2> QED  BY <1>3, <2>3
  <1>5. u - 1 \in Nat /\ (u - 1) + 1 = u /\ ~ (u <= u - 1)
    BY <1>3, <1>4
  <1>6. PICK f : TellFold(count, again, backs, over1, by, u - 1, f)
    BY <1>2, <1>5
  <1>7. \E g : TellFold(count, again, backs, over1, by, (u - 1) + 1, g)
    BY <1>5, <1>6, TellFurther
  <1> QED  BY <1>3, <1>5, <1>7

EachFold(count, again, backs, n, f) ==
    f = [k \in 0 .. n |-> IF k = 0 THEN AtUpdate ELSE Drag(count, again, backs)!Visit(f[k - 1], k)]

LEMMA EachFurther ==
    ASSUME NEW CONSTANT count, NEW CONSTANT again, NEW CONSTANT backs, NEW n \in Nat, NEW f, EachFold(count, again, backs, n, f)
    PROVE  \E g : EachFold(count, again, backs, n + 1, g)
  <1> DEFINE g == [k \in 0 .. n + 1 |-> IF k <= n THEN f[k] ELSE Drag(count, again, backs)!Visit(f[n], k)]
             h == [k \in 0 .. n + 1 |-> IF k = 0 THEN AtUpdate ELSE Drag(count, again, backs)!Visit(g[k - 1], k)]
  <1>1. \A k \in 0 .. n + 1 : k \in 0 .. n \/ k = n + 1
    OBVIOUS
  <1>2. \A k \in 0 .. n : k \in 0 .. n + 1 /\ g[k] = f[k]
    OBVIOUS
  <1>3. \A k \in 0 .. n : f[k] = IF k = 0 THEN AtUpdate ELSE Drag(count, again, backs)!Visit(f[k - 1], k)
    BY DEF EachFold
  <1>4. g[n + 1] = Drag(count, again, backs)!Visit(f[n], n + 1)
    OBVIOUS
  <1>5. ASSUME NEW k \in 0 .. n + 1
        PROVE  g[k] = IF k = 0 THEN AtUpdate ELSE Drag(count, again, backs)!Visit(g[k - 1], k)
    <2> HIDE DEF g
    <2>1. CASE k \in 0 .. n
      <3>1. k # 0 => k - 1 \in 0 .. n
        BY <2>1
      <3> QED  BY <1>2, <1>3, <2>1, <3>1
    <2>2. CASE k = n + 1
      <3>1. k # 0 /\ k - 1 = n /\ n \in 0 .. n
        BY <2>2
      <3> QED  BY <1>2, <1>4, <2>2, <3>1
    <2> QED  BY <1>1, <2>1, <2>2
  <1>6. g = h
    <2>1. \A k \in 0 .. n + 1 : g[k] = h[k]
      BY <1>5
    <2>2. g = [k \in 0 .. n + 1 |-> g[k]] /\ h = [k \in 0 .. n + 1 |-> h[k]]
      OBVIOUS
    <2> HIDE DEF g, h
    <2> QED  BY <2>1, <2>2
  <1>7. EachFold(count, again, backs, n + 1, g)
    BY <1>6 DEF EachFold
  <1> QED  BY <1>7

LEMMA EachExists ==
    ASSUME NEW CONSTANT count, NEW CONSTANT again, NEW CONSTANT backs, NEW n \in Nat
    PROVE  \E f : EachFold(count, again, backs, n, f)
  <1> DEFINE B == {u \in Nat : ~ \E f : EachFold(count, again, backs, u, f)}
  <1>1. SUFFICES ASSUME B # {} PROVE FALSE
    BY <1>1
  <1>2. PICK u \in B : \A v \in B : u <= v
    <2>1. B \in SUBSET Nat
      OBVIOUS
    <2> HIDE DEF B
    <2> QED  BY <1>1, <2>1, LeastNumber
  <1>3. u \in Nat /\ ~ \E f : EachFold(count, again, backs, u, f)
    OBVIOUS
  <1>4. u # 0
    <2> DEFINE e == [k \in 0 .. 0 |-> AtUpdate]
    <2>1. \A k \in 0 .. 0 : k = 0
      OBVIOUS
    <2>2. [k \in 0 .. 0 |-> IF k = 0 THEN AtUpdate ELSE Drag(count, again, backs)!Visit(e[k - 1], k)] = e
      BY <2>1
    <2>3. EachFold(count, again, backs, 0, e)
      BY <2>2 DEF EachFold
    <2> QED  BY <1>3, <2>3
  <1>5. u - 1 \in Nat /\ (u - 1) + 1 = u /\ ~ (u <= u - 1)
    BY <1>3, <1>4
  <1>6. PICK f : EachFold(count, again, backs, u - 1, f)
    BY <1>2, <1>5
  <1>7. \E g : EachFold(count, again, backs, (u - 1) + 1, g)
    BY <1>5, <1>6, EachFurther
  <1> QED  BY <1>3, <1>5, <1>7

\* While tweeners send the element back, nothing is told, or things are mixed up.
Stuck(s) == s.mixed \/ (s = AtCheck /\ ~ s.el.interactive)

LEMMA StuckNext ==
    ASSUME NEW CONSTANT count, NEW CONSTANT again, NEW CONSTANT backs,
           NEW n \in Nat, n + 1 \in 1 .. count,
           Drag(count, again, backs)!Backs # {}, lock \in BOOLEAN, last' = draggingDown,
           NEW over1, NEW by \in [1 .. count -> {-1, 0, 1}],
           NEW s \in Telling(count), Stuck(s)
    PROVE  LET t == Drag(count, again, backs)!Tell(s, over1, by, n + 1)
           IN  t \in Telling(count) /\ Stuck(t)
  <1> DEFINE p == n + 1
             m == by[p]
             d == draggingDown'
             was == draggingDown
             s1 == IF p \in over1 /\ p \in d /\ p \notin was
                   THEN Drag(count, again, backs)!PointStart(s, p) ELSE s
             s2 == IF m # 0 /\ p \in s1.el.touch THEN Drag(count, again, backs)!PointMove(s1, m) ELSE s1
             s3 == IF p \in s1.grip THEN [s2 EXCEPT !.followed = @ + m] ELSE s2
             s4 == IF p \in s3.el.touch /\ p \notin d /\ p \in was
                   THEN Drag(count, again, backs)!PointEnd(s3, p) ELSE s3
             t == Drag(count, again, backs)!Tell(s, over1, by, p)
  <1>1. p \in 1 .. count /\ m \in Int
    OBVIOUS
  <1>2. CASE p \notin again \cup d \cup was \/ ~ s.el.interactive
    <2>1. t = s
      BY <1>1, <1>2 DEF Drag!Tell, Drag!Asked, Drag!Pointer, Drag!CheckPoint
    <2> QED  BY <2>1
  <1>3. CASE p \in again \cup d \cup was /\ s.el.interactive
    <2>1. t = s4
      BY <1>1, <1>3 DEF Drag!Tell, Drag!Asked, Drag!Pointer, Drag!CheckPoint, Drag!Starts, Drag!Ends, Drag!Drags
    <2>2. s.mixed
      BY <1>3 DEF Stuck
    <2>3. s1 \in Telling(count) /\ s1.mixed
      <3>1. StartOf(count, Drag(count, again, backs)!Backs # {}, s,
                    Drag(count, again, backs)!PointStart(s, p), p)
        BY <1>1, StartIs
      <3>2. Drag(count, again, backs)!PointStart(s, p) \in Telling(count)
            /\ Drag(count, again, backs)!PointStart(s, p).mixed
        BY <2>2, <3>1 DEF StartOf
      <3> QED  BY <2>2, <3>2
    <2> HIDE DEF s1, t
    <2>4. s2 \in Telling(count) /\ s2.mixed
      <3>1. MoveOf(count, s1, Drag(count, again, backs)!PointMove(s1, m), m)
        BY <1>1, <2>3, MoveIs
      <3>2. Drag(count, again, backs)!PointMove(s1, m) \in Telling(count)
            /\ Drag(count, again, backs)!PointMove(s1, m).mixed
        BY <2>3, <3>1 DEF MoveOf
      <3> QED  BY <2>3, <3>2
    <2> HIDE DEF s2
    <2>5. s3 \in Telling(count) /\ s3.mixed
      <3>1. s2.followed \in Int /\ s2.followed + m \in Int
        BY <1>1, <2>4 DEF Telling
      <3> QED  BY <2>4, <3>1 DEF Telling
    <2> HIDE DEF s3
    <2>6. s4 \in Telling(count) /\ s4.mixed
      <3>1. EndOf(count, s3, Drag(count, again, backs)!PointEnd(s3, p), p)
        BY <2>5, EndIs
      <3>2. Drag(count, again, backs)!PointEnd(s3, p) \in Telling(count)
            /\ Drag(count, again, backs)!PointEnd(s3, p).mixed
        BY <2>5, <3>1 DEF EndOf
      <3> QED  BY <2>5, <3>2
    <2> HIDE DEF s4
    <2> QED  BY <2>1, <2>6 DEF Stuck, t
  <1> QED  BY <1>2, <1>3

\* After the first n pointers, and so after all.
Fine(count, again, backs, s, n, d, was) ==
    /\ s \in Telling(count)
    /\ IF Drag(count, again, backs)!Backs = {} THEN Even(s, n, d, was) ELSE Stuck(s)

LEMMA FineNext ==
    ASSUME NEW CONSTANT count, NEW CONSTANT again, NEW CONSTANT backs,
           count \in Nat, NEW n \in Nat, n + 1 <= count,
           lock \in BOOLEAN, last' = draggingDown,
           NEW over1, NEW by \in [1 .. count -> {-1, 0, 1}],
           NEW s, Fine(count, again, backs, s, n, draggingDown', draggingDown)
    PROVE  Fine(count, again, backs, Drag(count, again, backs)!Tell(s, over1, by, n + 1), n + 1,
                draggingDown', draggingDown)
  <1>1. n + 1 \in 1 .. count
    OBVIOUS
  <1>2. s \in Telling(count)
    BY DEF Fine
  <1>3. CASE Drag(count, again, backs)!Backs = {}
    BY <1>2, <1>3, ToldNext DEF Fine
  <1>4. CASE Drag(count, again, backs)!Backs # {}
    BY <1>1, <1>2, <1>4, StuckNext DEF Fine
  <1> QED  BY <1>3, <1>4

LEMMA AllFine ==
    ASSUME NEW CONSTANT count, NEW CONSTANT again, NEW CONSTANT backs,
           count \in Nat, lock \in BOOLEAN, last' = draggingDown,
           NEW over1, NEW by \in [1 .. count -> {-1, 0, 1}],
           Fine(count, again, backs, AtCheck, 0, draggingDown', draggingDown)
    PROVE  Fine(count, again, backs, Drag(count, again, backs)!AllTold(over1, by), count,
                draggingDown', draggingDown)
  <1> DEFINE g == CHOOSE f : TellFold(count, again, backs, over1, by, count, f)
             d == draggingDown'
             was == draggingDown
  <1>2. TellFold(count, again, backs, over1, by, count, g)
    BY TellExists
  <1>3. Drag(count, again, backs)!AllTold(over1, by) = g[count]
    BY DEF Drag!AllTold, TellFold, AtCheck
  <1> HIDE DEF g
  <1>4. \A k \in 0 .. count : g[k] = IF k = 0 THEN AtCheck
                                     ELSE Drag(count, again, backs)!Tell(g[k - 1], over1, by, k)
    BY <1>2 DEF TellFold
  <1> DEFINE B == {k \in 0 .. count : ~ Fine(count, again, backs, g[k], k, d, was)}
  <1>5. ASSUME B # {} PROVE FALSE
    <2>1. PICK u \in B : \A v \in B : u <= v
      <3>1. B \in SUBSET Nat
        OBVIOUS
      <3> HIDE DEF B
      <3> QED  BY <1>5, <3>1, LeastNumber
    <2>2. u \in 0 .. count /\ ~ Fine(count, again, backs, g[u], u, d, was)
      OBVIOUS
    <2>3. CASE u = 0
      BY <1>4, <2>2, <2>3
    <2>4. CASE u # 0
      <3>1. u - 1 \in 0 .. count /\ ~ (u <= u - 1) /\ u - 1 \in Nat /\ (u - 1) + 1 = u
        BY <2>2, <2>4
      <3>2. Fine(count, again, backs, g[u - 1], u - 1, d, was)
        BY <2>1, <3>1
      <3>3. (u - 1) + 1 <= count
        BY <2>2, <3>1
      <3>4. Fine(count, again, backs, Drag(count, again, backs)!Tell(g[u - 1], over1, by, (u - 1) + 1),
                 (u - 1) + 1, d, was)
        BY <3>1, <3>2, <3>3, FineNext
      <3> QED  BY <1>4, <2>2, <2>4, <3>1, <3>4
    <2> QED  BY <2>3, <2>4
  <1>6. count \in 0 .. count
    OBVIOUS
  <1> QED  BY <1>3, <1>5, <1>6

-----------------------------------------------------------------------------
\* Whatever was attached before but the first of a kind.
LEMMA DetachIs ==
    ASSUME NEW CONSTANT count, NEW CONSTANT again, NEW CONSTANT backs,
           NEW S, NEW s \in Seq(S), NEW a, a \in Drag(count, again, backs)!Attached(s)
    PROVE  LET t == Drag(count, again, backs)!Detach(s, a)
           IN  /\ t \in Seq(S)
               /\ \A x \in Drag(count, again, backs)!Attached(t) : x \in Drag(count, again, backs)!Attached(s)
               /\ \A x \in Drag(count, again, backs)!Attached(s) :
                      x = a \/ x \in Drag(count, again, backs)!Attached(t)
  <1> DEFINE First(i) == i \in DOMAIN s /\ s[i] = a /\ \A j \in 1 .. i - 1 : s[j] # a
             k == CHOOSE i \in DOMAIN s : s[i] = a /\ \A j \in 1 .. i - 1 : s[j] # a
             t == Drag(count, again, backs)!Detach(s, a)
  <1>1. DOMAIN s = 1 .. Len(s) /\ Len(s) \in Nat
    OBVIOUS
  <1>2. \E i \in DOMAIN s : s[i] = a /\ \A j \in 1 .. i - 1 : s[j] # a
    <2> DEFINE B == {i \in DOMAIN s : s[i] = a}
    <2>1. B \in SUBSET Nat /\ B # {}
      BY <1>1 DEF Drag!Attached
    <2> HIDE DEF B
    <2>2. PICK u \in B : \A v \in B : u <= v
      BY <2>1, LeastNumber
    <2> USE DEF B
    <2>3. u \in 1 .. Len(s) /\ s[u] = a
      BY <1>1
    <2>4. ASSUME NEW j \in 1 .. u - 1 PROVE s[j] # a
      <3>1. j \in DOMAIN s /\ ~ (u <= j)
        BY <1>1, <2>3
      <3> QED  BY <2>2, <3>1
    <2> QED  BY <1>1, <2>3, <2>4
  <1>3. k \in DOMAIN s /\ s[k] = a
    BY <1>2
  <1>4. t = Pointing!RemoveAt(s, k)
    BY DEF Drag!Detach, Pointing!RemoveAt
  <1> HIDE DEF k, t
  <1>5. /\ t \in Seq(S) /\ Len(t) = Len(s) - 1
        /\ \A i \in 1 .. Len(s) - 1 : t[i] = IF i < k THEN s[i] ELSE s[i + 1]
    BY <1>1, <1>3, <1>4, RemovedAt
  <1>6. DOMAIN t = 1 .. Len(s) - 1 /\ k \in 1 .. Len(s)
    BY <1>1, <1>3, <1>5
  <1>7. ASSUME NEW i \in DOMAIN t PROVE t[i] \in Drag(count, again, backs)!Attached(s)
    <2>1. i \in DOMAIN s /\ i + 1 \in DOMAIN s
      BY <1>1, <1>6
    <2> QED  BY <1>5, <1>6, <2>1 DEF Drag!Attached
  <1>8. ASSUME NEW i \in DOMAIN s, i # k PROVE s[i] \in Drag(count, again, backs)!Attached(t)
    <2>1. CASE i < k
      <3>1. i \in DOMAIN t /\ t[i] = s[i]
        BY <1>1, <1>5, <1>6, <2>1
      <3> QED  BY <3>1 DEF Drag!Attached
    <2>2. CASE ~ (i < k)
      <3>1. i - 1 \in DOMAIN t /\ ~ (i - 1 < k) /\ (i - 1) + 1 = i
        BY <1>1, <1>6, <1>8, <2>2
      <3>2. t[i - 1] = s[i]
        BY <1>5, <1>6, <3>1
      <3> QED  BY <3>1, <3>2 DEF Drag!Attached
    <2> QED  BY <2>1, <2>2
  <1>9. t \in Seq(S)
    BY <1>5
  <1>10. \A x \in Drag(count, again, backs)!Attached(t) : x \in Drag(count, again, backs)!Attached(s)
    BY <1>7 DEF Drag!Attached
  <1>11. \A x \in Drag(count, again, backs)!Attached(s) : x = a \/ x \in Drag(count, again, backs)!Attached(t)
    <2>1. ASSUME NEW x \in Drag(count, again, backs)!Attached(s), x # a
          PROVE  x \in Drag(count, again, backs)!Attached(t)
      <3>1. PICK i \in DOMAIN s : s[i] = x
        BY <2>1 DEF Drag!Attached
      <3>2. i # k
        BY <1>3, <2>1, <3>1
      <3> QED  BY <1>8, <3>1, <3>2
    <2> QED  BY <2>1
  <1> QED  BY <1>9, <1>10, <1>11 DEF t

Returning(backs) == [1 .. backs -> [left : Nat, to : Int]]
Updating(count, backs) ==
    [el : DragElement(count), tween : Returning(backs), list : Seq(0 .. backs),
     updated : SUBSET (0 .. backs), gone : SUBSET (0 .. backs)]

\* While accessories are updated, unless things were mixed up before: tweeners lead to the
\* initial place, one that has ended has reached it, and none is there to leave if there
\* was none before.
Sent(count, again, backs, s) ==
    /\ s \in Updating(count, backs)
    /\ s.el.touch = draggingEl.touch /\ s.el.dragging = draggingEl.dragging
    /\ s.gone = {} => s.list = accessories /\ s.el.interactive = draggingEl.interactive
    /\ \A x \in Drag(count, again, backs)!Attached(s.list) :
           x \in Drag(count, again, backs)!Attached(accessories)
    /\ Drag(count, again, backs)!Backs = {} => s.gone = {} /\ s.el.x = draggingEl.x
    /\ ~ mixed /\ Drag(count, again, backs)!Backs # {} =>
           /\ \A b \in Drag(count, again, backs)!Backs :
                  s.tween[b].to = initial /\ (s.tween[b].left = 0 => s.el.x = initial)
           /\ s.gone # {} => s.el.x = initial

LEMMA PartOf ==
    ASSUME NEW i \in Int, NEW n \in Nat \ {0}
    PROVE  i \div n \in Int /\ 0 \div n = 0 /\ i \div 1 = i
  OBVIOUS

LEMMA SentNext ==
    ASSUME NEW CONSTANT count, NEW CONSTANT again, NEW CONSTANT backs,
           backs \in Nat, initial \in Int, NEW i \in Nat \ {0},
           NEW s, Sent(count, again, backs, s)
    PROVE  Sent(count, again, backs, Drag(count, again, backs)!Visit(s, i))
  <1> DEFINE a == s.list[i]
             t == Drag(count, again, backs)!Visit(s, i)
  <1>1. /\ s \in Updating(count, backs)
        /\ s.el \in DragElement(count) /\ s.tween \in Returning(backs) /\ s.list \in Seq(0 .. backs)
        /\ s.updated \in SUBSET (0 .. backs) /\ s.gone \in SUBSET (0 .. backs)
    BY DEF Sent, Updating
  <1>2. CASE i > Len(s.list)
    BY <1>2 DEF Drag!Visit
  <1>3. CASE ~ (i > Len(s.list))
    <2>1. i \in 1 .. Len(s.list) /\ a \in 0 .. backs /\ a \in Drag(count, again, backs)!Attached(s.list)
      BY <1>1, <1>3 DEF Drag!Attached
    <2>2. a \in Drag(count, again, backs)!Attached(accessories)
      BY <2>1 DEF Sent
    <2>3. t = [Drag(count, again, backs)!Updated(s, a) EXCEPT !.updated = @ \cup {a}]
      BY <1>3 DEF Drag!Visit
    <2>4. CASE a = 0
      <3>1. t = [s EXCEPT !.updated = @ \cup {a}]
        BY <2>3, <2>4 DEF Drag!Updated, Drag!Other
      <3> HIDE DEF t
      <3>2. /\ t \in Updating(count, backs)
            /\ t.el = s.el /\ t.tween = s.tween /\ t.list = s.list /\ t.gone = s.gone
        BY <1>1, <2>1, <3>1 DEF Updating
      <3>3. Sent(count, again, backs, t)
        BY <3>2 DEF Sent
      <3> QED  BY <3>3 DEF t
    <2>5. CASE a # 0 /\ s.tween[a].left > 0
      <3>1. a \in 1 .. backs /\ a \in Drag(count, again, backs)!Backs
        BY <2>1, <2>2, <2>5 DEF Drag!Backs, Drag!Back
      <3>2. /\ s.tween[a].left \in Nat \ {0} /\ s.tween[a].to \in Int /\ s.el.x \in Int
            /\ s.tween[a].left - 1 \in Nat
        <4>1. s.tween[a] \in [left : Nat, to : Int]
          BY <1>1, <3>1 DEF Returning
        <4>2. s.tween[a].left \in Nat /\ s.tween[a].left > 0 /\ s.tween[a].to \in Int
          BY <2>5, <4>1
        <4>3. s.el.x \in Int
          BY <1>1 DEF DragElement
        <4> HIDE DEF a
        <4> QED  BY <4>2, <4>3
      <3> DEFINE x1 == s.el.x + (s.tween[a].to - s.el.x) \div s.tween[a].left
                 e == [s.el EXCEPT !.x = x1]
                 w == [s.tween EXCEPT ![a] = [left |-> s.tween[a].left - 1, to |-> s.tween[a].to]]
      <3>3. x1 \in Int
        <4>1. s.tween[a].to - s.el.x \in Int
          BY <3>2
        <4>2. (s.tween[a].to - s.el.x) \div s.tween[a].left \in Int
          BY <3>2, <4>1, PartOf
        <4> QED  BY <3>2, <4>2
      <3>4. t = [el |-> e, tween |-> w, list |-> s.list, updated |-> s.updated \cup {a}, gone |-> s.gone]
        <4>1. w = [s.tween EXCEPT ![a].left = @ - 1]
          <5>1. s.tween[a] \in [left : Nat, to : Int]
            BY <1>1, <3>1 DEF Returning
          <5>2. [s.tween[a] EXCEPT !.left = @ - 1] = [left |-> s.tween[a].left - 1, to |-> s.tween[a].to]
            BY <5>1
          <5> QED  BY <5>2
        <4>2. Drag(count, again, backs)!Updated(s, a) = [s EXCEPT !.el.x = x1, !.tween[a].left = @ - 1]
          BY <2>5 DEF Drag!Updated, Drag!Other
        <4>3. [s EXCEPT !.el.x = x1, !.tween[a].left = @ - 1] = [s EXCEPT !.el = e, !.tween = w]
          <5> HIDE DEF x1
          <5>1. [s EXCEPT !.el.x = x1, !.tween[a].left = @ - 1]
                  = [s EXCEPT !.el = [s.el EXCEPT !.x = x1], !.tween = [s.tween EXCEPT ![a].left = @ - 1]]
            BY <1>1 DEF Updating
          <5> HIDE DEF w
          <5> QED  BY <4>1, <5>1
        <4> HIDE DEF e, w, x1
        <4> QED  BY <1>1, <2>3, <4>2, <4>3 DEF Updating
      <3>5. s.tween[a].to = initial /\ s.el.x = initial => x1 = initial
        <4>1. ASSUME s.tween[a].to = initial, s.el.x = initial PROVE x1 = initial
          <5>1. x1 = initial + 0 \div s.tween[a].left
            BY <4>1
          <5>2. 0 \div s.tween[a].left = 0
            BY <3>2, PartOf
          <5> HIDE DEF x1
          <5> QED  BY <5>1, <5>2
        <4> QED  BY <4>1
      <3>6. s.tween[a].to = initial /\ s.tween[a].left - 1 = 0 => x1 = initial
        <4>1. ASSUME s.tween[a].to = initial, s.tween[a].left - 1 = 0 PROVE x1 = initial
          <5>1. s.tween[a].left = 1
            BY <3>2, <4>1
          <5>2. x1 = s.el.x + (initial - s.el.x) \div 1
            BY <4>1, <5>1
          <5>3. (initial - s.el.x) \div 1 = initial - s.el.x
            BY <3>2, PartOf
          <5> HIDE DEF x1
          <5> QED  BY <3>2, <5>2, <5>3
        <4> QED  BY <4>1
      <3> HIDE DEF x1
      <3>7. /\ e \in DragElement(count) /\ e.x = x1 /\ e.interactive = s.el.interactive
            /\ e.dragging = s.el.dragging /\ e.touch = s.el.touch
        BY <1>1, <3>3 DEF DragElement
      <3>8. /\ w \in Returning(backs)
            /\ w[a].to = s.tween[a].to /\ w[a].left = s.tween[a].left - 1
            /\ \A b \in 1 .. backs : b # a => w[b] = s.tween[b]
        <4> DEFINE r == [left |-> s.tween[a].left - 1, to |-> s.tween[a].to]
        <4>1. r \in [left : Nat, to : Int] /\ r.to = s.tween[a].to /\ r.left = s.tween[a].left - 1
          BY <3>2
        <4> HIDE DEF r
        <4>2. w = [s.tween EXCEPT ![a] = r]
          BY DEF r
        <4> HIDE DEF w
        <4> QED  BY <1>1, <3>1, <4>1, <4>2 DEF Returning
      <3> HIDE DEF e, w, t
      <3>9. /\ t \in Updating(count, backs)
            /\ t.el = e /\ t.tween = w /\ t.list = s.list /\ t.gone = s.gone
        BY <1>1, <2>1, <3>4, <3>7, <3>8 DEF Updating
      <3>10. ~ mixed =>
               /\ \A b \in Drag(count, again, backs)!Backs :
                      t.tween[b].to = initial /\ (t.tween[b].left = 0 => t.el.x = initial)
               /\ t.gone # {} => t.el.x = initial
        <4> SUFFICES ASSUME ~ mixed
                     PROVE  /\ \A b \in Drag(count, again, backs)!Backs :
                                  t.tween[b].to = initial /\ (t.tween[b].left = 0 => t.el.x = initial)
                            /\ t.gone # {} => t.el.x = initial
          OBVIOUS
        <4>1. /\ \A b \in Drag(count, again, backs)!Backs :
                      s.tween[b].to = initial /\ (s.tween[b].left = 0 => s.el.x = initial)
              /\ s.gone # {} => s.el.x = initial
          BY <3>1 DEF Sent
        <4>2. s.tween[a].to = initial
          BY <3>1, <4>1
        <4>3. ASSUME NEW b \in Drag(count, again, backs)!Backs
              PROVE  t.tween[b].to = initial /\ (t.tween[b].left = 0 => t.el.x = initial)
          <5>1. b \in 1 .. backs
            BY DEF Drag!Backs, Drag!Back
          <5>2. CASE b = a
            BY <3>6, <3>7, <3>8, <3>9, <4>2, <5>2
          <5>3. CASE b # a
            BY <3>5, <3>7, <3>8, <3>9, <4>1, <4>2, <5>1, <5>3
          <5> QED  BY <5>2, <5>3
        <4>4. t.gone # {} => t.el.x = initial
          BY <3>5, <3>7, <3>9, <4>1, <4>2
        <4> QED  BY <4>3, <4>4
      <3>11. Sent(count, again, backs, t)
        BY <3>1, <3>7, <3>9, <3>10 DEF Sent
      <3> QED  BY <3>11 DEF t
    <2>6. CASE a # 0 /\ ~ (s.tween[a].left > 0)
      <3>1. a \in 1 .. backs /\ a \in Drag(count, again, backs)!Backs
        BY <2>1, <2>2, <2>6 DEF Drag!Backs, Drag!Back
      <3>2. s.tween[a].left = 0
        BY <1>1, <2>6, <3>1 DEF Returning
      <3> DEFINE e == [s.el EXCEPT !.interactive = TRUE]
                 l == Drag(count, again, backs)!Detach(s.list, a)
      <3>3. t = [el |-> e, tween |-> s.tween, list |-> l, updated |-> s.updated \cup {a},
                 gone |-> s.gone \cup {a}]
        <4>1. Drag(count, again, backs)!Updated(s, a) =
                [s EXCEPT !.list = l, !.el = e, !.gone = @ \cup {a}]
          BY <1>1, <2>6 DEF Drag!Updated, Drag!Other, Updating
        <4> HIDE DEF e, l
        <4> QED  BY <1>1, <2>3, <4>1 DEF Updating
      <3>4. /\ e \in DragElement(count) /\ e.x = s.el.x
            /\ e.dragging = s.el.dragging /\ e.touch = s.el.touch
        BY <1>1 DEF DragElement
      <3>5. /\ l \in Seq(0 .. backs)
            /\ \A x \in Drag(count, again, backs)!Attached(l) : x \in Drag(count, again, backs)!Attached(s.list)
        BY <1>1, <2>1, DetachIs
      <3> HIDE DEF e, l, t
      <3>6. /\ t \in Updating(count, backs)
            /\ t.el = e /\ t.tween = s.tween /\ t.list = l /\ t.gone = s.gone \cup {a}
        BY <1>1, <2>1, <3>3, <3>4, <3>5 DEF Updating
      <3>7. a \in t.gone /\ t.gone # {}
        BY <3>6
      <3>8. ~ mixed => s.el.x = initial
        BY <3>1, <3>2 DEF Sent
      <3>9. Sent(count, again, backs, t)
        BY <3>1, <3>4, <3>5, <3>6, <3>7, <3>8 DEF Sent
      <3> QED  BY <3>9 DEF t
    <2> QED  BY <2>4, <2>5, <2>6
  <1> QED  BY <1>2, <1>3

LEMMA AllSent ==
    ASSUME NEW CONSTANT count, NEW CONSTANT again, NEW CONSTANT backs,
           backs \in Nat, initial \in Int, Len(accessories) \in Nat,
           Sent(count, again, backs, AtUpdate)
    PROVE  Sent(count, again, backs, Drag(count, again, backs)!EachUpdated)
  <1> DEFINE n == Len(accessories)
             g == CHOOSE f : EachFold(count, again, backs, n, f)
  <1>1. EachFold(count, again, backs, n, g)
    BY EachExists
  <1>2. Drag(count, again, backs)!EachUpdated = g[n]
    BY DEF Drag!EachUpdated, EachFold, AtUpdate
  <1> HIDE DEF g
  <1>3. \A k \in 0 .. n : g[k] = IF k = 0 THEN AtUpdate ELSE Drag(count, again, backs)!Visit(g[k - 1], k)
    BY <1>1 DEF EachFold
  <1> DEFINE B == {k \in 0 .. n : ~ Sent(count, again, backs, g[k])}
  <1>4. ASSUME B # {} PROVE FALSE
    <2>1. PICK u \in B : \A v \in B : u <= v
      <3>1. B \in SUBSET Nat
        OBVIOUS
      <3> HIDE DEF B
      <3> QED  BY <1>4, <3>1, LeastNumber
    <2>2. u \in 0 .. n /\ ~ Sent(count, again, backs, g[u])
      OBVIOUS
    <2>3. CASE u = 0
      BY <1>3, <2>2, <2>3
    <2>4. CASE u # 0
      <3>1. u - 1 \in 0 .. n /\ ~ (u <= u - 1) /\ u \in Nat \ {0}
        BY <2>2, <2>4
      <3>2. Sent(count, again, backs, g[u - 1])
        BY <2>1, <3>1
      <3>3. Sent(count, again, backs, Drag(count, again, backs)!Visit(g[u - 1], u))
        BY <3>1, <3>2, SentNext
      <3> QED  BY <1>3, <2>2, <2>4, <3>3
    <2> QED  BY <2>3, <2>4
  <1>5. n \in 0 .. n
    OBVIOUS
  <1> QED  BY <1>2, <1>4, <1>5

BacksOf(list, backs) == {list[i] : i \in DOMAIN list} \cap (1 .. backs)

DragTypes(count, backs) ==
    /\ draggingEl \in DragElement(count) /\ initial \in Int /\ followed \in Int /\ lock \in BOOLEAN
    /\ accessories \in Seq(0 .. backs) /\ tween \in Returning(backs)
    /\ draggingDown \in SUBSET (1 .. count) /\ grip \in SUBSET (1 .. count) /\ mixed \in BOOLEAN

\* What grips the element touches it, and is pressed; while tweeners send it back, nothing
\* does, and they lead to the initial place.
DragOrder(backs) ==
    ~ mixed =>
        /\ Held(draggingEl, grip)
        /\ \A p \in grip : p \in draggingEl.touch
        /\ \A p \in draggingEl.touch : p \in draggingDown
        /\ BacksOf(accessories, backs) = {} => draggingEl.x = initial + followed
        /\ BacksOf(accessories, backs) # {} =>
               /\ ~ draggingEl.interactive /\ followed = 0
               /\ \A b \in BacksOf(accessories, backs) :
                      tween[b].to = initial /\ (tween[b].left = 0 => draggingEl.x = initial)

DragInv(count, backs) == DragTypes(count, backs) /\ DragOrder(backs)

LEMMA BacksAre ==
    ASSUME NEW CONSTANT count, NEW CONSTANT again, NEW CONSTANT backs
    PROVE  /\ Drag(count, again, backs)!Backs = BacksOf(accessories, backs)
           /\ (Drag(count, again, backs)!Backs = BacksOf(accessories, backs))'
  BY DEF Drag!Backs, Drag!Attached, Drag!Back, BacksOf

LEMMA DragInit ==
    ASSUME NEW CONSTANT count, NEW CONSTANT again, NEW CONSTANT backs,
           count \in Nat, backs \in Nat, Drag(count, again, backs)!Init
    PROVE  DragInv(count, backs)
  <1>1. /\ draggingEl = [x |-> 0, interactive |-> TRUE, dragging |-> FALSE, touch |-> {}]
        /\ initial = 0 /\ lock = FALSE /\ accessories = <<>>
        /\ tween = [b \in 1 .. backs |-> [left |-> 0, to |-> 0]]
        /\ draggingDown = {} /\ grip = {} /\ followed = 0 /\ mixed = FALSE
    BY DEF Drag!Init, Drag!Back
  <1>2. draggingEl \in DragElement(count) /\ accessories \in Seq(0 .. backs) /\ tween \in Returning(backs)
    BY <1>1 DEF DragElement, Returning
  <1>3. BacksOf(accessories, backs) = {}
    BY <1>1 DEF BacksOf
  <1>4. Held(draggingEl, grip)
    BY <1>1 DEF Held
  <1>5. DragTypes(count, backs)
    <2>1. initial \in Int /\ followed \in Int
      BY <1>1
    <2>2. lock \in BOOLEAN /\ mixed \in BOOLEAN
      BY <1>1, Zenon
    <2>3. draggingDown \in SUBSET (1 .. count) /\ grip \in SUBSET (1 .. count)
      BY <1>1
    <2> QED  BY <1>2, <2>1, <2>2, <2>3 DEF DragTypes
  <1>6. DragOrder(backs)
    BY <1>1, <1>3, <1>4 DEF DragOrder
  <1> QED  BY <1>5, <1>6 DEF DragInv

\* A frame that updates the accessories.
LEMMA DragUpdates ==
    ASSUME NEW CONSTANT count, NEW CONSTANT again, NEW CONSTANT backs,
           count \in Nat, backs \in Nat, DragInv(count, backs), Drag(count, again, backs)!Update
    PROVE  DragInv(count, backs)'
  <1> DEFINE s == Drag(count, again, backs)!EachUpdated
             D == Drag(count, again, backs)!Backs
  <1>1. /\ draggingEl' = s.el /\ tween' = s.tween /\ accessories' = s.list /\ gone' = s.gone
        /\ mixed' = (mixed \/ (s.gone # {} /\ \E b \in 1 .. backs :
                                 b \in Drag(count, again, backs)!Attached(s.list)))
        /\ initial' = initial /\ lock' = lock /\ draggingDown' = draggingDown
        /\ grip' = grip /\ followed' = followed
    <2>1. /\ draggingEl' = s.el /\ tween' = s.tween /\ accessories' = s.list /\ gone' = s.gone
          /\ mixed' = (mixed \/ (gone' # {} /\ \E b \in 1 .. backs :
                                 b \in {accessories'[i] : i \in DOMAIN accessories'}))
          /\ initial' = initial /\ lock' = lock /\ draggingDown' = draggingDown
          /\ grip' = grip /\ followed' = followed
      BY DEF Drag!Update, Drag!Back, Drag!Attached
    <2> HIDE DEF s
    <2> QED  BY <2>1 DEF Drag!Attached
  <1>2. DragTypes(count, backs) /\ DragOrder(backs)
    BY DEF DragInv
  <1>3. D = BacksOf(accessories, backs)
    BY BacksAre
  <1>4. Sent(count, again, backs, AtUpdate)
    <2>1. /\ AtUpdate.el = draggingEl /\ AtUpdate.tween = tween /\ AtUpdate.list = accessories
          /\ AtUpdate.updated = {} /\ AtUpdate.gone = {} /\ AtUpdate \in Updating(count, backs)
      BY <1>2 DEF AtUpdate, Updating, DragTypes
    <2>2. ~ mixed /\ D # {} => \A b \in D : tween[b].to = initial /\ (tween[b].left = 0 => draggingEl.x = initial)
      BY <1>2, <1>3 DEF DragOrder
    <2> QED  BY <2>1, <2>2 DEF Sent
  <1>5. Sent(count, again, backs, s)
    <2>1. Len(accessories) \in Nat /\ initial \in Int
      BY <1>2 DEF DragTypes
    <2> QED  BY <1>4, <2>1, AllSent
  <1> HIDE DEF s, D
  <1>6. /\ s.el \in DragElement(count) /\ s.tween \in Returning(backs) /\ s.list \in Seq(0 .. backs)
    BY <1>5 DEF Sent, Updating
  <1>7. DragTypes(count, backs)'
    BY <1>1, <1>2, <1>6 DEF DragTypes, DragElement, Returning
  <1>8. s.el.touch = draggingEl.touch /\ s.el.dragging = draggingEl.dragging
    BY <1>5 DEF Sent
  <1> DEFINE Held2 == Held(draggingEl', grip)
             C == BacksOf(accessories', backs)
  <1>9. ASSUME ~ mixed'
        PROVE  /\ Held2
               /\ C = {} => draggingEl'.x = initial + followed
               /\ C # {} =>
                     /\ ~ draggingEl'.interactive /\ followed = 0
                     /\ \A b \in C : tween'[b].to = initial /\ (tween'[b].left = 0 => draggingEl'.x = initial)
    <2>1. ~ mixed
      BY <1>1, <1>9
    <2>2. /\ Held(draggingEl, grip)
          /\ D = {} => draggingEl.x = initial + followed
          /\ D # {} => /\ ~ draggingEl.interactive /\ followed = 0
                       /\ \A p \in grip : p \in draggingEl.touch
      BY <1>2, <1>3, <2>1 DEF DragOrder
    <2>3. CASE s.gone = {}
      <3>1. s.list = accessories /\ s.el.interactive = draggingEl.interactive
        BY <1>5, <2>3 DEF Sent
      <3>2. C = D
        BY <1>1, <1>3, <3>1
      <3>3. Held2
        BY <1>1, <1>8, <2>2, <3>1 DEF Held
      <3>4. D = {} => s.el.x = draggingEl.x
        BY <1>5 DEF Sent, D
      <3>5. D # {} => \A b \in D : s.tween[b].to = initial /\ (s.tween[b].left = 0 => s.el.x = initial)
        BY <1>5, <2>1 DEF Sent, D
      <3> HIDE DEF C, Held2
      <3> QED  BY <1>1, <2>2, <3>1, <3>2, <3>3, <3>4, <3>5
    <2>4. CASE s.gone # {}
      <3>1. D # {} /\ s.el.x = initial
        BY <1>5, <2>1, <2>4 DEF Sent, D
      <3>2. C = {}
        <4>1. ~ \E b \in 1 .. backs : b \in Drag(count, again, backs)!Attached(s.list)
          BY <1>1, <1>9, <2>4
        <4> QED  BY <1>1, <4>1 DEF Drag!Attached, BacksOf
      <3>3. draggingEl.touch = {} /\ grip = {} /\ ~ draggingEl.dragging
        BY <2>2, <3>1 DEF Held
      <3>4. Held2
        BY <1>1, <1>8, <3>3 DEF Held
      <3>5. initial \in Int /\ followed = 0 /\ initial + 0 = initial
        BY <1>2, <2>2, <3>1 DEF DragTypes
      <3> HIDE DEF C, Held2
      <3> QED  BY <1>1, <3>1, <3>2, <3>4, <3>5
    <2> QED  BY <2>3, <2>4
  <1>10. ASSUME ~ mixed'
         PROVE  /\ \A p \in grip : p \in draggingEl'.touch
                /\ \A p \in draggingEl'.touch : p \in draggingDown
    BY <1>1, <1>2, <1>8, <1>10 DEF DragOrder
  <1>11. ~ mixed' => (Held(draggingEl, grip))'
    BY <1>1, <1>9 DEF Held
  <1>12. ~ mixed' => (BacksOf(accessories, backs) = {} => draggingEl.x = initial + followed)'
    BY <1>1, <1>9 DEF BacksOf
  <1>13. ~ mixed' =>
           (BacksOf(accessories, backs) # {} =>
               /\ ~ draggingEl.interactive /\ followed = 0
               /\ \A b \in BacksOf(accessories, backs) :
                      tween[b].to = initial /\ (tween[b].left = 0 => draggingEl.x = initial))'
    <2> SUFFICES ASSUME ~ mixed', C # {}
                 PROVE  /\ ~ draggingEl'.interactive /\ followed' = 0
                        /\ \A b \in C :
                              tween'[b].to = initial' /\ (tween'[b].left = 0 => draggingEl'.x = initial')
      BY DEF BacksOf
    <2> HIDE DEF C
    <2> QED  BY <1>1, <1>9
  <1>14. ~ mixed' => (\A p \in grip : p \in draggingEl.touch)' /\ (\A p \in draggingEl.touch : p \in draggingDown)'
    BY <1>1, <1>10
  <1>15. DragOrder(backs)'
    BY <1>11, <1>12, <1>13, <1>14 DEF DragOrder
  <1> QED  BY <1>7, <1>15 DEF DragInv

LEMMA DragCountIs == \A count, again, backs, S : Drag(count, again, backs)!Cardinality(S) = Cardinality(S)
  BY DEF Drag!Cardinality, Cardinality

\* Of a set of numbers of pointers that is not counted as more than one.
LEMMA OneAtMost ==
    ASSUME NEW count \in Nat, NEW S \in SUBSET (1 .. count), ~ (Cardinality(S) > 1)
    PROVE  \A p, q \in S : p = q
  <1> SUFFICES ASSUME NEW p \in S, NEW q \in S, p # q PROVE FALSE
    OBVIOUS
  <1>1. IsFiniteSet(S)
    <2>1. IsFiniteSet(1 .. count)
      BY FS_Interval
    <2> QED  BY <2>1, FS_Subset
  <1>2. IsFiniteSet({p}) /\ Cardinality({p}) = 1
    BY FS_Singleton
  <1>3. Cardinality({p} \cup {q}) = 2
    BY <1>2, FS_AddElement
  <1>4. Cardinality({p} \cup {q}) <= Cardinality(S) /\ Cardinality(S) \in Nat
    BY <1>1, FS_Subset, FS_CardinalityType
  <1> QED  BY <1>3, <1>4

\* A frame that asks the pointers.
LEMMA DragChecks ==
    ASSUME NEW CONSTANT count, NEW CONSTANT again, NEW CONSTANT backs,
           count \in Nat, backs \in Nat, DragInv(count, backs), Drag(count, again, backs)!Check
    PROVE  DragInv(count, backs)'
  <1>1. PICK d \in SUBSET (1 .. count), o \in SUBSET (1 .. count), by \in [1 .. count -> {-1, 0, 1}] :
          /\ draggingDown' = d /\ last' = draggingDown
          /\ draggingEl' = Drag(count, again, backs)!AllTold(o, by).el
          /\ initial' = Drag(count, again, backs)!AllTold(o, by).initial
          /\ followed' = Drag(count, again, backs)!AllTold(o, by).followed
          /\ mixed' = (Drag(count, again, backs)!AllTold(o, by).mixed
                         \/ Cardinality(Drag(count, again, backs)!AllTold(o, by).grip) > 1)
          /\ grip' = Drag(count, again, backs)!AllTold(o, by).grip \cap d
          /\ lock' = lock /\ accessories' = accessories /\ tween' = tween
    BY DragCountIs, Zenon DEF Drag!Check, Drag!Pointer
  <1> DEFINE s == Drag(count, again, backs)!AllTold(o, by)
             D == Drag(count, again, backs)!Backs
             B == BacksOf(accessories, backs)
  <1>2. DragTypes(count, backs) /\ DragOrder(backs)
    BY DEF DragInv
  <1>3. D = B
    BY BacksAre
  <1>4. AtCheck \in Telling(count) /\ AtCheck.el = draggingEl /\ AtCheck.initial = initial
        /\ AtCheck.followed = followed /\ AtCheck.grip = grip /\ AtCheck.mixed = mixed
    BY <1>2 DEF AtCheck, Telling, DragTypes
  <1>5. draggingDown' \in SUBSET (1 .. count) /\ draggingDown \in SUBSET (1 .. count)
    BY <1>1, <1>2 DEF DragTypes
  <1>6. Fine(count, again, backs, AtCheck, 0, draggingDown', draggingDown)
    <2>1. CASE D = {}
      <3>1. ~ mixed =>
              /\ Held(draggingEl, grip)
              /\ \A p \in grip : p \in draggingEl.touch
              /\ \A p \in draggingEl.touch : p \in draggingDown /\ ~ (p <= 0)
              /\ draggingEl.x = initial + followed
        <4>1. \A p \in 1 .. count : ~ (p <= 0)
          OBVIOUS
        <4> QED  BY <1>2, <1>3, <1>5, <2>1, <4>1 DEF DragOrder
      <3>2. Even(AtCheck, 0, draggingDown', draggingDown)
        BY <1>4, <3>1 DEF Even
      <3> QED  BY <1>4, <2>1, <3>2 DEF Fine
    <2>2. CASE D # {}
      <3>1. Stuck(AtCheck)
        BY <1>2, <1>3, <1>4, <2>2 DEF Stuck, DragOrder
      <3> QED  BY <1>4, <2>2, <3>1 DEF Fine
    <2> QED  BY <2>1, <2>2
  <1>7. Fine(count, again, backs, s, count, draggingDown', draggingDown)
    BY <1>1, <1>2, <1>6, AllFine DEF DragTypes
  <1>8. /\ draggingEl' = s.el /\ initial' = s.initial /\ followed' = s.followed
        /\ grip' = s.grip \cap draggingDown' /\ mixed' = (s.mixed \/ Cardinality(s.grip) > 1)
    BY <1>1, Zenon
  <1> HIDE DEF s, D
  <1>9. /\ s \in Telling(count) /\ s.el \in DragElement(count) /\ s.initial \in Int /\ s.followed \in Int
        /\ s.grip \in SUBSET (1 .. count) /\ s.mixed \in BOOLEAN
    BY <1>7 DEF Fine, Telling
  <1>10. DragTypes(count, backs)'
    <2>1. mixed' \in BOOLEAN
      BY <1>8, Zenon
    <2>2. /\ draggingEl' \in DragElement(count) /\ initial' \in Int /\ followed' \in Int /\ lock' \in BOOLEAN
          /\ accessories' \in Seq(0 .. backs) /\ tween' \in Returning(backs)
          /\ draggingDown' \in SUBSET (1 .. count) /\ grip' \in SUBSET (1 .. count)
      BY <1>1, <1>2, <1>5, <1>8, <1>9 DEF DragTypes
    <2> QED  BY <2>1, <2>2 DEF DragTypes, DragElement, Returning
  <1>11. ASSUME ~ mixed'
         PROVE  /\ Held(draggingEl', grip')
                /\ \A p \in grip' : p \in draggingEl'.touch
                /\ \A p \in draggingEl'.touch : p \in draggingDown'
                /\ B = {} => draggingEl'.x = initial' + followed'
                /\ B # {} =>
                      /\ ~ draggingEl'.interactive /\ followed' = 0
                      /\ \A b \in B : tween'[b].to = initial' /\ (tween'[b].left = 0 => draggingEl'.x = initial')
    <2>1. ~ s.mixed /\ ~ (Cardinality(s.grip) > 1)
      BY <1>8, <1>11
    <2>2. \A p, q \in s.grip : p = q
      BY <1>9, <2>1, OneAtMost
    <2>3. CASE D = {}
      <3>1. Even(s, count, draggingDown', draggingDown)
        BY <1>7, <2>3 DEF Fine, D
      <3>2. \A p \in 1 .. count : p <= count
        OBVIOUS
      <3>3. s.el.touch \in SUBSET (1 .. count)
        BY <1>9 DEF DragElement
      <3>4. /\ Held(s.el, s.grip) /\ s.el.x = s.initial + s.followed
            /\ \A p \in s.el.touch : p \in draggingDown'
            /\ \A p \in s.grip : p \in s.el.touch \/ p \notin draggingDown'
        BY <1>9, <2>1, <2>2, <3>1, <3>2, <3>3 DEF Even
      <3>5. Held(draggingEl', grip')
        BY <1>8, <3>4 DEF Held
      <3> HIDE DEF B
      <3> QED  BY <1>3, <1>8, <2>3, <3>4, <3>5
    <2>4. CASE D # {}
      <3>1. Stuck(s)
        BY <1>7, <2>4 DEF Fine, D
      <3>2. s.el = draggingEl /\ s.grip = grip /\ s.initial = initial /\ s.followed = followed
            /\ ~ draggingEl.interactive /\ ~ mixed
        BY <1>4, <2>1, <3>1 DEF Stuck
      <3>3. /\ Held(draggingEl, grip) /\ followed = 0 /\ \A p \in grip : p \in draggingEl.touch
            /\ \A b \in B : tween[b].to = initial /\ (tween[b].left = 0 => draggingEl.x = initial)
        BY <1>2, <1>3, <2>4, <3>2 DEF DragOrder
      <3>4. draggingEl.touch = {} /\ grip = {}
        BY <3>2, <3>3 DEF Held
      <3>5. grip' = grip
        BY <1>8, <3>2, <3>4
      <3>6. tween' = tween /\ B # {}
        BY <1>1, <1>3, <2>4
      <3> HIDE DEF B
      <3> QED  BY <1>8, <3>2, <3>3, <3>4, <3>5, <3>6
    <2> QED  BY <2>3, <2>4
  <1>12. BacksOf(accessories, backs)' = B
    BY <1>1 DEF BacksOf
  <1>13. ~ mixed' => (Held(draggingEl, grip))'
    BY <1>11 DEF Held
  <1>14. ~ mixed' => (BacksOf(accessories, backs) = {} => draggingEl.x = initial + followed)'
    BY <1>11, <1>12
  <1>15. ~ mixed' =>
           (BacksOf(accessories, backs) # {} =>
               /\ ~ draggingEl.interactive /\ followed = 0
               /\ \A b \in BacksOf(accessories, backs) :
                      tween[b].to = initial /\ (tween[b].left = 0 => draggingEl.x = initial))'
    BY <1>11, <1>12
  <1>16. ~ mixed' => (\A p \in grip : p \in draggingEl.touch)' /\ (\A p \in draggingEl.touch : p \in draggingDown)'
    BY <1>11
  <1>17. DragOrder(backs)'
    BY <1>13, <1>14, <1>15, <1>16 DEF DragOrder
  <1> QED  BY <1>10, <1>17 DEF DragInv

\* Sent back at once, or by a tweener.
LEMMA DragReturns ==
    ASSUME NEW CONSTANT count, NEW CONSTANT again, NEW CONSTANT backs,
           count \in Nat, backs \in Nat, BackTime \in Nat \ {0}, DragInv(count, backs),
           Drag(count, again, backs)!BackNow \/ \E b \in 1 .. backs : Drag(count, again, backs)!BackIn(b)
    PROVE  DragInv(count, backs)'
  <1> DEFINE B == BacksOf(accessories, backs)
  <1>1. DragTypes(count, backs) /\ DragOrder(backs)
    BY DEF DragInv
  <1>2. CASE Drag(count, again, backs)!BackNow
    <2>1. /\ draggingEl' = [draggingEl EXCEPT !.x = initial] /\ followed' = 0
          /\ initial' = initial /\ lock' = lock /\ accessories' = accessories /\ tween' = tween
          /\ draggingDown' = draggingDown /\ grip' = grip /\ mixed' = mixed
      BY <1>2 DEF Drag!BackNow
    <2>2. /\ draggingEl' \in DragElement(count) /\ draggingEl'.x = initial
          /\ draggingEl'.interactive = draggingEl.interactive /\ draggingEl'.dragging = draggingEl.dragging
          /\ draggingEl'.touch = draggingEl.touch
      BY <1>1, <2>1 DEF DragTypes, DragElement
    <2>3. DragTypes(count, backs)'
      <3>1. followed' \in Int
        BY <2>1
      <3> QED  BY <1>1, <2>1, <2>2, <3>1 DEF DragTypes, DragElement, Returning
    <2>4. BacksOf(accessories, backs)' = B
      BY <2>1 DEF BacksOf
    <2>5. initial = initial + 0
      BY <1>1 DEF DragTypes
    <2> HIDE DEF B
    <2>6. ~ mixed' => (Held(draggingEl, grip))'
      BY <1>1, <2>1, <2>2 DEF Held, DragOrder
    <2>7. ~ mixed' => (BacksOf(accessories, backs) = {} => draggingEl.x = initial + followed)'
      BY <2>1, <2>2, <2>5
    <2>8. ~ mixed' =>
            (BacksOf(accessories, backs) # {} =>
               /\ ~ draggingEl.interactive /\ followed = 0
               /\ \A b \in BacksOf(accessories, backs) :
                      tween[b].to = initial /\ (tween[b].left = 0 => draggingEl.x = initial))'
      BY <1>1, <2>1, <2>2, <2>4 DEF DragOrder, B
    <2>9. ~ mixed' => (\A p \in grip : p \in draggingEl.touch)' /\ (\A p \in draggingEl.touch : p \in draggingDown)'
      BY <1>1, <2>1, <2>2 DEF DragOrder
    <2>10. DragOrder(backs)'
      BY <2>6, <2>7, <2>8, <2>9 DEF DragOrder
    <2> QED  BY <2>3, <2>10 DEF DragInv
  <1>3. ASSUME NEW b \in 1 .. backs, Drag(count, again, backs)!BackIn(b)
        PROVE  DragInv(count, backs)'
    <2>1. /\ draggingEl' = [draggingEl EXCEPT !.interactive = FALSE] /\ followed' = 0
          /\ initial' = initial /\ lock' = lock /\ accessories' = Append(accessories, b)
          /\ tween' = [tween EXCEPT ![b] = [left |-> BackTime, to |-> initial]]
          /\ draggingDown' = draggingDown /\ grip' = grip
          /\ mixed' = (mixed \/ grip # {} \/ draggingEl.touch # {})
      BY <1>3 DEF Drag!BackIn, Drag!Attach
    <2>2. /\ draggingEl' \in DragElement(count) /\ draggingEl'.x = draggingEl.x
          /\ ~ draggingEl'.interactive /\ draggingEl'.dragging = draggingEl.dragging
          /\ draggingEl'.touch = draggingEl.touch
      BY <1>1, <2>1 DEF DragTypes, DragElement
    <2>3. /\ tween' \in Returning(backs) /\ tween'[b].left = BackTime /\ tween'[b].to = initial
          /\ \A c \in 1 .. backs : c # b => tween'[c] = tween[c]
      <3> DEFINE r == [left |-> BackTime, to |-> initial]
      <3>1. r \in [left : Nat, to : Int] /\ r.left = BackTime /\ r.to = initial
        BY <1>1 DEF DragTypes
      <3>2. tween' = [tween EXCEPT ![b] = r] /\ tween \in Returning(backs)
        BY <1>1, <2>1 DEF DragTypes
      <3> HIDE DEF r
      <3> QED  BY <3>1, <3>2 DEF Returning
    <2>4. accessories' \in Seq(0 .. backs) /\ BacksOf(accessories, backs)' = B \cup {b}
      <3>1. accessories \in Seq(0 .. backs) /\ b \in 0 .. backs
        BY <1>1 DEF DragTypes
      <3>2. /\ accessories' \in Seq(0 .. backs) /\ DOMAIN accessories' = 1 .. Len(accessories) + 1
            /\ DOMAIN accessories = 1 .. Len(accessories) /\ Len(accessories) \in Nat
            /\ accessories'[Len(accessories) + 1] = b
            /\ \A i \in 1 .. Len(accessories) : accessories'[i] = accessories[i]
        BY <2>1, <3>1
      <3>3. \A i \in DOMAIN accessories' : i \in DOMAIN accessories \/ i = Len(accessories) + 1
        BY <3>2
      <3>4. {accessories'[i] : i \in DOMAIN accessories'} = {accessories[i] : i \in DOMAIN accessories} \cup {b}
        <4>1. Len(accessories) + 1 \in DOMAIN accessories' /\ \A i \in DOMAIN accessories : i \in DOMAIN accessories'
          BY <3>2
        <4>2. \A i \in DOMAIN accessories : accessories'[i] = accessories[i]
          BY <3>2
        <4> QED  BY <3>2, <3>3, <4>1, <4>2
      <3>5. BacksOf(accessories, backs)' = {accessories'[i] : i \in DOMAIN accessories'} \cap (1 .. backs)
        BY DEF BacksOf
      <3> QED  BY <3>2, <3>4, <3>5 DEF BacksOf
    <2>5. DragTypes(count, backs)'
      <3>1. mixed' \in BOOLEAN
        BY <2>1, Zenon
      <3>2. followed' \in Int
        BY <2>1
      <3>3. /\ draggingEl' \in DragElement(count) /\ initial' \in Int /\ lock' \in BOOLEAN
            /\ accessories' \in Seq(0 .. backs) /\ tween' \in Returning(backs)
            /\ draggingDown' \in SUBSET (1 .. count) /\ grip' \in SUBSET (1 .. count)
        BY <1>1, <2>1, <2>2, <2>3, <2>4 DEF DragTypes
      <3> QED  BY <3>1, <3>2, <3>3 DEF DragTypes, DragElement, Returning
    <2> HIDE DEF B
    <2>6. ASSUME ~ mixed' PROVE ~ mixed /\ grip = {} /\ draggingEl.touch = {}
      BY <2>1, <2>6
    <2>7. ~ mixed' => (Held(draggingEl, grip))'
      <3>1. ~ mixed => Held(draggingEl, grip)
        BY <1>1 DEF DragOrder
      <3> QED  BY <2>1, <2>2, <2>6, <3>1 DEF Held
    <2>8. ~ mixed' => (BacksOf(accessories, backs) = {} => draggingEl.x = initial + followed)'
      BY <2>4
    <2>9. ~ mixed' =>
            (BacksOf(accessories, backs) # {} =>
               /\ ~ draggingEl.interactive /\ followed = 0
               /\ \A c \in BacksOf(accessories, backs) :
                      tween[c].to = initial /\ (tween[c].left = 0 => draggingEl.x = initial))'
      <3>1. ASSUME ~ mixed', NEW c \in BacksOf(accessories, backs)'
            PROVE  tween'[c].to = initial /\ (tween'[c].left = 0 => draggingEl'.x = initial)
        <4>1. CASE c = b
          BY <2>3, <4>1
        <4>2. CASE c # b
          <5>1. c \in B /\ c \in 1 .. backs
            BY <2>4, <4>2 DEF B, BacksOf
          <5>2. tween[c].to = initial /\ (tween[c].left = 0 => draggingEl.x = initial)
            BY <1>1, <2>6, <3>1, <5>1 DEF DragOrder, B
          <5> QED  BY <2>2, <2>3, <4>2, <5>1, <5>2
        <4> QED  BY <4>1, <4>2
      <3> QED  BY <2>1, <2>2, <3>1
    <2>10. ~ mixed' => (\A p \in grip : p \in draggingEl.touch)' /\ (\A p \in draggingEl.touch : p \in draggingDown)'
      BY <2>1, <2>2, <2>6
    <2>11. DragOrder(backs)'
      BY <2>7, <2>8, <2>9, <2>10 DEF DragOrder
    <2> QED  BY <2>5, <2>11 DEF DragInv
  <1> QED  BY <1>2, <1>3

\* What keeps the element and its tweeners.
LEMMA DragKept ==
    ASSUME NEW CONSTANT count, NEW CONSTANT again, NEW CONSTANT backs,
           count \in Nat, backs \in Nat, DragInv(count, backs),
           /\ draggingEl' = draggingEl /\ initial' = initial /\ followed' = followed /\ lock' \in BOOLEAN
           /\ tween' = tween /\ draggingDown' = draggingDown /\ grip' = grip /\ mixed' = mixed,
           accessories' \in Seq(0 .. backs), BacksOf(accessories, backs)' = BacksOf(accessories, backs)
    PROVE  DragInv(count, backs)'
  <1>1. DragTypes(count, backs) /\ DragOrder(backs)
    BY DEF DragInv
  <1>2. DragTypes(count, backs)'
    BY <1>1 DEF DragTypes, DragElement, Returning
  <1>3. ~ mixed' => (Held(draggingEl, grip))'
    BY <1>1 DEF Held, DragOrder
  <1>4. DragOrder(backs)'
    BY <1>1, <1>3 DEF DragOrder
  <1> QED  BY <1>2, <1>4 DEF DragInv

LEMMA DragStep ==
    ASSUME NEW CONSTANT count, NEW CONSTANT again, NEW CONSTANT backs,
           count \in Nat, backs \in Nat, BackTime \in Nat \ {0}, DragInv(count, backs),
           Drag(count, again, backs)!Next \/ UNCHANGED draggingVars
    PROVE  DragInv(count, backs)'
  <1>1. DragTypes(count, backs)
    BY DEF DragInv
  <1>2. CASE UNCHANGED draggingVars
    <2>1. /\ draggingEl' = draggingEl /\ initial' = initial /\ followed' = followed /\ lock' = lock
          /\ tween' = tween /\ draggingDown' = draggingDown /\ grip' = grip /\ mixed' = mixed
          /\ accessories' = accessories
      BY <1>2 DEF draggingVars
    <2>2. BacksOf(accessories, backs)' = BacksOf(accessories, backs)
      BY <2>1 DEF BacksOf
    <2> QED  BY <1>1, <2>1, <2>2, DragKept DEF DragTypes
  <1>3. CASE Drag(count, again, backs)!Update
    BY <1>3, DragUpdates
  <1>4. CASE Drag(count, again, backs)!Check
    BY <1>4, DragChecks
  <1>5. CASE Drag(count, again, backs)!BackNow \/ \E b \in 1 .. backs : Drag(count, again, backs)!BackIn(b)
    BY <1>5, DragReturns
  <1>6. CASE Drag(count, again, backs)!Lock
    <2>1. /\ draggingEl' = draggingEl /\ initial' = initial /\ followed' = followed /\ lock' = ~ lock
          /\ tween' = tween /\ draggingDown' = draggingDown /\ grip' = grip /\ mixed' = mixed
          /\ accessories' = accessories
      BY <1>6 DEF Drag!Lock, Drag!history
    <2>2. BacksOf(accessories, backs)' = BacksOf(accessories, backs)
      BY <2>1 DEF BacksOf
    <2>3. lock' \in BOOLEAN
      BY <2>1, Zenon
    <2> QED  BY <1>1, <2>1, <2>2, <2>3, DragKept DEF DragTypes
  <1>7. CASE Drag(count, again, backs)!AttachOther
    <2>1. /\ draggingEl' = draggingEl /\ initial' = initial /\ followed' = followed /\ lock' = lock
          /\ tween' = tween /\ draggingDown' = draggingDown /\ grip' = grip /\ mixed' = mixed
          /\ accessories' = Append(accessories, 0)
      BY <1>7 DEF Drag!AttachOther, Drag!Attach, Drag!Other, Drag!history, Drag!element
    <2>2. accessories \in Seq(0 .. backs) /\ accessories' \in Seq(0 .. backs)
      BY <1>1, <2>1 DEF DragTypes
    <2>3. /\ DOMAIN accessories' = 1 .. Len(accessories) + 1
          /\ DOMAIN accessories = 1 .. Len(accessories) /\ Len(accessories) \in Nat
          /\ accessories'[Len(accessories) + 1] = 0
          /\ \A i \in 1 .. Len(accessories) : accessories'[i] = accessories[i]
      BY <2>1, <2>2
    <2>4. BacksOf(accessories, backs)' = BacksOf(accessories, backs)
      <3>1. \A i \in DOMAIN accessories' : i \in DOMAIN accessories \/ accessories'[i] = 0
        BY <2>3
      <3>2. \A i \in DOMAIN accessories : i \in DOMAIN accessories' /\ accessories'[i] = accessories[i]
        BY <2>3
      <3>3. 0 \notin 1 .. backs
        OBVIOUS
      <3>4. BacksOf(accessories, backs)' = {accessories'[i] : i \in DOMAIN accessories'} \cap (1 .. backs)
        BY DEF BacksOf
      <3>5. {accessories'[i] : i \in DOMAIN accessories'} \cap (1 .. backs)
              = {accessories[i] : i \in DOMAIN accessories} \cap (1 .. backs)
        BY <3>1, <3>2, <3>3
      <3> QED  BY <3>4, <3>5 DEF BacksOf
    <2> QED  BY <1>1, <2>1, <2>2, <2>4, DragKept DEF DragTypes
  <1>8. CASE Drag(count, again, backs)!RemoveOther
    <2>1. /\ draggingEl' = draggingEl /\ initial' = initial /\ followed' = followed /\ lock' = lock
          /\ tween' = tween /\ draggingDown' = draggingDown /\ grip' = grip /\ mixed' = mixed
          /\ accessories' = Drag(count, again, backs)!Detach(accessories, 0)
          /\ 0 \in Drag(count, again, backs)!Attached(accessories)
      BY <1>8 DEF Drag!RemoveOther, Drag!Other, Drag!history, Drag!element
    <2> DEFINE l == Drag(count, again, backs)!Detach(accessories, 0)
    <2>2. accessories \in Seq(0 .. backs)
      BY <1>1 DEF DragTypes
    <2>3. /\ l \in Seq(0 .. backs)
          /\ \A x \in Drag(count, again, backs)!Attached(l) : x \in Drag(count, again, backs)!Attached(accessories)
          /\ \A x \in Drag(count, again, backs)!Attached(accessories) :
                 x = 0 \/ x \in Drag(count, again, backs)!Attached(l)
      BY <2>1, <2>2, DetachIs
    <2>4. accessories' = l
      BY <2>1
    <2> HIDE DEF l
    <2>5. BacksOf(accessories, backs)' = BacksOf(accessories, backs)
      <3>1. 0 \notin 1 .. backs
        OBVIOUS
      <3>2. BacksOf(accessories, backs)' = {l[i] : i \in DOMAIN l} \cap (1 .. backs)
        BY <2>4 DEF BacksOf
      <3>3. {l[i] : i \in DOMAIN l} \cap (1 .. backs) = {accessories[i] : i \in DOMAIN accessories} \cap (1 .. backs)
        BY <2>3, <3>1 DEF Drag!Attached
      <3> QED  BY <3>2, <3>3 DEF BacksOf
    <2>6. accessories' \in Seq(0 .. backs)
      BY <2>3, <2>4
    <2> QED  BY <1>1, <2>1, <2>5, <2>6, DragKept DEF DragTypes
  <1> QED  BY <1>2, <1>3, <1>4, <1>5, <1>6, <1>7, <1>8 DEF Drag!Next, Drag!Back

LEMMA DragGood ==
    ASSUME NEW CONSTANT count, NEW CONSTANT again, NEW CONSTANT backs, DragInv(count, backs)
    PROVE  Drag(count, again, backs)!DragFollows /\ Drag(count, again, backs)!DragsIfPressed
  <1>1. DragOrder(backs) /\ Drag(count, again, backs)!Backs = BacksOf(accessories, backs)
    BY BacksAre DEF DragInv
  <1>2. Drag(count, again, backs)!DragFollows
    BY <1>1 DEF Drag!DragFollows, DragOrder
  <1>3. Drag(count, again, backs)!DragsIfPressed
    BY <1>1 DEF Drag!DragsIfPressed, DragOrder, Held
  <1> QED  BY <1>2, <1>3

GripInv ==
    /\ part = "dragging" => DragInv(1, MouseBacks)
    /\ part = "touches" => DragInv(Touches, TouchBacks)

\* Of a mouse, or of any number of touches, and of any number of tweeners: an element that
\* is dragged is where what gripped it took it, or where that began once it was sent back,
\* and nothing moves it that is not pressed (phina.js:8635, 8641).
THEOREM DragAlwaysFollows == InputSpec => []DragFollowsGrip
  <1>1. MouseBacks \in Nat /\ Touches \in Nat /\ TouchBacks \in Nat /\ BackTime \in Nat \ {0}
    BY DragAssumption DEF Drag!DraggingAssumption
  <1>2. InputInit => GripInv
    <2>1. ASSUME InputInit, part = "dragging" PROVE DragInv(1, MouseBacks)
      BY <1>1, <2>1, DragInit DEF InputInit
    <2>2. ASSUME InputInit, part = "touches" PROVE DragInv(Touches, TouchBacks)
      BY <1>1, <2>2, DragInit DEF InputInit
    <2> QED  BY <2>1, <2>2 DEF GripInv
  <1>3. GripInv /\ [InputNext]_inputVars => GripInv'
    <2> SUFFICES ASSUME GripInv, [InputNext]_inputVars PROVE GripInv'
      OBVIOUS
    <2>1. part' = part
      BY DEF InputNext, inputVars
    <2>2. ASSUME part = "dragging" PROVE DragInv(1, MouseBacks)'
      <3>1. Drag(1, {1}, MouseBacks)!Next \/ UNCHANGED draggingVars
        BY <2>2 DEF InputNext, inputVars
      <3>2. DragInv(1, MouseBacks)
        BY <2>2 DEF GripInv
      <3> QED  BY <1>1, <3>1, <3>2, DragStep
    <2>3. ASSUME part = "touches" PROVE DragInv(Touches, TouchBacks)'
      <3>1. Drag(Touches, {}, TouchBacks)!Next \/ UNCHANGED draggingVars
        BY <2>3 DEF InputNext, inputVars
      <3>2. DragInv(Touches, TouchBacks)
        BY <2>3 DEF GripInv
      <3> QED  BY <1>1, <3>1, <3>2, DragStep
    <2> QED  BY <2>1, <2>2, <2>3 DEF GripInv
  <1>4. GripInv => DragFollowsGrip
    <2>1. ASSUME DragInv(1, MouseBacks)
          PROVE  Drag(1, {1}, MouseBacks)!DragFollows /\ Drag(1, {1}, MouseBacks)!DragsIfPressed
      BY <2>1, DragGood
    <2>2. ASSUME DragInv(Touches, TouchBacks)
          PROVE  Drag(Touches, {}, TouchBacks)!DragFollows /\ Drag(Touches, {}, TouchBacks)!DragsIfPressed
      BY <2>2, DragGood
    <2> QED  BY <2>1, <2>2 DEF GripInv, DragFollowsGrip
  <1> QED  BY <1>2, <1>3, <1>4, PTL DEF InputSpec

-----------------------------------------------------------------------------
(* Input: placement *)

\* Of a matrix: its last row is <<0, 0, 1>>, and the others are whole numbers.
Affine(k) ==
    /\ k[1][1] \in Int /\ k[1][2] \in Int /\ k[1][3] \in Int
    /\ k[2][1] \in Int /\ k[2][2] \in Int /\ k[2][3] \in Int
    /\ k[3][1] = 0 /\ k[3][2] = 0 /\ k[3][3] = 1

ProductIs(j, k, l) ==
    /\ l[1][1] = j[1][1] * k[1][1] + j[1][2] * k[2][1]
    /\ l[1][2] = j[1][1] * k[1][2] + j[1][2] * k[2][2]
    /\ l[1][3] = j[1][1] * k[1][3] + j[1][2] * k[2][3] + j[1][3]
    /\ l[2][1] = j[2][1] * k[1][1] + j[2][2] * k[2][1]
    /\ l[2][2] = j[2][1] * k[1][2] + j[2][2] * k[2][2]
    /\ l[2][3] = j[2][1] * k[1][3] + j[2][2] * k[2][3] + j[2][3]

LEMMA MatrixProduct ==
    ASSUME NEW CONSTANT sites, NEW CONSTANT angles, NEW CONSTANT sizes,
           NEW j, NEW k, Affine(j), Affine(k)
    PROVE  /\ Affine(Placed(sites, angles, sizes)!Multiply(j, k))
           /\ ProductIs(j, k, Placed(sites, angles, sizes)!Multiply(j, k))
  <1> DEFINE l == Placed(sites, angles, sizes)!Multiply(j, k)
  <1>1. \A r, c \in 1 .. 3 : l[r][c] = j[r][1] * k[1][c] + j[r][2] * k[2][c] + j[r][3] * k[3][c]
    BY DEF Placed!Multiply
  <1> HIDE DEF l
  <1>2. /\ l[1][1] = j[1][1] * k[1][1] + j[1][2] * k[2][1] + j[1][3] * k[3][1]
        /\ l[1][2] = j[1][1] * k[1][2] + j[1][2] * k[2][2] + j[1][3] * k[3][2]
        /\ l[1][3] = j[1][1] * k[1][3] + j[1][2] * k[2][3] + j[1][3] * k[3][3]
    BY <1>1
  <1>3. /\ l[2][1] = j[2][1] * k[1][1] + j[2][2] * k[2][1] + j[2][3] * k[3][1]
        /\ l[2][2] = j[2][1] * k[1][2] + j[2][2] * k[2][2] + j[2][3] * k[3][2]
        /\ l[2][3] = j[2][1] * k[1][3] + j[2][2] * k[2][3] + j[2][3] * k[3][3]
    BY <1>1
  <1>4. /\ l[3][1] = j[3][1] * k[1][1] + j[3][2] * k[2][1] + j[3][3] * k[3][1]
        /\ l[3][2] = j[3][1] * k[1][2] + j[3][2] * k[2][2] + j[3][3] * k[3][2]
        /\ l[3][3] = j[3][1] * k[1][3] + j[3][2] * k[2][3] + j[3][3] * k[3][3]
    BY <1>1
  <1>5. ProductIs(j, k, l)
    BY <1>2, <1>3 DEF ProductIs, Affine
  <1>6. Affine(l)
    <2>1. l[3][1] = 0 /\ l[3][2] = 0 /\ l[3][3] = 1
      BY <1>4 DEF Affine
    <2> QED  BY <1>5, <2>1 DEF Affine, ProductIs
  <1> QED  BY <1>5, <1>6 DEF l

Det(k) == k[1][1] * k[2][2] - k[1][2] * k[2][1]

AdjugateIs(k, l) ==
    /\ l[1][1] = k[2][2] /\ l[1][2] = - k[1][2] /\ l[1][3] = k[1][2] * k[2][3] - k[1][3] * k[2][2]
    /\ l[2][1] = - k[2][1] /\ l[2][2] = k[1][1] /\ l[2][3] = k[1][3] * k[2][1] - k[1][1] * k[2][3]
    /\ l[3][1] = 0 /\ l[3][2] = 0 /\ l[3][3] = Det(k)

LEMMA MatrixInverse ==
    ASSUME NEW CONSTANT sites, NEW CONSTANT angles, NEW CONSTANT sizes, NEW k, Affine(k)
    PROVE  /\ Placed(sites, angles, sizes)!Determinant(k) = Det(k) /\ Det(k) \in Int
           /\ AdjugateIs(k, Placed(sites, angles, sizes)!Adjugate(k))
  <1> DEFINE l == Placed(sites, angles, sizes)!Adjugate(k)
             min(r, c) == Placed(sites, angles, sizes)!Minor(k, r, c)
  <1>1. Placed(sites, angles, sizes)!Determinant(k) = Det(k) /\ Det(k) \in Int
    BY DEF Placed!Determinant, Det, Affine
  <1>2. \A r, c \in 1 .. 3 : l[r][c] = (IF (r + c) % 2 = 0 THEN 1 ELSE -1) * min(c, r)
    BY DEF Placed!Adjugate
  <1> HIDE DEF l
  <1>3. /\ min(1, 1) = k[2][2] /\ min(2, 1) = k[1][2] /\ min(3, 1) = k[1][2] * k[2][3] - k[1][3] * k[2][2]
        /\ min(1, 2) = k[2][1] /\ min(2, 2) = k[1][1] /\ min(3, 2) = k[1][1] * k[2][3] - k[1][3] * k[2][1]
        /\ min(1, 3) = 0 /\ min(2, 3) = 0 /\ min(3, 3) = Det(k)
    <2> DEFINE m(r1, r2, c1, c2) == k[r1][c1] * k[r2][c2] - k[r1][c2] * k[r2][c1]
    <2>1. /\ min(1, 1) = m(2, 3, 2, 3) /\ min(2, 1) = m(1, 3, 2, 3) /\ min(3, 1) = m(1, 2, 2, 3)
      BY DEF Placed!Minor
    <2>2. /\ min(1, 2) = m(2, 3, 1, 3) /\ min(2, 2) = m(1, 3, 1, 3) /\ min(3, 2) = m(1, 2, 1, 3)
      BY DEF Placed!Minor
    <2>3. /\ min(1, 3) = m(2, 3, 1, 2) /\ min(2, 3) = m(1, 3, 1, 2) /\ min(3, 3) = m(1, 2, 1, 2)
      BY DEF Placed!Minor
    <2> HIDE DEF min
    <2>4. /\ m(2, 3, 2, 3) = k[2][2] /\ m(1, 3, 2, 3) = k[1][2]
          /\ m(2, 3, 1, 3) = k[2][1] /\ m(1, 3, 1, 3) = k[1][1]
          /\ m(2, 3, 1, 2) = 0 /\ m(1, 3, 1, 2) = 0 /\ m(1, 2, 1, 2) = Det(k)
      BY DEF Affine, Det
    <2> QED  BY <2>1, <2>2, <2>3, <2>4
  <1> HIDE DEF min
  <1>4. /\ l[1][1] = min(1, 1) /\ l[1][2] = - min(2, 1) /\ l[1][3] = min(3, 1)
        /\ l[2][1] = - min(1, 2) /\ l[2][2] = min(2, 2) /\ l[2][3] = - min(3, 2)
        /\ l[3][1] = min(1, 3) /\ l[3][2] = - min(2, 3) /\ l[3][3] = min(3, 3)
    <2>1. /\ (1 + 1) % 2 = 0 /\ (1 + 2) % 2 # 0 /\ (1 + 3) % 2 = 0
          /\ (2 + 1) % 2 # 0 /\ (2 + 2) % 2 = 0 /\ (2 + 3) % 2 # 0
          /\ (3 + 1) % 2 = 0 /\ (3 + 2) % 2 # 0 /\ (3 + 3) % 2 = 0
      OBVIOUS
    <2>2. \A r, c \in 1 .. 3 : min(c, r) \in Int
      <3>1. \A r, c \in 1 .. 3 : (r = 1 \/ r = 2 \/ r = 3) /\ (c = 1 \/ c = 2 \/ c = 3)
        OBVIOUS
      <3> QED  BY <1>1, <1>3, <3>1 DEF Affine
    <2>3. \A r, c \in 1 .. 3 : l[r][c] = IF (r + c) % 2 = 0 THEN min(c, r) ELSE - min(c, r)
      <3> SUFFICES ASSUME NEW r \in 1 .. 3, NEW c \in 1 .. 3
                   PROVE  l[r][c] = IF (r + c) % 2 = 0 THEN min(c, r) ELSE - min(c, r)
        OBVIOUS
      <3>1. min(c, r) \in Int
        BY <2>2
      <3>2. l[r][c] = (IF (r + c) % 2 = 0 THEN 1 ELSE -1) * min(c, r)
        BY <1>2
      <3>3. 1 * min(c, r) = min(c, r) /\ (-1) * min(c, r) = - min(c, r)
        BY <3>1
      <3> DEFINE u == min(c, r)
                 w == (r + c) % 2
      <3>4. /\ 1 * u = u /\ (-1) * u = - u
            /\ l[r][c] = (IF w = 0 THEN 1 ELSE -1) * u
        BY <3>2, <3>3
      <3> HIDE DEF u, w
      <3>5. CASE w = 0
        BY <3>4, <3>5 DEF u, w
      <3>6. CASE w # 0
        <4>1. l[r][c] = - u
          BY <3>4, <3>6
        <4> QED  BY <3>6, <4>1 DEF u, w
      <3> QED  BY <3>5, <3>6
    <2> DEFINE n(r, c) == IF (r + c) % 2 = 0 THEN min(c, r) ELSE - min(c, r)
    <2>4. /\ n(1, 1) = min(1, 1) /\ n(1, 2) = - min(2, 1) /\ n(1, 3) = min(3, 1)
          /\ n(2, 1) = - min(1, 2) /\ n(2, 2) = min(2, 2) /\ n(2, 3) = - min(3, 2)
          /\ n(3, 1) = min(1, 3) /\ n(3, 2) = - min(2, 3) /\ n(3, 3) = min(3, 3)
      BY <2>1
    <2>5. \A r, c \in 1 .. 3 : l[r][c] = n(r, c)
      BY <2>3
    <2> HIDE DEF n
    <2> QED  BY <2>4, <2>5
  <1>5. AdjugateIs(k, l)
    <2>1. - (k[1][1] * k[2][3] - k[1][3] * k[2][1]) = k[1][3] * k[2][1] - k[1][1] * k[2][3]
      BY DEF Affine
    <2> QED  BY <1>3, <1>4, <2>1 DEF AdjugateIs
  <1> QED  BY <1>1, <1>5 DEF l

\* The inverse undoes the matrix, but for the determinant.
LEMMA Inverts ==
    ASSUME NEW CONSTANT sites, NEW CONSTANT angles, NEW CONSTANT sizes, NEW k, Affine(k)
    PROVE  Placed(sites, angles, sizes)!Multiply(Placed(sites, angles, sizes)!Adjugate(k), k)
             = [r \in 1 .. 3 |-> [c \in 1 .. 3 |->
                  IF r = c THEN Placed(sites, angles, sizes)!Determinant(k) ELSE 0]]
  <1> DEFINE j == Placed(sites, angles, sizes)!Adjugate(k)
             D == Placed(sites, angles, sizes)!Determinant(k)
             e(r, c) == j[r][1] * k[1][c] + j[r][2] * k[2][c] + j[r][3] * k[3][c]
  <1>1. D = Det(k) /\ Det(k) \in Int /\ AdjugateIs(k, j)
    BY MatrixInverse
  <1>2. Placed(sites, angles, sizes)!Multiply(j, k) = [r \in 1 .. 3 |-> [c \in 1 .. 3 |-> e(r, c)]]
    BY DEF Placed!Multiply
  <1> HIDE DEF j, D
  <1>3. /\ e(1, 1) = Det(k) /\ e(1, 2) = 0 /\ e(1, 3) = 0
        /\ e(2, 1) = 0 /\ e(2, 2) = Det(k) /\ e(2, 3) = 0
        /\ e(3, 1) = 0 /\ e(3, 2) = 0 /\ e(3, 3) = Det(k)
    BY <1>1 DEF AdjugateIs, Affine, Det
  <1> HIDE DEF e
  <1>4. \A r, c \in 1 .. 3 : e(r, c) = IF r = c THEN D ELSE 0
    <2>1. \A r, c \in 1 .. 3 : (r = 1 \/ r = 2 \/ r = 3) /\ (c = 1 \/ c = 2 \/ c = 3)
      OBVIOUS
    <2> QED  BY <1>1, <1>3, <2>1
  <1> QED  BY <1>2, <1>4 DEF j, D

-----------------------------------------------------------------------------
\* A point p that a matrix takes where it is, before the division by the determinant.
TakenIs(k, p, q) ==
    /\ q[1] = k[2][2] * (p[1] - k[1][3]) - k[1][2] * (p[2] - k[2][3])
    /\ q[2] = k[1][1] * (p[2] - k[2][3]) - k[2][1] * (p[1] - k[1][3])

LEMMA Taken ==
    ASSUME NEW CONSTANT sites, NEW CONSTANT angles, NEW CONSTANT sizes, NEW k, Affine(k),
           NEW p, p[1] \in Int, p[2] \in Int
    PROVE  TakenIs(k, p, Placed(sites, angles, sizes)!MultiplyVector2(Placed(sites, angles, sizes)!Adjugate(k), p))
  <1> DEFINE j == Placed(sites, angles, sizes)!Adjugate(k)
             q == Placed(sites, angles, sizes)!MultiplyVector2(j, p)
  <1>1. AdjugateIs(k, j)
    BY MatrixInverse
  <1>2. /\ q[1] = j[1][1] * p[1] + j[1][2] * p[2] + j[1][3]
        /\ q[2] = j[2][1] * p[1] + j[2][2] * p[2] + j[2][3]
    BY DEF Placed!MultiplyVector2
  <1> HIDE DEF j, q
  <1>3. TakenIs(k, p, q)
    BY <1>1, <1>2 DEF AdjugateIs, Affine, TakenIs
  <1> QED  BY <1>3 DEF j, q

\* What is taken by a matrix q and its determinant, taken further by another.
FurtherIs(k, q, d, t) ==
    /\ t[1] = k[2][2] * (q[1] - k[1][3] * d) - k[1][2] * (q[2] - k[2][3] * d)
    /\ t[2] = k[1][1] * (q[2] - k[2][3] * d) - k[2][1] * (q[1] - k[1][3] * d)

LEMMA TakenFurther ==
    ASSUME NEW a \in Int, NEW b \in Int, NEW c \in Int, NEW d \in Int,
           NEW x \in Int, NEW y \in Int, NEW e \in Int, NEW f \in Int, NEW u \in Int, NEW v \in Int
    PROVE  (c * e + d * f) * (x - a * u - b * v) - (a * e + b * f) * (y - c * u - d * v)
             = f * ((d * x - b * y) - u * (a * d - b * c)) - e * ((a * y - c * x) - v * (a * d - b * c))
  OBVIOUS

LEMMA TakenTwice ==
    ASSUME NEW j, NEW k, NEW l, Affine(j), Affine(k), Affine(l), ProductIs(j, k, l),
           NEW p, p[1] \in Int, p[2] \in Int, NEW q, TakenIs(j, p, q), NEW t, TakenIs(l, p, t)
    PROVE  FurtherIs(k, q, Det(j), t) /\ Det(l) = Det(j) * Det(k)
  <1> DEFINE x == p[1] - j[1][3]
             y == p[2] - j[2][3]
  <1>1. /\ j[1][1] \in Int /\ j[1][2] \in Int /\ j[2][1] \in Int /\ j[2][2] \in Int
        /\ k[1][1] \in Int /\ k[1][2] \in Int /\ k[2][1] \in Int /\ k[2][2] \in Int
        /\ k[1][3] \in Int /\ k[2][3] \in Int /\ x \in Int /\ y \in Int
        /\ j[1][3] \in Int /\ j[2][3] \in Int
    BY DEF Affine
  <1>2. Det(l) = Det(j) * Det(k)
    BY <1>1 DEF ProductIs, Det
  <1>3. /\ p[1] - l[1][3] = x - j[1][1] * k[1][3] - j[1][2] * k[2][3]
        /\ p[2] - l[2][3] = y - j[2][1] * k[1][3] - j[2][2] * k[2][3]
    BY <1>1 DEF ProductIs
  <1>4. q[1] = j[2][2] * x - j[1][2] * y /\ q[2] = j[1][1] * y - j[2][1] * x
    BY DEF TakenIs
  <1> HIDE DEF x, y
  <1>5. t[1] = l[2][2] * (x - j[1][1] * k[1][3] - j[1][2] * k[2][3])
               - l[1][2] * (y - j[2][1] * k[1][3] - j[2][2] * k[2][3])
    BY <1>3 DEF TakenIs
  <1>6. t[2] = l[1][1] * (y - j[2][1] * k[1][3] - j[2][2] * k[2][3])
               - l[2][1] * (x - j[1][1] * k[1][3] - j[1][2] * k[2][3])
    BY <1>3 DEF TakenIs
  <1> DEFINE a == j[1][1]
             b == j[1][2]
             c == j[2][1]
             d == j[2][2]
  <1>7. t[1] = k[2][2] * (q[1] - k[1][3] * Det(j)) - k[1][2] * (q[2] - k[2][3] * Det(j))
    BY <1>1, <1>4, <1>5 DEF ProductIs, Det
  <1>8. t[2] = k[1][1] * (q[2] - k[2][3] * Det(j)) - k[2][1] * (q[1] - k[1][3] * Det(j))
    <2>1. l[1][1] = a * k[1][1] + b * k[2][1] /\ l[2][1] = c * k[1][1] + d * k[2][1]
      BY DEF ProductIs
    <2>2. Det(j) = a * d - b * c /\ q[1] = d * x - b * y /\ q[2] = a * y - c * x
      BY <1>4 DEF Det
    <2>3. a \in Int /\ b \in Int /\ c \in Int /\ d \in Int
      BY <1>1
    <2>4. t[2] = l[1][1] * (y - c * k[1][3] - d * k[2][3]) - l[2][1] * (x - a * k[1][3] - b * k[2][3])
      BY <1>6
    <2> HIDE DEF a, b, c, d
    <2>5. (c * k[1][1] + d * k[2][1]) * (x - a * k[1][3] - b * k[2][3])
            - (a * k[1][1] + b * k[2][1]) * (y - c * k[1][3] - d * k[2][3])
          = k[2][1] * ((d * x - b * y) - k[1][3] * (a * d - b * c))
            - k[1][1] * ((a * y - c * x) - k[2][3] * (a * d - b * c))
      BY <1>1, <2>3, TakenFurther
    <2> QED  BY <1>1, <2>1, <2>2, <2>3, <2>4, <2>5
  <1> QED  BY <1>2, <1>7, <1>8 DEF FurtherIs

-----------------------------------------------------------------------------
\* The matrix of an element that is set so.
LocalIs(set, k) ==
    /\ Affine(k) /\ k[1][3] = set[1][1] /\ k[2][3] = set[1][2]
    /\ set[2] = 0 => k[1][1] = set[3][1] /\ k[1][2] = 0 /\ k[2][1] = 0 /\ k[2][2] = set[3][2]
    /\ set[2] = 1 => k[1][1] = 0 /\ k[1][2] = - set[3][2] /\ k[2][1] = set[3][1] /\ k[2][2] = 0
    /\ set[2] = 2 => k[1][1] = - set[3][1] /\ k[1][2] = 0 /\ k[2][1] = 0 /\ k[2][2] = - set[3][2]
    /\ set[2] = 3 => k[1][1] = 0 /\ k[1][2] = set[3][2] /\ k[2][1] = - set[3][1] /\ k[2][2] = 0

Settings == (Int \X Int) \X (0 .. 3) \X (Int \X Int)

\* A point with denominators, and what it is over them all.
Fraction(v) == v[1] \in Int /\ v[2] \in Int /\ v[3] \in Int /\ v[4] \in Int
OverBoth(v, q, d) == q[1] = v[1] * v[4] /\ q[2] = v[3] * v[2] /\ d = v[2] * v[4]

LEMMA SeenFurther ==
    ASSUME NEW CONSTANT sites, NEW CONSTANT angles, NEW CONSTANT sizes,
           NEW set \in Settings, NEW k, LocalIs(set, k),
           NEW v, Fraction(v), NEW q, NEW d, OverBoth(v, q, d), NEW t, FurtherIs(k, q, d, t)
    PROVE  /\ Fraction(Placed(sites, angles, sizes)!Into(set, v))
           /\ OverBoth(Placed(sites, angles, sizes)!Into(set, v), t, d * Det(k))
  <1> DEFINE w == Placed(sites, angles, sizes)!Into(set, v)
             x == set[1][1]
             y == set[1][2]
             f == set[3][1]
             g == set[3][2]
             c1 == v[1] - x * v[2]
             c2 == v[3] - y * v[4]
             u == Placed(sites, angles, sizes)!Unturned(set[2], <<c1, v[2], c2, v[4]>>)
  <1>1. x \in Int /\ y \in Int /\ f \in Int /\ g \in Int /\ set[2] \in 0 .. 3
    BY DEF Settings
  <1>2. /\ v[1] \in Int /\ v[2] \in Int /\ v[3] \in Int /\ v[4] \in Int
        /\ q[1] = v[1] * v[4] /\ q[2] = v[3] * v[2] /\ d = v[2] * v[4]
    BY DEF Fraction, OverBoth
  <1>3. w = <<u[1], u[2] * f, u[3], u[4] * g>>
    BY DEF Placed!Into
  <1>4. c1 \in Int /\ c2 \in Int
    BY <1>1, <1>2
  <1>5. /\ set[2] = 0 => u = <<c1, v[2], c2, v[4]>>
        /\ set[2] = 1 => u = <<c2, v[4], -c1, v[2]>>
        /\ set[2] = 2 => u = <<-c1, v[2], -c2, v[4]>>
        /\ set[2] = 3 => u = <<-c2, v[4], c1, v[2]>>
    BY DEF Placed!Unturned
  <1>6. /\ q[1] - x * d = c1 * v[4] /\ q[2] - y * d = c2 * v[2]
    BY <1>1, <1>2
  <1>7. /\ t[1] = k[2][2] * (q[1] - x * d) - k[1][2] * (q[2] - y * d)
        /\ t[2] = k[1][1] * (q[2] - y * d) - k[2][1] * (q[1] - x * d)
    BY DEF FurtherIs, LocalIs
  <1>8. /\ t[1] = k[2][2] * (c1 * v[4]) - k[1][2] * (c2 * v[2])
        /\ t[2] = k[1][1] * (c2 * v[2]) - k[2][1] * (c1 * v[4])
    BY <1>6, <1>7
  <1> HIDE DEF c1, c2, u, x, y, f, g, w
  <1>9. /\ w[1] = u[1] /\ w[2] = u[2] * f /\ w[3] = u[3] /\ w[4] = u[4] * g
    BY <1>3
  <1>10. CASE set[2] = 0
    <2>1. k[1][1] = f /\ k[1][2] = 0 /\ k[2][1] = 0 /\ k[2][2] = g
      BY <1>10 DEF LocalIs, f, g
    <2>2. w[1] = c1 /\ w[2] = v[2] * f /\ w[3] = c2 /\ w[4] = v[4] * g
      BY <1>5, <1>9, <1>10
    <2>3. t[1] = w[1] * w[4] /\ t[2] = w[3] * w[2] /\ d * Det(k) = w[2] * w[4]
      BY <1>1, <1>2, <1>4, <1>8, <2>1, <2>2 DEF Det
    <2> QED  BY <1>1, <1>2, <1>4, <2>2, <2>3 DEF Fraction, OverBoth, w
  <1>11. CASE set[2] = 1
    <2>1. k[1][1] = 0 /\ k[1][2] = - g /\ k[2][1] = f /\ k[2][2] = 0
      BY <1>11 DEF LocalIs, f, g
    <2>2. w[1] = c2 /\ w[2] = v[4] * f /\ w[3] = - c1 /\ w[4] = v[2] * g
      BY <1>5, <1>9, <1>11
    <2>3. t[1] = w[1] * w[4] /\ t[2] = w[3] * w[2] /\ d * Det(k) = w[2] * w[4]
      BY <1>1, <1>2, <1>4, <1>8, <2>1, <2>2 DEF Det
    <2> QED  BY <1>1, <1>2, <1>4, <2>2, <2>3 DEF Fraction, OverBoth, w
  <1>12. CASE set[2] = 2
    <2>1. k[1][1] = - f /\ k[1][2] = 0 /\ k[2][1] = 0 /\ k[2][2] = - g
      BY <1>12 DEF LocalIs, f, g
    <2>2. w[1] = - c1 /\ w[2] = v[2] * f /\ w[3] = - c2 /\ w[4] = v[4] * g
      BY <1>5, <1>9, <1>12
    <2>3. t[1] = w[1] * w[4] /\ t[2] = w[3] * w[2] /\ d * Det(k) = w[2] * w[4]
      BY <1>1, <1>2, <1>4, <1>8, <2>1, <2>2 DEF Det
    <2> QED  BY <1>1, <1>2, <1>4, <2>2, <2>3 DEF Fraction, OverBoth, w
  <1>13. CASE set[2] = 3
    <2>1. k[1][1] = 0 /\ k[1][2] = g /\ k[2][1] = - f /\ k[2][2] = 0
      BY <1>13 DEF LocalIs, f, g
    <2>2. w[1] = - c2 /\ w[2] = v[4] * f /\ w[3] = c1 /\ w[4] = v[2] * g
      BY <1>5, <1>9, <1>13
    <2>3. t[1] = w[1] * w[4] /\ t[2] = w[3] * w[2] /\ d * Det(k) = w[2] * w[4]
      BY <1>1, <1>2, <1>4, <1>8, <2>1, <2>2 DEF Det
    <2> QED  BY <1>1, <1>2, <1>4, <2>2, <2>3 DEF Fraction, OverBoth, w
  <1> QED  BY <1>1, <1>10, <1>11, <1>12, <1>13

\* What is over both denominators is within half of them exactly if each coordinate is.
LEMMA WithinBoth ==
    ASSUME NEW CONSTANT sites, NEW CONSTANT angles, NEW CONSTANT sizes,
           Half \in Nat \ {0}, NEW v, Fraction(v), NEW q, NEW d, OverBoth(v, q, d)
    PROVE  /\ (d # 0 /\ Placed(sites, angles, sizes)!Size(q[1]) < Half * Placed(sites, angles, sizes)!Size(d)
                     /\ Placed(sites, angles, sizes)!Size(q[2]) < Half * Placed(sites, angles, sizes)!Size(d))
             <=> (/\ Placed(sites, angles, sizes)!Size(v[1]) < Half * Placed(sites, angles, sizes)!Size(v[2])
                  /\ Placed(sites, angles, sizes)!Size(v[3]) < Half * Placed(sites, angles, sizes)!Size(v[4]))
           /\ (d # 0 /\ q[1] * q[1] + q[2] * q[2] < Half * Half * d * d)
             <=> (v[2] # 0 /\ v[4] # 0 /\
                  v[1] * v[1] * v[4] * v[4] + v[3] * v[3] * v[2] * v[2]
                    < Half * Half * v[2] * v[2] * v[4] * v[4])
  <1> DEFINE S(n) == Placed(sites, angles, sizes)!Size(n)
             a == v[1]
             b == v[2]
             c == v[3]
             e == v[4]
  <1>1. a \in Int /\ b \in Int /\ c \in Int /\ e \in Int /\ Half \in Int /\ Half > 0
    BY DEF Fraction
  <1>2. q[1] = a * e /\ q[2] = c * b /\ d = b * e
    BY DEF OverBoth
  <1>3. \A n \in Int : S(n) \in Nat /\ (S(n) = 0 <=> n = 0) /\ S(n) = (IF n < 0 THEN -n ELSE n)
    BY DEF Placed!Size
  <1>4. \A n, o \in Int : S(n * o) = S(n) * S(o)
    <2> HIDE DEF S
    <2> SUFFICES ASSUME NEW n \in Int, NEW o \in Int PROVE S(n * o) = S(n) * S(o)
      OBVIOUS
    <2>1. S(n) = (IF n < 0 THEN -n ELSE n) /\ S(o) = (IF o < 0 THEN -o ELSE o)
      BY <1>3
    <2>2. n * o \in Int /\ S(n * o) = (IF n * o < 0 THEN -(n * o) ELSE n * o)
      BY <1>3
    <2>3. CASE n < 0 /\ o < 0
      <3>1. n * o > 0 /\ (-n) * (-o) = n * o
        BY <2>3
      <3> QED  BY <2>1, <2>2, <2>3, <3>1
    <2>4. CASE n < 0 /\ ~ (o < 0)
      <3>1. n * o <= 0 /\ (-n) * o = -(n * o)
        BY <2>4
      <3> QED  BY <2>1, <2>2, <2>4, <3>1
    <2>5. CASE ~ (n < 0) /\ o < 0
      <3>1. n * o <= 0 /\ n * (-o) = -(n * o)
        BY <2>5
      <3> QED  BY <2>1, <2>2, <2>5, <3>1
    <2>6. CASE ~ (n < 0) /\ ~ (o < 0)
      <3>1. n * o >= 0
        BY <2>6
      <3> QED  BY <2>1, <2>2, <2>6, <3>1
    <2> QED  BY <2>3, <2>4, <2>5, <2>6
  <1>5. d # 0 <=> b # 0 /\ e # 0
    <2>1. d = b * e
      BY <1>2
    <2> HIDE DEF b, e
    <2>2. b = 0 => b * e = 0
      BY <1>1
    <2>3. e = 0 => b * e = 0
      BY <1>1
    <2>4. b > 0 /\ e > 0 => b * e > 0
      BY <1>1
    <2>5. b > 0 /\ e < 0 => b * e < 0
      BY <1>1
    <2>6. b < 0 /\ e > 0 => b * e < 0
      BY <1>1
    <2>7. b < 0 /\ e < 0 => b * e > 0
      BY <1>1
    <2> QED  BY <1>1, <2>1, <2>2, <2>3, <2>4, <2>5, <2>6, <2>7
  <1>6. S(q[1]) = S(a) * S(e) /\ S(q[2]) = S(c) * S(b) /\ S(d) = S(b) * S(e)
    BY <1>1, <1>2, <1>4
  <1> DEFINE A == S(a)
             B == S(b)
             C == S(c)
             E == S(e)
  <1>7. A \in Nat /\ B \in Nat /\ C \in Nat /\ E \in Nat /\ (B = 0 <=> b = 0) /\ (E = 0 <=> e = 0)
    BY <1>1, <1>3
  <1>8. S(q[1]) = A * E /\ S(q[2]) = C * B /\ S(d) = B * E
    BY <1>6
  <1> HIDE DEF S, a, b, c, e, A, B, C, E
  <1>9. (d # 0 /\ S(q[1]) < Half * S(d) /\ S(q[2]) < Half * S(d)) <=> (A < Half * B /\ C < Half * E)
    <2>1. CASE B = 0 \/ E = 0
      <3>1. d = 0
        BY <1>5, <1>7, <2>1
      <3>2. ~ (A < Half * B /\ C < Half * E)
        BY <1>1, <1>7, <2>1
      <3> QED  BY <3>1, <3>2
    <2>2. CASE B # 0 /\ E # 0
      <3>1. d # 0 /\ B > 0 /\ E > 0
        BY <1>5, <1>7, <2>2
      <3>2. A < Half * B <=> A * E < (Half * B) * E
        BY <1>1, <1>7, <3>1
      <3>3. C < Half * E <=> C * B < (Half * E) * B
        BY <1>1, <1>7, <3>1
      <3>4. (Half * B) * E = Half * (B * E) /\ (Half * E) * B = Half * (B * E)
        BY <1>1, <1>7
      <3> QED  BY <1>8, <3>1, <3>2, <3>3, <3>4
    <2> QED  BY <2>1, <2>2
  <1>10. /\ q[1] * q[1] + q[2] * q[2] = a * a * e * e + c * c * b * b
         /\ Half * Half * d * d = Half * Half * b * b * e * e
    BY <1>1, <1>2
  <1>11. (d # 0 /\ q[1] * q[1] + q[2] * q[2] < Half * Half * d * d)
          <=> (b # 0 /\ e # 0 /\ a * a * e * e + c * c * b * b < Half * Half * b * b * e * e)
    BY <1>5, <1>10
  <1> QED  BY <1>9, <1>11 DEF S, a, b, c, e, A, B, C, E

-----------------------------------------------------------------------------
\* The matrix of the last picture an element was in, of what was set then.
PlaceTypes ==
    /\ place \in [1 .. 2 -> Int \X Int] /\ turn \in [1 .. 2 -> 0 .. 3] /\ scale \in [1 .. 2 -> Int \X Int]

WorldIs(e, list, k) ==
    /\ list[1] \in Settings
    /\ e = 1 => LocalIs(list[1], k)
    /\ e = 2 => /\ list[2] \in Settings
                /\ \E j, l : LocalIs(list[1], j) /\ LocalIs(list[2], l) /\ ProductIs(j, l, k)

PlaceShown(e) == shown[e] # <<>> => WorldIs(e, shown[e], world[e])

PlaceInv == /\ PlaceTypes /\ Affine(world[1]) /\ Affine(world[2]) /\ PlaceShown(1) /\ PlaceShown(2)

LEMMA LocalOf ==
    ASSUME NEW CONSTANT sites, NEW CONSTANT angles, NEW CONSTANT sizes, PlaceTypes, NEW e \in 1 .. 2
    PROVE  /\ <<place[e], turn[e], scale[e]>> \in Settings
           /\ LocalIs(<<place[e], turn[e], scale[e]>>, Placed(sites, angles, sizes)!Local(e))
  <1> DEFINE l == Placed(sites, angles, sizes)!Local(e)
             x == place[e]
             q == turn[e]
             s == scale[e]
             cos == Placed(sites, angles, sizes)!Cos(q)
             sin == Placed(sites, angles, sizes)!Sin(q)
  <1>1. x \in Int \X Int /\ s \in Int \X Int /\ q \in 0 .. 3
    BY DEF PlaceTypes
  <1>2. l = <<<<cos * s[1], -sin * s[2], x[1]>>, <<sin * s[1], cos * s[2], x[2]>>, <<0, 0, 1>>>>
    BY DEF Placed!Local
  <1>3. /\ q = 0 => cos = 1 /\ sin = 0
        /\ q = 1 => cos = 0 /\ sin = 1
        /\ q = 2 => cos = -1 /\ sin = 0
        /\ q = 3 => cos = 0 /\ sin = -1
    <2>1. cos = <<1, 0, -1, 0>>[q + 1] /\ sin = <<0, 1, 0, -1>>[q + 1]
      BY DEF Placed!Cos, Placed!Sin
    <2> HIDE DEF cos, sin, q
    <2> QED  BY <2>1
  <1> HIDE DEF l, x, q, s, cos, sin
  <1>4. /\ l[1][1] = cos * s[1] /\ l[1][2] = -sin * s[2] /\ l[1][3] = x[1]
        /\ l[2][1] = sin * s[1] /\ l[2][2] = cos * s[2] /\ l[2][3] = x[2]
        /\ l[3][1] = 0 /\ l[3][2] = 0 /\ l[3][3] = 1
    BY <1>2
  <1>5. s[1] \in Int /\ s[2] \in Int /\ x[1] \in Int /\ x[2] \in Int /\ cos \in Int /\ sin \in Int
        /\ (q = 0 \/ q = 1 \/ q = 2 \/ q = 3)
    BY <1>1, <1>3
  <1>6. Affine(l)
    BY <1>4, <1>5 DEF Affine
  <1>7. /\ q = 0 => l[1][1] = s[1] /\ l[1][2] = 0 /\ l[2][1] = 0 /\ l[2][2] = s[2]
        /\ q = 1 => l[1][1] = 0 /\ l[1][2] = - s[2] /\ l[2][1] = s[1] /\ l[2][2] = 0
        /\ q = 2 => l[1][1] = - s[1] /\ l[1][2] = 0 /\ l[2][1] = 0 /\ l[2][2] = - s[2]
        /\ q = 3 => l[1][1] = 0 /\ l[1][2] = s[2] /\ l[2][1] = - s[1] /\ l[2][2] = 0
    BY <1>3, <1>4, <1>5
  <1> DEFINE set == <<x, q, s>>
  <1>8. set[1] = x /\ set[2] = q /\ set[3] = s /\ set \in Settings
    BY <1>1 DEF Settings
  <1> HIDE DEF set
  <1>9. LocalIs(set, l)
    BY <1>4, <1>6, <1>7, <1>8 DEF LocalIs
  <1> QED  BY <1>8, <1>9 DEF l, x, q, s, set

\* The matrices of a picture, from the scene down.
LEMMA WorldOfIs ==
    ASSUME NEW CONSTANT sites, NEW CONSTANT angles, NEW CONSTANT sizes
    PROVE  /\ Placed(sites, angles, sizes)!WorldOf[1] =
                  Placed(sites, angles, sizes)!Multiply(Placed(sites, angles, sizes)!Identity,
                                                        Placed(sites, angles, sizes)!Local(1))
           /\ Placed(sites, angles, sizes)!WorldOf[2] =
                  Placed(sites, angles, sizes)!Multiply(Placed(sites, angles, sizes)!WorldOf[1],
                                                        Placed(sites, angles, sizes)!Local(2))
  <1> DEFINE M(j, k) == Placed(sites, angles, sizes)!Multiply(j, k)
             L(e) == Placed(sites, angles, sizes)!Local(e)
             I == Placed(sites, angles, sizes)!Identity
             W == Placed(sites, angles, sizes)!WorldOf
             g == [e \in 0 .. 2 |-> IF e = 0 THEN I ELSE IF e = 1 THEN M(I, L(1)) ELSE M(M(I, L(1)), L(2))]
  <1>1. W = CHOOSE f : f = [e \in 0 .. 2 |-> IF e = 0 THEN I ELSE M(f[e - 1], L(e))]
    BY DEF Placed!WorldOf, Placed!Parent
  <1> HIDE DEF W, M, L, I
  <1>2. g = [e \in 0 .. 2 |-> IF e = 0 THEN I ELSE M(g[e - 1], L(e))]
    <2>1. g[0] = I /\ g[1] = M(I, L(1)) /\ g[2] = M(M(I, L(1)), L(2))
      OBVIOUS
    <2>2. \A e \in 0 .. 2 : e = 0 \/ e = 1 \/ e = 2
      OBVIOUS
    <2>3. 1 - 1 = 0 /\ 2 - 1 = 1
      OBVIOUS
    <2>4. \A e \in 0 .. 2 : g[e] = IF e = 0 THEN I ELSE M(g[e - 1], L(e))
      <3> HIDE DEF g
      <3> QED  BY <2>1, <2>2, <2>3
    <2>5. g = [e \in 0 .. 2 |-> g[e]]
      OBVIOUS
    <2> HIDE DEF g
    <2> QED  BY <2>4, <2>5
  <1> HIDE DEF g
  <1>3. W = [e \in 0 .. 2 |-> IF e = 0 THEN I ELSE M(W[e - 1], L(e))]
    BY <1>1, <1>2
  <1>4. W[0] = I /\ W[1] = M(W[1 - 1], L(1)) /\ W[2] = M(W[2 - 1], L(2))
    <2>1. \A e \in 0 .. 2 : W[e] = IF e = 0 THEN I ELSE M(W[e - 1], L(e))
      BY <1>3
    <2> QED  BY <2>1
  <1>5. W[1] = M(I, L(1)) /\ W[2] = M(W[1], L(2))
    <2>1. 1 - 1 = 0 /\ 2 - 1 = 1
      OBVIOUS
    <2> QED  BY <1>4, <2>1
  <1> QED  BY <1>5 DEF W, M, L, I

LEMMA PlaceInit ==
    ASSUME NEW CONSTANT sites, NEW CONSTANT angles, NEW CONSTANT sizes,
           Placed(sites, angles, sizes)!PlacementAssumption, Placed(sites, angles, sizes)!Init
    PROVE  PlaceInv
  <1>1. /\ place \in [1 .. 2 -> sites] /\ turn \in [1 .. 2 -> angles] /\ scale \in [1 .. 2 -> sizes]
        /\ world = [e \in 1 .. 2 |-> Placed(sites, angles, sizes)!Identity] /\ shown = [e \in 1 .. 2 |-> <<>>]
    BY DEF Placed!Init, Placed!Element
  <1>2. PlaceTypes
    BY <1>1 DEF PlaceTypes, Placed!PlacementAssumption
  <1>3. /\ world[1] = Placed(sites, angles, sizes)!Identity /\ world[2] = Placed(sites, angles, sizes)!Identity
        /\ shown[1] = <<>> /\ shown[2] = <<>>
    BY <1>1
  <1>4. Affine(Placed(sites, angles, sizes)!Identity)
    BY DEF Affine, Placed!Identity
  <1> QED  BY <1>2, <1>3, <1>4 DEF PlaceInv, PlaceShown

LEMMA Rendered ==
    ASSUME NEW CONSTANT sites, NEW CONSTANT angles, NEW CONSTANT sizes, PlaceTypes
    PROVE  LET W == Placed(sites, angles, sizes)!WorldOf
               set(e) == <<place[e], turn[e], scale[e]>>
           IN  /\ Affine(W[1]) /\ LocalIs(set(1), W[1]) /\ Affine(W[2])
               /\ \E l : LocalIs(set(2), l) /\ ProductIs(W[1], l, W[2])
  <1> DEFINE W == Placed(sites, angles, sizes)!WorldOf
             I == Placed(sites, angles, sizes)!Identity
             L(e) == Placed(sites, angles, sizes)!Local(e)
             set(e) == <<place[e], turn[e], scale[e]>>
  <1>1. LocalIs(set(1), L(1)) /\ LocalIs(set(2), L(2))
    BY LocalOf
  <1> HIDE DEF set
  <1>2. Affine(L(1)) /\ Affine(L(2))
    BY <1>1 DEF LocalIs
  <1>3. /\ Affine(I) /\ I[1][1] = 1 /\ I[1][2] = 0 /\ I[1][3] = 0
        /\ I[2][1] = 0 /\ I[2][2] = 1 /\ I[2][3] = 0
    BY DEF Affine, Placed!Identity
  <1>4. Affine(W[1]) /\ ProductIs(I, L(1), W[1])
    BY <1>2, <1>3, WorldOfIs, MatrixProduct
  <1>5. Affine(W[2]) /\ ProductIs(W[1], L(2), W[2])
    BY <1>2, <1>4, WorldOfIs, MatrixProduct
  <1> HIDE DEF W, I, L
  <1>6. /\ W[1][1][1] = L(1)[1][1] /\ W[1][1][2] = L(1)[1][2] /\ W[1][1][3] = L(1)[1][3]
        /\ W[1][2][1] = L(1)[2][1] /\ W[1][2][2] = L(1)[2][2] /\ W[1][2][3] = L(1)[2][3]
    BY <1>2, <1>3, <1>4 DEF ProductIs, Affine
  <1>7. LocalIs(set(1), W[1])
    BY <1>1, <1>4, <1>6 DEF LocalIs
  <1> QED  BY <1>1, <1>4, <1>5, <1>7 DEF W, set

LEMMA PlaceStep ==
    ASSUME NEW CONSTANT sites, NEW CONSTANT angles, NEW CONSTANT sizes,
           Placed(sites, angles, sizes)!PlacementAssumption, PlaceInv,
           Placed(sites, angles, sizes)!Next \/ UNCHANGED placementVars
    PROVE  PlaceInv'
  <1>1. /\ PlaceTypes /\ Affine(world[1]) /\ Affine(world[2]) /\ PlaceShown(1) /\ PlaceShown(2)
        /\ sites \subseteq Int \X Int /\ angles \subseteq 0 .. 3 /\ sizes \subseteq Int \X Int
    BY DEF PlaceInv, Placed!PlacementAssumption
  <1>2. ASSUME world' = world, shown' = shown, PlaceTypes' PROVE PlaceInv'
    BY <1>1, <1>2 DEF PlaceInv, PlaceShown, Affine, WorldIs, LocalIs, ProductIs
  <1>3. CASE UNCHANGED placementVars
    <2>1. /\ place' = place /\ turn' = turn /\ scale' = scale /\ world' = world /\ shown' = shown
      BY <1>3 DEF placementVars
    <2>2. PlaceTypes'
      BY <1>1, <2>1 DEF PlaceTypes
    <2> QED  BY <1>2, <2>1, <2>2
  <1>4. ASSUME NEW e \in 1 .. 2, NEW p \in sites, Placed(sites, angles, sizes)!SetPosition(e, p) PROVE PlaceInv'
    <2>1. /\ place' = [place EXCEPT ![e] = p] /\ turn' = turn /\ scale' = scale /\ world' = world /\ shown' = shown
      BY <1>4 DEF Placed!SetPosition, Placed!Set
    <2>2. PlaceTypes'
      <3>1. p \in Int \X Int
        BY <1>1
      <3> QED  BY <1>1, <2>1, <3>1 DEF PlaceTypes
    <2> QED  BY <1>2, <2>1, <2>2
  <1>5. ASSUME NEW e \in 1 .. 2, NEW q \in angles, Placed(sites, angles, sizes)!SetRotation(e, q) PROVE PlaceInv'
    <2>1. /\ place' = place /\ turn' = [turn EXCEPT ![e] = q] /\ scale' = scale /\ world' = world /\ shown' = shown
      BY <1>5 DEF Placed!SetRotation, Placed!Set
    <2>2. PlaceTypes'
      <3>1. q \in 0 .. 3
        BY <1>1
      <3> QED  BY <1>1, <2>1, <3>1 DEF PlaceTypes
    <2> QED  BY <1>2, <2>1, <2>2
  <1>6. ASSUME NEW e \in 1 .. 2, NEW s \in sizes, Placed(sites, angles, sizes)!SetScale(e, s) PROVE PlaceInv'
    <2>1. /\ place' = place /\ turn' = turn /\ scale' = [scale EXCEPT ![e] = s] /\ world' = world /\ shown' = shown
      BY <1>6 DEF Placed!SetScale, Placed!Set
    <2>2. PlaceTypes'
      <3>1. s \in Int \X Int
        BY <1>1
      <3> QED  BY <1>1, <2>1, <3>1 DEF PlaceTypes
    <2> QED  BY <1>2, <2>1, <2>2
  <1>7. ASSUME NEW e \in 1 .. 2, Placed(sites, angles, sizes)!SetVisible(e) PROVE PlaceInv'
    <2>1. /\ place' = place /\ turn' = turn /\ scale' = scale /\ world' = world /\ shown' = shown
      BY <1>7 DEF Placed!SetVisible
    <2>2. PlaceTypes'
      BY <1>1, <2>1 DEF PlaceTypes
    <2> QED  BY <1>2, <2>1, <2>2
  <1>8. CASE Placed(sites, angles, sizes)!Render
    <2> DEFINE W == Placed(sites, angles, sizes)!WorldOf
               set(e) == <<place[e], turn[e], scale[e]>>
               D(e) == \A a \in 1 .. e : visible[a]
    <2>1. /\ place' = place /\ turn' = turn /\ scale' = scale
          /\ world' = [e \in 1 .. 2 |-> IF D(e) THEN W[e] ELSE world[e]]
          /\ shown' = [e \in 1 .. 2 |-> IF D(e) THEN [a \in 1 .. e |-> set(a)] ELSE shown[e]]
      BY <1>8 DEF Placed!Render, Placed!Drawn, Placed!Element
    <2>2. PlaceTypes'
      BY <1>1, <2>1 DEF PlaceTypes
    <2>3. /\ Affine(W[1]) /\ LocalIs(set(1), W[1]) /\ Affine(W[2])
          /\ \E l : LocalIs(set(2), l) /\ ProductIs(W[1], l, W[2])
      BY <1>1, Rendered
    <2>4. set(1) \in Settings /\ set(2) \in Settings
      BY <1>1, LocalOf
    <2> HIDE DEF W, set, D
    <2>5. /\ world'[1] = IF D(1) THEN W[1] ELSE world[1]
          /\ world'[2] = IF D(2) THEN W[2] ELSE world[2]
          /\ shown'[1] = IF D(1) THEN [a \in 1 .. 1 |-> set(a)] ELSE shown[1]
          /\ shown'[2] = IF D(2) THEN [a \in 1 .. 2 |-> set(a)] ELSE shown[2]
      BY <2>1
    <2>6. Affine(world'[1]) /\ Affine(world'[2])
      BY <1>1, <2>3, <2>5
    <2>7. shown'[1] # <<>> => WorldIs(1, shown'[1], world'[1])
      <3>1. CASE D(1)
        <4>1. shown'[1][1] = set(1) /\ world'[1] = W[1]
          BY <2>5, <3>1
        <4> QED  BY <2>3, <2>4, <4>1 DEF WorldIs
      <3>2. CASE ~ D(1)
        BY <1>1, <2>5, <3>2 DEF PlaceShown
      <3> QED  BY <3>1, <3>2
    <2>8. shown'[2] # <<>> => WorldIs(2, shown'[2], world'[2])
      <3>1. CASE D(2)
        <4>1. shown'[2][1] = set(1) /\ shown'[2][2] = set(2) /\ world'[2] = W[2]
          BY <2>5, <3>1
        <4> QED  BY <2>3, <2>4, <4>1 DEF WorldIs
      <3>2. CASE ~ D(2)
        BY <1>1, <2>5, <3>2 DEF PlaceShown
      <3> QED  BY <3>1, <3>2
    <2>9. (Affine(world[1]) /\ Affine(world[2]))'
      BY <2>6 DEF Affine
    <2>10. (PlaceShown(1))' /\ (PlaceShown(2))'
      BY <2>7, <2>8 DEF PlaceShown, WorldIs, LocalIs, ProductIs, Affine, Settings
    <2> QED  BY <2>2, <2>9, <2>10 DEF PlaceInv
  <1> QED  BY <1>3, <1>4, <1>5, <1>6, <1>7, <1>8 DEF Placed!Next, Placed!Element, Placed!Render

\* An element is hit exactly where the last picture shows it.
LEMMA HitsOne ==
    ASSUME NEW CONSTANT sites, NEW CONSTANT angles, NEW CONSTANT sizes, Half \in Nat \ {0},
           PlaceInv, NEW e \in 1 .. 2, shown[e] # <<>>, NEW p \in Int \X Int
    PROVE  /\ Placed(sites, angles, sizes)!HitTestRect(e, p) <=> Placed(sites, angles, sizes)!Covers(e, p)
           /\ Placed(sites, angles, sizes)!HitTestCircle(e, p) <=> Placed(sites, angles, sizes)!CoversRound(e, p)
  <1> DEFINE k == world[e]
             s == shown[e]
             v0 == <<p[1], 1, p[2], 1>>
             v1 == Placed(sites, angles, sizes)!Into(s[1], v0)
             v2 == Placed(sites, angles, sizes)!Into(s[2], v1)
             v == Placed(sites, angles, sizes)!Seen(e, p)
             q == Placed(sites, angles, sizes)!GlobalToLocal(e, p)
             d == Placed(sites, angles, sizes)!Determinant(k)
             Taking(j) == Placed(sites, angles, sizes)!MultiplyVector2(Placed(sites, angles, sizes)!Adjugate(j), p)
  <1>1. p[1] \in Int /\ p[2] \in Int
    OBVIOUS
  <1>2. Affine(k) /\ WorldIs(e, s, k)
    <2>1. e = 1 \/ e = 2
      OBVIOUS
    <2> QED  BY <2>1 DEF PlaceInv, PlaceShown
  <1>3. v = IF e = 1 THEN v1 ELSE v2
    BY DEF Placed!Seen
  <1>4. q = Taking(k)
    BY DEF Placed!GlobalToLocal
  <1>5. \A j : Affine(j) => TakenIs(j, p, Taking(j))
    BY <1>1, Taken
  <1>6. d = Det(k)
    BY <1>2, MatrixInverse
  <1>7. Fraction(v0) /\ OverBoth(v0, p, 1)
    <2>1. v0[1] = p[1] /\ v0[2] = 1 /\ v0[3] = p[2] /\ v0[4] = 1
      OBVIOUS
    <2> HIDE DEF v0
    <2> QED  BY <1>1, <2>1 DEF Fraction, OverBoth
  <1>8. \A j, t : Affine(j) /\ TakenIs(j, p, t) => FurtherIs(j, p, 1, t) /\ 1 * Det(j) = Det(j)
    <2> SUFFICES ASSUME NEW j, NEW t, Affine(j), TakenIs(j, p, t)
                 PROVE  FurtherIs(j, p, 1, t) /\ 1 * Det(j) = Det(j)
      OBVIOUS
    <2>1. j[1][3] * 1 = j[1][3] /\ j[2][3] * 1 = j[2][3]
      BY DEF Affine
    <2>2. FurtherIs(j, p, 1, t)
      BY <2>1 DEF TakenIs, FurtherIs
    <2>3. Det(j) \in Int
      BY DEF Affine, Det
    <2> QED  BY <2>2, <2>3
  <1>9. Fraction(v) /\ OverBoth(v, q, d)
    <2> HIDE DEF q, d, v, k, s, Taking, v0
    <2>1. CASE e = 1
      <3>1. s[1] \in Settings /\ LocalIs(s[1], k)
        BY <1>2, <2>1 DEF WorldIs
      <3>2. FurtherIs(k, p, 1, q) /\ 1 * Det(k) = Det(k)
        BY <1>2, <1>4, <1>5, <1>8
      <3>3. Fraction(v1) /\ OverBoth(v1, q, 1 * Det(k))
        BY <1>7, <3>1, <3>2, SeenFurther
      <3> QED  BY <1>3, <1>6, <2>1, <3>2, <3>3
    <2>2. CASE e = 2
      <3>1. s[1] \in Settings /\ s[2] \in Settings
        BY <1>2, <2>2 DEF WorldIs
      <3>2. PICK j, l : LocalIs(s[1], j) /\ LocalIs(s[2], l) /\ ProductIs(j, l, k)
        BY <1>2, <2>2 DEF WorldIs
      <3>3. Affine(j) /\ Affine(l)
        BY <3>2 DEF LocalIs
      <3>4. FurtherIs(j, p, 1, Taking(j)) /\ 1 * Det(j) = Det(j) /\ TakenIs(j, p, Taking(j))
        BY <1>5, <1>8, <3>3
      <3>5. Fraction(v1) /\ OverBoth(v1, Taking(j), 1 * Det(j))
        BY <1>7, <3>1, <3>2, <3>4, SeenFurther
      <3>6. TakenIs(k, p, q)
        BY <1>2, <1>4, <1>5
      <3>7. FurtherIs(l, Taking(j), Det(j), q) /\ Det(k) = Det(j) * Det(l)
        BY <1>1, <1>2, <3>2, <3>3, <3>4, <3>6, TakenTwice
      <3> HIDE DEF v1
      <3>8. OverBoth(v1, Taking(j), Det(j))
        BY <3>4, <3>5
      <3>9. Fraction(v2) /\ OverBoth(v2, q, Det(j) * Det(l))
        BY <3>1, <3>2, <3>5, <3>7, <3>8, SeenFurther
      <3> QED  BY <1>3, <1>6, <2>2, <3>7, <3>9
    <2> QED  BY <2>1, <2>2
  <1> DEFINE S(n) == Placed(sites, angles, sizes)!Size(n)
  <1>10. /\ (d # 0 /\ S(q[1]) < Half * S(d) /\ S(q[2]) < Half * S(d))
             <=> (S(v[1]) < Half * S(v[2]) /\ S(v[3]) < Half * S(v[4]))
         /\ (d # 0 /\ q[1] * q[1] + q[2] * q[2] < Half * Half * d * d)
             <=> (v[2] # 0 /\ v[4] # 0 /\
                  v[1] * v[1] * v[4] * v[4] + v[3] * v[3] * v[2] * v[2]
                    < Half * Half * v[2] * v[2] * v[4] * v[4])
    <2> HIDE DEF q, d, v
    <2> QED  BY <1>9, WithinBoth
  <1>11. S(d) # 0 <=> d # 0
    <2>1. d \in Int
      BY <1>2, <1>6, MatrixInverse
    <2> HIDE DEF d
    <2> QED  BY <2>1 DEF Placed!Size
  <1>12. Placed(sites, angles, sizes)!HitTestRect(e, p)
           <=> (S(d) # 0 /\ S(q[1]) < Half * S(d) /\ S(q[2]) < Half * S(d))
    BY DEF Placed!HitTestRect
  <1>13. Placed(sites, angles, sizes)!Covers(e, p) <=> (S(v[1]) < Half * S(v[2]) /\ S(v[3]) < Half * S(v[4]))
    BY DEF Placed!Covers
  <1>14. Placed(sites, angles, sizes)!HitTestCircle(e, p)
           <=> (d # 0 /\ q[1] * q[1] + q[2] * q[2] < Half * Half * d * d)
    BY DEF Placed!HitTestCircle
  <1>15. Placed(sites, angles, sizes)!CoversRound(e, p)
           <=> (v[2] # 0 /\ v[4] # 0 /\
                v[1] * v[1] * v[4] * v[4] + v[3] * v[3] * v[2] * v[2]
                  < Half * Half * v[2] * v[2] * v[4] * v[4])
    BY DEF Placed!CoversRound
  <1> HIDE DEF S, d, q, v
  <1> QED  BY <1>10, <1>11, <1>12, <1>13, <1>14, <1>15

LEMMA PlaceGood ==
    ASSUME NEW CONSTANT sites, NEW CONSTANT angles, NEW CONSTANT sizes,
           Placed(sites, angles, sizes)!PlacementAssumption, PlaceInv
    PROVE  Placed(sites, angles, sizes)!HitsWhatIsShown /\ Placed(sites, angles, sizes)!InverseInverts
  <1>1. Half \in Nat \ {0} /\ \A p \in Coordinates \X Coordinates : p \in Int \X Int
    BY DEF Placed!PlacementAssumption
  <1>2. Placed(sites, angles, sizes)!HitsWhatIsShown
    BY <1>1, HitsOne DEF Placed!HitsWhatIsShown, Placed!Element
  <1>3. Placed(sites, angles, sizes)!InverseInverts
    <2>1. \A e \in 1 .. 2 : Affine(world[e])
      <3>1. \A e \in 1 .. 2 : e = 1 \/ e = 2
        OBVIOUS
      <3> QED  BY <3>1 DEF PlaceInv
    <2> QED  BY <2>1, Inverts DEF Placed!InverseInverts, Placed!Element
  <1> QED  BY <1>2, <1>3

\* Of any places, quarter turns and whole scales, and any points: a pointer hits exactly
\* what the last picture shows under it, wherever the element and its parent have been
\* moved, turned, scaled or hidden since, and the inverse of a matrix undoes it
\* (phina.js:7795, 2640).
THEOREM HitsAlwaysPicture == InputSpec => []HitsPicture
  <1> DEFINE Inv == part = "placement" \/ part = "turns" => PlaceInv
  <1>1. /\ Placed(Sites, Angles, Sizes)!PlacementAssumption
        /\ Placed(OneSite, OtherAngles, OtherSizes)!PlacementAssumption
    BY PlacesAssumption
  <1>2. InputInit => Inv
    <2>1. ASSUME InputInit, part = "placement" PROVE PlaceInv
      <3>1. Placed(Sites, Angles, Sizes)!Init
        BY <2>1 DEF InputInit
      <3> QED  BY <1>1, <3>1, PlaceInit
    <2>2. ASSUME InputInit, part = "turns" PROVE PlaceInv
      <3>1. Placed(OneSite, OtherAngles, OtherSizes)!Init
        BY <2>2 DEF InputInit
      <3> QED  BY <1>1, <3>1, PlaceInit
    <2> QED  BY <2>1, <2>2
  <1>3. Inv /\ [InputNext]_inputVars => Inv'
    <2> SUFFICES ASSUME Inv, [InputNext]_inputVars PROVE Inv'
      OBVIOUS
    <2>1. part' = part
      BY DEF InputNext, inputVars
    <2>2. ASSUME part = "placement" PROVE PlaceInv'
      <3>1. Placed(Sites, Angles, Sizes)!Next \/ UNCHANGED placementVars
        BY <2>2 DEF InputNext, inputVars
      <3>2. PlaceInv
        BY <2>2
      <3> QED  BY <1>1, <3>1, <3>2, PlaceStep
    <2>3. ASSUME part = "turns" PROVE PlaceInv'
      <3>1. Placed(OneSite, OtherAngles, OtherSizes)!Next \/ UNCHANGED placementVars
        BY <2>3 DEF InputNext, inputVars
      <3>2. PlaceInv
        BY <2>3
      <3> QED  BY <1>1, <3>1, <3>2, PlaceStep
    <2> QED  BY <2>1, <2>2, <2>3
  <1>4. Inv => HitsPicture
    <2>1. ASSUME PlaceInv
          PROVE  /\ Placed(Sites, Angles, Sizes)!HitsWhatIsShown
                 /\ Placed(Sites, Angles, Sizes)!InverseInverts
                 /\ Placed(OneSite, OtherAngles, OtherSizes)!HitsWhatIsShown
                 /\ Placed(OneSite, OtherAngles, OtherSizes)!InverseInverts
      BY <1>1, <2>1, PlaceGood
    <2> QED  BY <2>1 DEF HitsPicture
  <1> QED  BY <1>2, <1>3, <1>4, PTL DEF InputSpec
=============================================================================
