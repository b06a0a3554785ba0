----------------------------- MODULE PaddleKeys -----------------------------
(***************************************************************************)
(* How the keys and the touch buttons of a court become the direction of a *)
(* paddle, in the three pages that play: the rooms client (RoomsHub.tsx),  *)
(* the V4 arena (Arena.tsx) and the independent arcade                     *)
(* (IndependentHub.tsx).  Each keeps the set of the keys it saw go down.   *)
(*                                                                         *)
(* A keyboard event names the key by its character, so the same physical   *)
(* key is "w" or, with Shift down, "W".  A physical key is 1 (up) or 2     *)
(* (down); its character is the key with the state of Shift.               *)
(***************************************************************************)
EXTENDS Integers

CONSTANTS Pages,     \* the pages to play in: a subset of {"rooms", "arena", "independent"}
          Shifted,   \* the pages in which the player also uses Shift
          MaxEvent   \* keyboard, touch and window events in one behaviour

VARIABLES
  hand,   \* what the player's hands and the window really do
  court,  \* may the paddle be moved, is a dialog over the court
  page    \* the page's set of pressed characters and its direction

vars == <<hand, court, page>>
Physical == {1, 2}
Chars == [key : Physical, shift : BOOLEAN]

Init ==
  /\ hand = [held |-> {}, shift |-> FALSE, finger |-> 0, focus |-> TRUE, events |-> 0]
  /\ court = [playable |-> TRUE, dialog |-> FALSE]
  /\ \E p \in Pages : page = [of |-> p, pressed |-> {}, direction |-> 0]

Event(h) == hand.events < MaxEvent /\ hand' = [h EXCEPT !.events = @ + 1]

-----------------------------------------------------------------------------
(***************************************************************************)
(* The page.                                                               *)
(***************************************************************************)
\* The character a page keeps for a key: two of them tell w from W.
Named(key) ==
  [key |-> key, shift |-> IF page.of = "independent" THEN FALSE ELSE hand.shift]

\* rooms listens to w and s only; the others to both cases.
Listens(c) == page.of = "rooms" => ~c.shift

Toward(pressed) ==
  IF \E c \in pressed : c.key = 1 THEN -1 ELSE IF \E c \in pressed : c.key = 2 THEN 1 ELSE 0

\* keydown counts while the paddle is the player's and no dialog is open.
Down(c) ==
  IF Listens(c) /\ court.playable /\ ~court.dialog
  THEN page' = [page EXCEPT !.pressed = @ \cup {c}, !.direction = Toward(page.pressed \cup {c})]
  ELSE UNCHANGED page

\* keyup releases the key even when the paddle may not be moved.
Up(c) ==
  IF ~Listens(c) THEN UNCHANGED page
  ELSE page' = [page EXCEPT
         !.pressed = @ \ {c},
         !.direction = IF page.of # "arena" /\ (~court.playable \/ court.dialog) THEN 0
                       ELSE Toward(page.pressed \ {c})]

\* blur, an overlay, a hidden tab, an opened dialog: everything is released.
Released == [page EXCEPT !.pressed = {}, !.direction = 0]

-----------------------------------------------------------------------------
(***************************************************************************)
(* The player and the window.                                              *)
(***************************************************************************)
Press(key) ==
  /\ hand.focus /\ Event([hand EXCEPT !.held = @ \cup {key}])
  /\ Down(Named(key))
  /\ UNCHANGED court

Release(key) ==
  /\ key \in hand.held /\ Event([hand EXCEPT !.held = @ \ {key}])
  /\ IF hand.focus THEN Up(Named(key)) ELSE UNCHANGED page
  /\ UNCHANGED court

Shift ==
  /\ page.of \in Shifted /\ Event([hand EXCEPT !.shift = ~@])
  /\ UNCHANGED <<court, page>>

\* The touch buttons: shown enabled while the paddle may be moved.
Touch(d) ==
  /\ hand.focus /\ hand.finger = 0 /\ court.playable /\ ~court.dialog
  /\ Event([hand EXCEPT !.finger = d])
  /\ page' = [page EXCEPT !.direction = d] /\ UNCHANGED court
Lift ==
  /\ hand.finger # 0 /\ Event([hand EXCEPT !.finger = 0])
  /\ page' = [page EXCEPT !.direction = 0] /\ UNCHANGED court

\* The window loses the focus, with whatever is held; it comes back.
Blur ==
  /\ Event([hand EXCEPT !.focus = ~@])
  /\ page' = IF hand.focus THEN Released ELSE page
  /\ UNCHANGED court

\* A dialog opens over the court, or closes.
Dialog ==
  /\ Event(hand)
  /\ court' = [court EXCEPT !.dialog = ~@]
  /\ page' = IF court.dialog THEN page ELSE Released

\* The paddle is taken from the player (a command to confirm, a point), and
\* given back.  A stopped lane turns the direction of the rooms page off, and
\* the independent page starts over with no key.
Playable ==
  /\ Event(hand)
  /\ court' = [court EXCEPT !.playable = ~@]
  /\ page' \in CASE page.of = "independent" -> {Released}
                 [] page.of = "rooms" -> {page, [page EXCEPT !.direction = 0]}
                 [] OTHER -> {page}

Next ==
  \/ \E key \in Physical : Press(key) \/ Release(key)
  \/ Shift \/ Lift \/ Blur \/ Dialog \/ Playable
  \/ \E d \in {-1, 1} : Touch(d)

Spec == Init /\ [][Next]_vars

-----------------------------------------------------------------------------
(***************************************************************************)
(* Properties.                                                             *)
(***************************************************************************)
\* The paddle's intention comes from a key that is really held or a finger
\* that is really down, and no key that was let go masks a later direction:
\* what the page remembers is held (RoomsHub.tsx:807, Arena.tsx:625,
\* IndependentHub.tsx:199).
DirectionIsHeld ==
  hand.focus =>
    /\ \A c \in page.pressed : c.key \in hand.held
    /\ page.direction = -1 => 1 \in hand.held \/ hand.finger = -1
    /\ page.direction = 1 => 2 \in hand.held \/ hand.finger = 1
=============================================================================
