------------------------------ MODULE SdlServer ------------------------------
(***************************************************************************)
(* The driver that makes an X server of the kdrive family run on SDL       *)
(* (ports/xorg-server/sdl.c): its screen, how the screen is rotated while  *)
(* the server runs, what is drawn of it, and the input of the browser.     *)
(*                                                                         *)
(* A rotation is a number of quarter turns and a reflection.  A screen     *)
(* state joins the three structures of the code: driver (surface, randr,   *)
(* shadow), screen (its size and its frame buffer) and pScreen (what the   *)
(* clients see).  Whether memory is found is given with a call; the blocks *)
(* that are found are numbered.                                            *)
(***************************************************************************)
EXTENDS Integers, Sequences, SequencesExt, FiniteSets, FiniteSetsExt

CONSTANTS NumRects,  \* NUMRECTS
          Buttons    \* pi->nButtons

Upright == [turn |-> 0, reflect |-> FALSE]
NoFrame == [where |-> "none", id |-> 0, w |-> 0, h |-> 0]
Sideways(randr) == randr.turn \in {1, 3}
Swap(size) == <<size[2], size[1]>>

\* KdAddRotation and KdSubRotation of kdrive.
AddRotation(one, other) ==
    [turn |-> (one.turn + other.turn) % 4, reflect |-> one.reflect # other.reflect]
SubRotation(one, other) ==
    [turn |-> (one.turn - other.turn) % 4, reflect |-> one.reflect # other.reflect]

-----------------------------------------------------------------------------
(* The screen.                                                             *)

\* The pointer's matrix is computed in any case, for the size the screen had.
sdlMapFramebuffer(s, memory) ==
    LET surface == [where |-> "surface", id |-> 0, w |-> s.surface[1], h |-> s.surface[2]]
        w == IF Sideways(s.randr) THEN s.surface[2] ELSE s.surface[1]
        h == IF Sideways(s.randr) THEN s.surface[1] ELSE s.surface[2]
        mapped == [s EXCEPT !.shadow = (s.randr # Upright), !.matrix = <<s.randr, s.size>>,
                            !.size = s.surface]
    IN  IF s.randr = Upright
        THEN [ok |-> TRUE, s |-> [mapped EXCEPT !.frame = surface]]
        ELSE IF memory
        THEN [ok |-> TRUE, s |-> [mapped EXCEPT !.blocks = @ + 1, !.frame =
                                     [where |-> "memory", id |-> s.blocks, w |-> w, h |-> h]]]
        ELSE [ok |-> FALSE, s |-> mapped]

\* KdShadowFbFree: only memory is given back.
sdlUnmapFramebuffer(s) == IF s.frame.where = "memory" THEN [s EXCEPT !.frame = NoFrame] ELSE s

sdlSetScreenSizes(s) ==
    IF Sideways(s.randr) THEN [s EXCEPT !.seen = Swap(s.surface), !.mm = Swap(s.sizeMm)]
    ELSE [s EXCEPT !.seen = s.surface, !.mm = s.sizeMm]

\* The surface has the size that was asked for, or 640 by 480 if none was; kdrive
\* then takes the size of the screen over, with its sides exchanged.  Without a mode
\* of SDL (SDL_SetVideoMode gives NULL) there is no server.
sdlScreenInit(asked, sizeMm, randr, mode, memory) ==
    LET size == IF 0 \in {asked[1], asked[2]} THEN <<640, 480>> ELSE asked
        s    == [surface |-> size, size |-> size, sizeMm |-> sizeMm, base |-> randr, randr |-> randr,
                 shadow |-> FALSE, frame |-> NoFrame, matrix |-> <<randr, size>>,
                 seen |-> size, mm |-> sizeMm, updates |-> FALSE, header |-> NoFrame, blocks |-> 0]
        r    == sdlMapFramebuffer(s, memory)
    IN  IF mode THEN [r EXCEPT !.s = [sdlSetScreenSizes(r.s) EXCEPT !.header = r.s.frame]]
        ELSE [ok |-> FALSE, s |-> s]

\* kdrive is made to call sdlShadowUpdate, shadow or not.
sdlCreateRes(s) == [s EXCEPT !.updates = TRUE]

\* What is asked of RandR: the size of the screen and how it is turned now.
sdlRandRGetInfo(s) == [size |-> s.size, mm |-> s.sizeMm, randr |-> SubRotation(s.randr, s.base)]

\* Memory is asked for up to two times: for the new screen, and for the old one
\* again.  Then the size that pScreen gets is the one screen had.
sdlRandRSetConfig(s, randr, memory) ==
    LET turned == [s EXCEPT !.randr = AddRotation(s.base, randr)]
        r      == sdlMapFramebuffer(sdlUnmapFramebuffer(turned), memory[1])
        sized  == sdlSetScreenSizes(sdlCreateRes([r.s EXCEPT !.updates = FALSE]))
        back   == [sdlUnmapFramebuffer(r.s) EXCEPT !.randr = s.randr, !.shadow = s.shadow]
        again  == sdlMapFramebuffer(back, memory[2]).s
    IN  IF r.ok THEN [ok |-> TRUE, s |-> [sized EXCEPT !.header = sized.frame]]
        ELSE [ok |-> FALSE, s |-> [again EXCEPT !.seen = s.size, !.mm = s.mm]]

-----------------------------------------------------------------------------
(* What is drawn.                                                          *)

Pixels(r) == (r.x1 .. r.x2 - 1) \X (r.y1 .. r.y2 - 1)
Extents(rects) ==
    IF rects = <<>> THEN [x1 |-> 0, y1 |-> 0, x2 |-> 0, y2 |-> 0]
    ELSE LET Of(v(_)) == {v(rects[i]) : i \in DOMAIN rects}
         IN  [x1 |-> Min(Of(LAMBDA r : r.x1)), y1 |-> Min(Of(LAMBDA r : r.y1)),
              x2 |-> Max(Of(LAMBDA r : r.x2)), y2 |-> Max(Of(LAMBDA r : r.y2))]

\* The pixels of the surface that are brought to the browser.  The area of all of
\* the damage is counted once for every rectangle.
sdlShadowUpdate(s, rects) ==
    LET e      == Extents(rects)
        pixels == Len(rects) * (e.x2 - e.x1) * (e.y2 - e.y1)
    IN  IF Len(rects) > NumRects \/ pixels * 3 > s.surface[1] * s.surface[2]
        THEN (0 .. s.surface[1] - 1) \X (0 .. s.surface[2] - 1)
        ELSE UNION {Pixels(rects[i]) : i \in DOMAIN rects}

-----------------------------------------------------------------------------
(* The input.  What X is told: the pointer, with the buttons, and keys.    *)

Undo == "undo"
CtrlZ == <<[key |-> "ctrl", up |-> FALSE], [key |-> "z", up |-> FALSE],
           [key |-> "z", up |-> TRUE], [key |-> "ctrl", up |-> TRUE]>>

Quiet == [buttons |-> {}, pressure |-> 0, pointer |-> <<>>, keys |-> <<>>]
Told(s) == [s EXCEPT !.pointer = Append(@, [buttons |-> s.buttons, pressure |-> s.pressure])]

\* A defect: the pressure of the pen is only kept.
PollLazily(s, e) ==
    CASE e.type = "motion" -> Told(s)
      [] e.type = "down"   -> Told([s EXCEPT !.buttons = @ \cup {e.button}])
      [] e.type = "up"     -> Told([s EXCEPT !.buttons = @ \ {e.button},
                                             !.pressure = IF e.button = 1 THEN 0 ELSE @])
      [] e.type = "key"    -> [s EXCEPT !.keys = @ \o (IF e.key # Undo
                                THEN <<[key |-> e.key, up |-> e.up]>> ELSE IF e.up THEN CtrlZ ELSE <<>>)]
      [] e.type = "axis"   -> [s EXCEPT !.pressure = e.value]

\* One event of SDL.  A pen that is not down is not told.
Poll(s, e) ==
    CASE e.type = "motion" -> Told(s)
      [] e.type = "down"   -> Told([s EXCEPT !.buttons = @ \cup {e.button}])
      [] e.type = "up"     -> Told([s EXCEPT !.buttons = @ \ {e.button},
                                             !.pressure = IF e.button = 1 THEN 0 ELSE @])
      [] e.type = "key" /\ e.key = Undo -> [s EXCEPT !.keys = @ \o (IF e.up THEN CtrlZ ELSE <<>>)]
      [] e.type = "key" /\ e.key # Undo -> [s EXCEPT !.keys = Append(@, [key |-> e.key, up |-> e.up])]
      [] e.type = "axis" /\ e.value = s.pressure -> s
      [] e.type = "axis" /\ e.value # s.pressure ->
            LET pen == [s EXCEPT !.pressure = e.value] IN IF 1 \in s.buttons THEN Told(pen) ELSE pen

sdlPollInput(s, events) == FoldLeft(Poll, s, events)

-----------------------------------------------------------------------------
\* A screen that was turned has the rotation that was asked for, and its size,
\* its frame buffer and the pixmap of its root agree, with memory of its own
\* unless it is upright; a turn that fails leaves an upright screen as it was
\* (sdlRandRSetConfig).
ScreenAgrees(s) ==
    /\ s.header = s.frame /\ <<s.frame.w, s.frame.h>> = s.seen /\ s.size = s.surface
    /\ s.seen = IF Sideways(s.randr) THEN Swap(s.surface) ELSE s.surface
    /\ s.mm = IF Sideways(s.randr) THEN Swap(s.sizeMm) ELSE s.sizeMm
    /\ s.frame.where = IF s.randr = Upright THEN "surface" ELSE "memory"
    /\ s.shadow = (s.randr # Upright) /\ s.matrix = <<s.randr, s.surface>>

TurnsAreWhole(asked, sizeMm, base, mode, turns) ==
    LET start == sdlScreenInit(asked, sizeMm, base, mode, TRUE)
        After(n) == FoldLeft(LAMBDA s, t : sdlRandRSetConfig(s, t.randr, t.memory).s,
                             sdlCreateRes(start.s), SubSeq(turns, 1, n))
    IN  start.ok =>
        /\ ScreenAgrees(start.s)
        /\ \A n \in DOMAIN turns :
              LET old == After(n - 1)
                  r   == sdlRandRSetConfig(old, turns[n].randr, turns[n].memory)
              IN  /\ r.ok => /\ ScreenAgrees(r.s) /\ r.s.updates
                             /\ sdlRandRGetInfo(r.s).randr = turns[n].randr
                  /\ ~r.ok /\ ScreenAgrees(old) /\ old.randr = Upright => r.s = old

\* Everything that changed of an upright screen is brought to the browser
\* (sdlShadowUpdate).
DamageIsShown(asked, sizeMm, rects) ==
    UNION {Pixels(rects[i]) : i \in DOMAIN rects}
        \subseteq sdlShadowUpdate(sdlScreenInit(asked, sizeMm, Upright, TRUE, TRUE).s, rects)

\* After any events X believes those buttons to be down that are down, the last
\* it heard of a pen that draws is its pressure, and it got the keys in their
\* order, an undo as Ctrl-Z when it is let go (sdlPollInput).
InputIsFollowed(events) ==
    LET s == sdlPollInput(Quiet, events)
        Latest(P(_)) == Max({0} \cup {i \in DOMAIN events : P(events[i])})
        Down(b) == LET i == Latest(LAMBDA e : e.type \in {"up", "down"} /\ e.button = b)
                   IN  i # 0 /\ events[i].type = "down"
        axis  == Latest(LAMBDA e : e.type = "axis")
        lift  == Latest(LAMBDA e : e.type = "up" /\ e.button = 1)
        keys  == SelectSeq(events, LAMBDA e : e.type = "key" /\ (e.key # Undo \/ e.up))
    IN  /\ \A b \in 1..Buttons :
              Down(b) <=> s.pointer # <<>> /\ b \in s.pointer[Len(s.pointer)].buttons
        /\ Down(1) => s.pointer[Len(s.pointer)].pressure = IF axis > lift THEN events[axis].value ELSE 0
        /\ s.keys = FlattenSeq([i \in DOMAIN keys |-> IF keys[i].key = Undo THEN CtrlZ
                                                     ELSE <<[key |-> keys[i].key, up |-> keys[i].up]>>])
=============================================================================
