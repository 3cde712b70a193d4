----------------------------- MODULE XaosDriver -----------------------------
(***************************************************************************)
(* The Native Client driver of xaos (nacl-ui-driver): ppapi.c and          *)
(* ui_nacl.c.  The main thread takes the callbacks of the browser; the     *)
(* thread of xaos draws, shows what it has drawn and asks for events.      *)
(*                                                                         *)
(* A frame is a number, and a picture two halves that are copied one after *)
(* the other.                                                              *)
(***************************************************************************)
EXTENDS Integers, FiniteSetsExt

CONSTANTS MaxEvents,   \* kMaxEvents
          MaxFrames,   \* bound: frames drawn
          MaxInputs    \* bound: input events

ASSUME XaosAssumption == MaxEvents \in Nat \ {0} /\ MaxFrames \in Nat /\ MaxInputs \in Nat

Button == {0, 1}       \* those that the driver accepts are 0 to 2
Event  == [type : {"down", "up"}, button : Button] \cup [type : {"move"}, to : {1, 2}]

VARIABLES
    EventQueue,    \* tail, num, and the queue itself
    Video,         \* dirty, flush_mutex, image_data
    main,          \* what the main thread is in the middle of
    timer,         \* whether ScreenUpdateCallback is scheduled
    flush,         \* how far a Flush is in the browser
    screen,        \* what the user sees
    xaos,          \* where the thread of xaos is
    buffers, current_buffer,
    mouse,         \* mousebuttons and the position, as xaos knows them
    hand,          \* history: the buttons and the position as they are
    posted, lost   \* history: the number of events, and whether any were lost

video == <<Video, main, timer, flush, screen>>
drawn == <<buffers, current_buffer>>
input == <<EventQueue, mouse, hand, posted, lost>>
driver == <<video, xaos, drawn, input>>

Whole(frame) == <<frame, frame>>
Pressed(buttons, event) ==
    CASE event.type = "down" -> buttons \cup {event.button}
      [] event.type = "up"   -> buttons \ {event.button}
      [] OTHER               -> buttons
Apply(m, event) ==
    [buttons |-> Pressed(m.buttons, event), at |-> IF event.type = "move" THEN event.to ELSE m.at]

\* The first time: the screen, the timer and the thread of xaos.
DidChangeView ==
    /\ EventQueue = [tail |-> 0, num |-> 0, queue |-> [i \in 0 .. MaxEvents - 1 |-> 0]]
    /\ Video = [dirty |-> FALSE, flush_mutex |-> "free", image_data |-> Whole(0)]
    /\ main = "idle" /\ timer = TRUE /\ flush = "no" /\ screen = Whole(0)
    /\ xaos = "run"
    /\ buffers = <<0, 0>> /\ current_buffer = 1
    /\ mouse = [buttons |-> {}, at |-> 0] /\ hand = mouse /\ posted = 0 /\ lost = FALSE

-----------------------------------------------------------------------------
(* The main thread.                                                        *)

ScreenUpdateCallbackFun ==
    /\ main = "idle" /\ timer
    /\ IF Video.dirty THEN main' = "lock" /\ timer' = FALSE ELSE UNCHANGED <<main, timer>>
    /\ UNCHANGED <<Video, flush, screen, xaos, drawn, input>>

\* A defect: the mutex is not kept for the time of the flush.
PaintAndForget ==
    /\ main = "lock" /\ Video.flush_mutex = "free"
    /\ main' = "idle" /\ flush' = "begun"
    /\ UNCHANGED <<Video, timer, screen, xaos, drawn, input>>

\* The picture belongs to the browser, and the mutex stays locked, until the
\* flush is done.
PaintAndFlush ==
    /\ main = "lock" /\ Video.flush_mutex = "free"
    /\ Video' = [Video EXCEPT !.flush_mutex = "main"]
    /\ main' = "idle" /\ flush' = "begun"
    /\ UNCHANGED <<timer, screen, xaos, drawn, input>>

\* The browser may read one half of the picture long before the other.
FlushReads ==
    /\ flush = "begun"
    /\ flush' = "half" /\ screen' = [screen EXCEPT ![1] = Video.image_data[1]]
    /\ UNCHANGED <<Video, main, timer, xaos, drawn, input>>

FlushCallbackFun ==
    /\ main = "idle" /\ flush = "half"
    /\ screen' = [screen EXCEPT ![2] = Video.image_data[2]]
    /\ flush' = "no" /\ timer' = TRUE
    /\ Video' = [Video EXCEPT !.dirty = FALSE, !.flush_mutex = "free"]
    /\ UNCHANGED <<main, xaos, drawn, input>>

\* A refresh is forced.
DidChangeFocus ==
    /\ main = "idle"
    /\ Video' = [Video EXCEPT !.dirty = TRUE]
    /\ UNCHANGED <<main, timer, flush, screen, xaos, drawn, input>>

\* A queue that becomes full counts as empty: its events are lost.
Push(q, event) ==
    IF q.num >= MaxEvents THEN q
    ELSE [q EXCEPT !.queue[(q.tail + q.num) % MaxEvents] = event,
                   !.num = IF q.num + 1 >= MaxEvents THEN q.num + 1 - MaxEvents ELSE q.num + 1]

\* A defect: the thread that waits is not signalled.
HandleQuietly(event) ==
    /\ main = "idle" /\ posted < MaxInputs
    /\ EventQueue' = Push(EventQueue, event)
    /\ posted' = posted + 1 /\ hand' = Apply(hand, event)
    /\ lost' = (lost \/ EventQueue'.num # EventQueue.num + 1)
    /\ UNCHANGED <<video, xaos, drawn, mouse>>

HandleInputEvent(event) ==
    /\ main = "idle" /\ posted < MaxInputs
    /\ EventQueue' = Push(EventQueue, event)
    /\ xaos' = IF xaos = "asleep" THEN "awake" ELSE xaos
    /\ posted' = posted + 1 /\ hand' = Apply(hand, event)
    /\ lost' = (lost \/ EventQueue'.num # EventQueue.num + 1)
    /\ UNCHANGED <<video, drawn, mouse>>

-----------------------------------------------------------------------------
(* The thread of xaos.                                                     *)

\* It draws in the buffer that is not shown, and turns the buffers over.
DrawAndFlip ==
    LET next == Max({buffers[1], buffers[2]}) + 1
    IN  /\ xaos = "run" /\ next <= MaxFrames
        /\ buffers' = [buffers EXCEPT ![3 - current_buffer] = next]
        /\ current_buffer' = 3 - current_buffer
        /\ UNCHANGED <<video, xaos, input>>

\* nacl_display.
CopyImageDataToVideo ==
    /\ xaos = "run" /\ Video.flush_mutex = "free"
    /\ Video' = [Video EXCEPT !.flush_mutex = "xaos", !.dirty = TRUE]
    /\ xaos' = "copy"
    /\ UNCHANGED <<main, timer, flush, screen, drawn, input>>

CopyHalf ==
    /\ xaos = "copy" /\ Video.image_data[1] # buffers[current_buffer]
    /\ Video' = [Video EXCEPT !.image_data[1] = buffers[current_buffer]]
    /\ UNCHANGED <<main, timer, flush, screen, xaos, drawn, input>>

CopyRest ==
    /\ xaos = "copy" /\ Video.image_data[1] = buffers[current_buffer]
    /\ Video' = [Video EXCEPT !.image_data[2] = buffers[current_buffer], !.flush_mutex = "free"]
    /\ xaos' = "run"
    /\ UNCHANGED <<main, timer, flush, screen, drawn, input>>

\* The event of the queue's tail, if there is one.
Take ==
    /\ xaos' = "run"
    /\ IF EventQueue.num = 0 THEN UNCHANGED <<EventQueue, mouse>>
       ELSE /\ EventQueue' = [EventQueue EXCEPT !.tail = (@ + 1) % MaxEvents, !.num = @ - 1]
            /\ mouse' = Apply(mouse, EventQueue.queue[EventQueue.tail])
    /\ UNCHANGED <<video, drawn, hand, posted, lost>>

\* nacl_processevents with GetEvent.
ProcessEvents(wait) ==
    /\ xaos = "run"
    /\ IF wait /\ EventQueue.num = 0
       THEN xaos' = "asleep" /\ UNCHANGED <<video, drawn, input>>
       ELSE Take

\* Signalled, or for no reason: the wait is not repeated.
Woken ==
    /\ xaos \in {"asleep", "awake"}
    /\ Take

Browser == FlushReads \/ FlushCallbackFun
Main    == ScreenUpdateCallbackFun \/ PaintAndFlush
Copying == CopyHalf \/ CopyRest
Run ==
    \/ Main \/ Browser \/ DidChangeFocus
    \/ \E event \in Event : HandleInputEvent(event)
    \/ DrawAndFlip \/ CopyImageDataToVideo \/ Copying
    \/ \E wait \in BOOLEAN : ProcessEvents(wait)
    \/ Woken

DriverSpec == DidChangeView /\ [][Run]_driver

\* The browser calls back, and the threads are scheduled.
FairSpec ==
    /\ DriverSpec /\ WF_driver(ScreenUpdateCallbackFun) /\ SF_driver(PaintAndFlush)
    /\ WF_driver(FlushReads) /\ WF_driver(FlushCallbackFun) /\ WF_driver(Copying)

-----------------------------------------------------------------------------
TypeOK ==
    /\ EventQueue.tail \in 0 .. MaxEvents - 1 /\ EventQueue.num \in 0 .. MaxEvents - 1
    /\ main \in {"idle", "lock"} /\ flush \in {"no", "begun", "half"}
    /\ xaos \in {"run", "copy", "asleep", "awake"}
    /\ Video.flush_mutex \in {"free", "main", "xaos"}

\* The mouse as xaos will know it when it has taken n more events.
Expected[n \in 0 .. EventQueue.num] ==
    IF n = 0 THEN mouse
    ELSE Apply(Expected[n - 1], EventQueue.queue[(EventQueue.tail + n - 1) % MaxEvents])

\* What xaos knows of the mouse, with the events it has not taken, is how the
\* mouse is, unless the queue has been full; and it does not sleep over an event
\* (HandleInputEvent, GetEvent, nacl_processevents).
MouseFollows ==
    /\ ~lost => Expected[EventQueue.num] = hand
    /\ xaos = "asleep" => EventQueue.num = 0

\* The user sees every frame that was copied, or one after it, in the end, and
\* whole (CopyImageDataToVideo, ScreenUpdateCallbackFun, FlushCallbackFun).
FramesAreShown ==
    \A f \in 1 .. MaxFrames :
        Video.image_data = Whole(f) ~> screen[1] = screen[2] /\ screen[2] >= f
=============================================================================
