---------------------------- MODULE NotificationBar ----------------------------
(***************************************************************************)
(* The bar that shows one notice after the other                           *)
(* (components/NotificationBar.tsx).  Socket events put notices into a     *)
(* queue held in a ref; a counter in the state, tick, is raised to have    *)
(* React render and then run the effect that takes the next one.  Between  *)
(* raising it, the render, and the effect other events may come in.  A     *)
(* notice is a number: the order in which its event arrived.               *)
(***************************************************************************)
EXTENDS Integers, Sequences

CONSTANTS
  MaxNotices,  \* bound: events of a session
  MaxHides     \* bound: hides that wait for their 350 ms at a time

ASSUME NoticeBound == MaxNotices \in Nat /\ MaxHides \in Nat

VARIABLES
  attached,  \* the socket exists and is listened to
  arrived,   \* events so far
  queue,     \* queueRef
  busy,      \* busyRef
  shown,     \* the notice shown, NoNotice
  visible,   \* it has slid in
  tick,      \* "still", "raised" in the state, "rendered" with the effect to run
  timers,    \* of the running effect: "mount" (20 ms) and "hide" (4520 ms)
  hides,     \* hides whose 350 ms are not over
  outrun  \* for the properties: tick was raised between render and effect

barVars == <<attached, arrived, queue, busy, shown, visible, tick, timers, hides, outrun>>

NoNotice == 0
BarInit ==
  /\ attached = FALSE /\ arrived = 0
  /\ queue = <<>> /\ busy = FALSE /\ shown = NoNotice /\ visible = FALSE
  /\ tick = "still" /\ timers = {} /\ hides = 0 /\ outrun = FALSE

\* tryAttach, now or from the poll.
AttachBar ==
  /\ ~attached /\ attached' = TRUE
  /\ UNCHANGED <<arrived, queue, busy, shown, visible, tick, timers, hides, outrun>>

\* The layout is left; what its timers still do reaches no component.
LeaveLayout ==
  /\ attached /\ attached' = FALSE
  /\ queue' = <<>> /\ busy' = FALSE /\ shown' = NoNotice /\ visible' = FALSE
  /\ tick' = "still" /\ timers' = {} /\ hides' = 0 /\ outrun' = FALSE
  /\ UNCHANGED arrived

\* setTick(k => k + 1): renders collapse.
RaiseTick ==
  /\ tick' = IF tick = "still" THEN "raised" ELSE IF tick = "rendered" THEN "both" ELSE tick
  /\ outrun' = (outrun \/ tick \in {"rendered", "both"})

BarIsFree == ~busy

\* enqueue, of an event that concerns the role.
Enqueue ==
  /\ attached /\ arrived < MaxNotices
  /\ arrived' = arrived + 1
  /\ queue' = Append(queue, arrived')
  /\ IF BarIsFree THEN RaiseTick ELSE UNCHANGED <<tick, outrun>>
  /\ UNCHANGED <<attached, busy, shown, visible, timers, hides>>

\* React renders; effects of an earlier render have run by then.
RenderBar ==
  /\ tick = "raised" /\ tick' = "rendered"
  /\ UNCHANGED <<attached, arrived, queue, busy, shown, visible, timers, hides, outrun>>

\* Cleanup of the last effect, then the next notice, if the bar is free.
RunEffect ==
  /\ tick \in {"rendered", "both"}
  /\ tick' = IF tick = "both" THEN "raised" ELSE "still"
  /\ IF busy \/ queue = <<>>
     THEN timers' = {} /\ UNCHANGED <<queue, busy, shown>>
     ELSE /\ shown' = Head(queue) /\ queue' = Tail(queue)
          /\ busy' = TRUE
          /\ timers' = {"mount", "hide"}
  /\ UNCHANGED <<attached, arrived, visible, hides, outrun>>

SlideIn ==
  /\ "mount" \in timers
  /\ timers' = timers \ {"mount"} /\ visible' = TRUE
  /\ UNCHANGED <<attached, arrived, queue, busy, shown, tick, hides, outrun>>

Hide ==
  /\ timers' = timers \ {"hide"}
  /\ visible' = FALSE
  /\ hides' = hides + 1
  /\ UNCHANGED <<attached, arrived, queue, busy, shown, tick, outrun>>

\* 4520 ms are over: longer than the slide and than any hide before.
TimeIsUp == timers = {"hide"} /\ hides = 0 /\ Hide

\* The close button of a bar that is on the screen or sliding out.
Close == shown # NoNotice /\ (visible \/ hides > 0) /\ hides < MaxHides /\ Hide

\* Fault: the end of a hide only frees the bar.
NobodyWaits == FALSE
OthersWait == queue # <<>>

\* 350 ms after a hide.
HideEnds ==
  /\ hides > 0 /\ hides' = hides - 1
  /\ shown' = NoNotice /\ busy' = FALSE
  /\ IF OthersWait THEN RaiseTick ELSE UNCHANGED <<tick, outrun>>
  /\ UNCHANGED <<attached, arrived, queue, visible, timers>>

BarNext ==
  \/ AttachBar \/ LeaveLayout \/ Enqueue \/ RenderBar \/ RunEffect
  \/ SlideIn \/ TimeIsUp \/ Close \/ HideEnds

\* Timers fire and React renders what is raised.
BarFairness ==
  /\ WF_barVars(RenderBar) /\ WF_barVars(RunEffect)
  /\ WF_barVars(SlideIn) /\ WF_barVars(TimeIsUp) /\ WF_barVars(HideEnds)

-----------------------------------------------------------------------------
\* Every notice is shown in the end, unless the layout is left or the counter
\* was raised between a render and its effect.
QueueDrains == queue # <<>> ~> (queue = <<>> \/ outrun)
===============================================================================
