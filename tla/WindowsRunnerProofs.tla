------------------------ MODULE WindowsRunnerProofs ------------------------
(***************************************************************************)
(* Proofs about WindowsRunner, for any number of requests to close.        *)
(***************************************************************************)
EXTENDS WindowsRunner, SequenceTheorems, TLAPS

-----------------------------------------------------------------------------
(***************************************************************************)
(* The call stack: wWinMain is at its bottom and nowhere else, and every   *)
(* other frame lies on a function that calls it.                           *)
(***************************************************************************)
MainFrames == {"create", "getWindowClass", "createWindow", "onCreate", "setCallback",
               "forceRedraw", "setQuitOnClose", "loop", "return", "exited"}

DestroyFrames == {"destroy", "destroyHandle", "unregister"}

MayLieOn(g, f) ==
  \/ g \in DestroyFrames /\ f \in {"getWindowClass", "exited", "postQuit"}
  \/ g = "clearHandle" /\ f = "exited"
  \/ g = "windowGone" /\ f \in {"loop", "clearHandle"}
  \/ g \in {"wmDestroy", "postQuit"} /\ f = "windowGone"

Main == stack[1]
On(f) == \E i \in 1..Len(stack) : stack[i] = f

Nested ==
  /\ stack \in Seq(Frames) /\ Len(stack) >= 1 /\ Main \in MainFrames
  /\ \A i \in 2..Len(stack) : MayLieOn(stack[i], stack[i - 1])

Typed ==
  /\ handle \in BOOLEAN /\ quitOnClose \in BOOLEAN
  /\ engine \in [pending : BOOLEAN, drawn : BOOLEAN, callback : BOOLEAN, due : BOOLEAN]
  /\ system \in [class : BOOLEAN, window : {"none", "alive", "dying"},
                 closes : Nat, quit : BOOLEAN, com : BOOLEAN]

(***************************************************************************)
(* The handle: null before CreateWindow and once WM_DESTROY was handled,   *)
(* and never null while the window is there for the user.                  *)
(***************************************************************************)
HandleFollowsWindow ==
  /\ Main \in {"create", "getWindowClass", "createWindow"} => ~handle
  /\ On("postQuit") \/ Top \in {"windowGone", "unregister"} => ~handle
  /\ system.window = "alive" => handle

(***************************************************************************)
(* The window is being destroyed exactly while DestroyWindow runs, and     *)
(* what follows DestroyWindow finds no window.                             *)
(***************************************************************************)
WindowFollowsCalls ==
  /\ system.window = "dying" <=> On("windowGone")
  /\ Top \in {"onCreate", "setCallback", "forceRedraw", "setQuitOnClose"} =>
       system.window = "alive"
  /\ Top = "clearHandle" \/ (Top = "unregister" /\ Main = "exited") =>
       (system.window = "none" \/ On("windowGone"))
  /\ system.window # "alive" => system.closes = 0

(***************************************************************************)
(* The controller: dropped by the first Destroy of a destruction, and the  *)
(* engine has frames only while there is one.                              *)
(***************************************************************************)
ControllerFollowsCalls ==
  /\ Top \in {"destroyHandle", "clearHandle", "unregister", "postQuit", "windowGone"}
       => controller = "none"
  /\ Top \in {"setCallback", "forceRedraw"} => controller = "good"
  /\ controller = "none" => engine = NoFrames
  /\ controller # "none" => system.window # "none"

\* What QuitIsPosted and ShowIsComing below rest on, and NothingLeft with regard to COM.
ProgressInv ==
  /\ Main = "loop" => quitOnClose
  /\ Main \in {"create", "getWindowClass", "createWindow", "onCreate", "setCallback",
              "forceRedraw", "setQuitOnClose"} => ~quitOnClose
  /\ Main \in {"return", "exited"} /\ quitOnClose => ~system.com
  /\ Main = "loop" /\ (Top = "windowGone" \/ system.window = "none") => system.quit
  /\ controller = "good" => engine.pending \/ engine.drawn
  /\ Top = "forceRedraw" => engine.callback \/ engine.due
  /\ Top \in {"setQuitOnClose", "loop"} /\ controller = "good" =>
       shown \/ engine.due \/ (engine.callback /\ engine.pending)

RunnerInv ==
  /\ Nested /\ Typed
  /\ HandleFollowsWindow /\ WindowFollowsCalls /\ ControllerFollowsCalls
  /\ count = IF Main = "exited" THEN 0 ELSE 1
  /\ ~twice
  /\ NothingLeft /\ ProgressInv

(***************************************************************************)
(* Without a window, the message loop has been told to end, and nothing is *)
(* left that would keep it from taking WM_QUIT.                            *)
(***************************************************************************)
QuitIsPosted ==
  Top = "loop" /\ system.window = "none" =>
    system.quit /\ system.closes = 0 /\ ~engine.due

(***************************************************************************)
(* In the message loop, a window with an engine that was not shown yet     *)
(* has its callback posted, or set with a frame to come.                   *)
(***************************************************************************)
ShowIsComing ==
  Top = "loop" /\ controller = "good" =>
    shown \/ engine.due \/ (engine.callback /\ engine.pending)

(***************************************************************************)
(* Destroy, DestroyWindow and WM_DESTROY call each other at most once.     *)
(***************************************************************************)
DepthIsBounded == Len(stack) <= 5

-----------------------------------------------------------------------------
\* What the stack's shape says of its top, and what the three operations on it do.

LEMMA TopOfStack ==
  ASSUME Nested
  PROVE  /\ Len(stack) \in Nat /\ Len(stack) >= 1 /\ Top \in Frames
         /\ On(Top) /\ On(Main)
         /\ Top \in MainFrames => Len(stack) = 1 /\ Main = Top
         /\ Top \notin MainFrames =>
              /\ Len(stack) > 1 /\ On(stack[Len(stack) - 1])
              /\ MayLieOn(Top, stack[Len(stack) - 1])
<1>1. Len(stack) \in Nat /\ Len(stack) >= 1 /\ \A i \in 1..Len(stack) : stack[i] \in Frames
  BY DEF Nested
<1>2. Len(stack) \in 1..Len(stack) /\ 1 \in 1..Len(stack)
  BY <1>1
<1>3. CASE Len(stack) = 1
  BY <1>1, <1>2, <1>3, Zenon DEF Nested, Top, Main, On
<1>4. CASE Len(stack) > 1
  <2>1. Len(stack) \in 2..Len(stack) /\ Len(stack) - 1 \in 1..Len(stack)
    BY <1>1, <1>4
  <2>2. MayLieOn(Top, stack[Len(stack) - 1])
    BY <2>1 DEF Nested, Top
  <2>3. Top \notin MainFrames
    BY <2>2 DEF MayLieOn, MainFrames, DestroyFrames
  <2> QED BY <1>1, <1>2, <1>4, <2>1, <2>2, <2>3, Zenon DEF Top, Main, On
<1>5. Len(stack) = 1 \/ Len(stack) > 1
  BY <1>1
<1> QED BY <1>3, <1>4, <1>5, Zenon

\* wWinMain's frames and those of Destroy have one place each.
LEMMA Places ==
  ASSUME Nested
  PROVE  /\ DepthIsBounded
         /\ \A i \in 1..Len(stack) :
              /\ stack[i] \in MainFrames => i = 1
              /\ stack[i] = "clearHandle" => i = 2 /\ Main = "exited"
              /\ stack[i] = "windowGone" =>
                   (i = 2 /\ Main = "loop") \/ (i = 3 /\ Main = "exited")
<1>1. Len(stack) \in Nat /\ Len(stack) >= 1
  BY DEF Nested
<1>2. \A i \in 2..Len(stack) : MayLieOn(stack[i], stack[i - 1])
  BY DEF Nested
<1>3. \A i \in 1..Len(stack) : stack[i] \in MainFrames => i = 1
  BY <1>1, <1>2 DEF MayLieOn, MainFrames, DestroyFrames
<1>4. \A i \in 1..Len(stack) : stack[i] = "clearHandle" => i = 2 /\ Main = "exited"
  BY <1>1, <1>2, <1>3 DEF MayLieOn, MainFrames, DestroyFrames, Main, Nested
<1>5. \A i \in 1..Len(stack) : stack[i] = "windowGone" =>
        (i = 2 /\ Main = "loop") \/ (i = 3 /\ Main = "exited")
  BY <1>1, <1>2, <1>3, <1>4 DEF MayLieOn, MainFrames, DestroyFrames, Main, Nested
<1>6. \A i \in 1..Len(stack) : stack[i] \in {"wmDestroy", "postQuit"} => i <= 4
  BY <1>1, <1>2, <1>3, <1>5 DEF MayLieOn, MainFrames, DestroyFrames, Main, Nested
<1>7. \A i \in 1..Len(stack) : stack[i] \in DestroyFrames => i <= 5
  BY <1>1, <1>2, <1>3, <1>6 DEF MayLieOn, MainFrames, DestroyFrames, Main, Nested
<1>8. Len(stack) <= 5
  <2>1. Len(stack) \in 1..Len(stack) /\ (Len(stack) >= 2 => Len(stack) \in 2..Len(stack))
    BY <1>1
  <2> QED BY <1>1, <1>2, <1>3, <1>4, <1>5, <1>6, <1>7, <2>1 DEF MayLieOn
<1> QED BY <1>3, <1>4, <1>5, <1>8 DEF DepthIsBounded

LEMMA GoesOn ==
  ASSUME Nested, NEW next \in Frames, GoOn(next),
         IF Len(stack) = 1 THEN next \in MainFrames
                           ELSE MayLieOn(next, stack[Len(stack) - 1])
  PROVE  /\ Nested' /\ Top' = next /\ Len(stack') = Len(stack)
         /\ Main' = IF Len(stack) = 1 THEN next ELSE Main
         /\ \A f : f # next => (On(f)' <=> On(f) /\ \E i \in 1..(Len(stack) - 1) : stack[i] = f)
         /\ \A f : f # next /\ f # Top => (On(f)' <=> On(f))
<1>1. Len(stack) \in Nat /\ Len(stack) >= 1 /\ \A i \in 1..Len(stack) : stack[i] \in Frames
  BY DEF Nested
<1>2. /\ stack' \in Seq(Frames) /\ Len(stack') = Len(stack)
      /\ \A i \in 1..(Len(stack) - 1) : stack'[i] = stack[i]
      /\ stack'[Len(stack)] = next
  <2>1. stack \in Seq(Frames)
    BY DEF Nested
  <2> QED BY <1>1, <2>1 DEF GoOn
<1>3. Top' = next /\ Main' = IF Len(stack) = 1 THEN next ELSE Main
  BY <1>1, <1>2 DEF Top, Main
<1>4. Nested'
  <2>1. \A i \in 2..Len(stack) : MayLieOn(stack'[i], stack'[i - 1])
    <3> SUFFICES ASSUME NEW i \in 2..Len(stack) PROVE MayLieOn(stack'[i], stack'[i - 1])
      OBVIOUS
    <3>1. stack'[i - 1] = stack[i - 1] /\ MayLieOn(stack[i], stack[i - 1])
      BY <1>1, <1>2 DEF Nested
    <3>2. CASE i < Len(stack)
      <4>1. stack'[i] = stack[i]
        BY <1>1, <1>2, <3>2
      <4> QED BY <3>1, <4>1, Zenon
    <3>3. CASE i = Len(stack)
      <4>1. Len(stack) # 1
        BY <3>3
      <4> QED BY <1>2, <3>1, <3>3, <4>1, Zenon
    <3> QED BY <1>1, <3>2, <3>3
  <2>2. Main' \in MainFrames
    BY <1>3 DEF Nested
  <2> QED BY <1>1, <1>2, <2>1, <2>2, Zenon DEF Nested
<1>5. \A f : f # next => (On(f)' <=> \E i \in 1..(Len(stack) - 1) : stack[i] = f)
  BY <1>1, <1>2 DEF On
<1>6. \A f : (\E i \in 1..(Len(stack) - 1) : stack[i] = f) => On(f)
  BY <1>1 DEF On
<1>7. \A f : f # Top /\ On(f) => \E i \in 1..(Len(stack) - 1) : stack[i] = f
  BY <1>1 DEF On, Top
<1> QED BY <1>2, <1>3, <1>4, <1>5, <1>6, <1>7

LEMMA Calls ==
  ASSUME Nested, NEW next \in Frames, NEW f \in Frames, Call(f, next),
         MayLieOn(f, next),
         IF Len(stack) = 1 THEN next \in MainFrames
                           ELSE MayLieOn(next, stack[Len(stack) - 1])
  PROVE  /\ Nested' /\ Top' = f /\ Len(stack') = Len(stack) + 1
         /\ Main' = IF Len(stack) = 1 THEN next ELSE Main
         /\ \A g : g # f /\ g # next /\ g # Top => (On(g)' <=> On(g))
<1> DEFINE s == [stack EXCEPT ![Len(stack)] = next]
<1>1. Len(stack) \in Nat /\ Len(stack) >= 1 /\ \A i \in 1..Len(stack) : stack[i] \in Frames
  BY DEF Nested
<1>2. /\ s \in Seq(Frames) /\ Len(s) = Len(stack)
      /\ \A i \in 1..(Len(stack) - 1) : s[i] = stack[i]
      /\ s[Len(stack)] = next
  <2>1. stack \in Seq(Frames)
    BY DEF Nested
  <2> QED BY <1>1, <2>1
<1>3. stack' = Append(s, f)
  BY DEF Call
<1> HIDE DEF s
<1>4. /\ stack' \in Seq(Frames) /\ Len(stack') = Len(stack) + 1
      /\ \A i \in 1..(Len(stack) - 1) : stack'[i] = stack[i]
      /\ stack'[Len(stack)] = next
      /\ stack'[Len(stack) + 1] = f
  BY <1>1, <1>2, <1>3
<1>5. Top' = f /\ Main' = IF Len(stack) = 1 THEN next ELSE Main
  <2>1. Top' = f
    BY <1>4, Zenon DEF Top
  <2>2. CASE Len(stack) = 1
    <3>1. stack'[1] = next
      BY <1>4, <2>2
    <3> QED BY <2>1, <2>2, <3>1 DEF Main
  <2>3. CASE Len(stack) # 1
    <3>1. 1 \in 1..(Len(stack) - 1)
      BY <1>1, <2>3
    <3>2. stack'[1] = stack[1]
      BY <1>4, <3>1, Zenon
    <3> QED BY <2>1, <2>3, <3>2 DEF Main
  <2> QED BY <2>2, <2>3, Zenon
<1>6. Nested'
  <2>1. \A i \in 2..(Len(stack) + 1) : MayLieOn(stack'[i], stack'[i - 1])
    <3> SUFFICES ASSUME NEW i \in 2..(Len(stack) + 1)
                 PROVE  MayLieOn(stack'[i], stack'[i - 1])
      OBVIOUS
    <3>1. CASE i < Len(stack)
      <4>1. stack'[i] = stack[i] /\ stack'[i - 1] = stack[i - 1]
        BY <1>1, <1>4, <3>1
      <4>2. MayLieOn(stack[i], stack[i - 1])
        BY <1>1, <3>1 DEF Nested
      <4> QED BY <4>1, <4>2, Zenon
    <3>2. CASE i = Len(stack)
      <4>1. Len(stack) # 1 /\ stack'[i - 1] = stack[i - 1]
        BY <1>1, <1>4, <3>2
      <4> QED BY <1>4, <3>2, <4>1, Zenon
    <3>3. CASE i = Len(stack) + 1
      <4>1. i - 1 = Len(stack)
        BY <1>1, <3>3
      <4> QED BY <1>4, <3>3, <4>1, Zenon
    <3> QED BY <1>1, <3>1, <3>2, <3>3
  <2>2. Main' \in MainFrames
    BY <1>5 DEF Nested
  <2>3. Len(stack') >= 1
    BY <1>1, <1>4
  <2> QED BY <1>4, <2>1, <2>2, <2>3, Zenon DEF Nested
<1>7. \A g : g # f /\ g # next /\ g # Top => (On(g)' <=> On(g))
  BY <1>1, <1>4 DEF On, Top
<1> QED BY <1>4, <1>5, <1>6, <1>7

LEMMA DestroysWindow ==
  ASSUME Nested, Typed, NEW next \in {"loop", "clearHandle"}, DestroyWindow(next),
         IF Len(stack) = 1 THEN next = "loop"
                           ELSE MayLieOn(next, stack[Len(stack) - 1])
  PROVE  /\ Nested' /\ Top' = "wmDestroy" /\ Main' = IF Len(stack) = 1 THEN next ELSE Main
         /\ On("windowGone")' /\ (On("postQuit")' => On("postQuit"))
         /\ system' \in [class : BOOLEAN, window : {"none", "alive", "dying"},
                         closes : Nat, quit : BOOLEAN, com : BOOLEAN]
         /\ system'.window = "dying" /\ system'.closes = 0 /\ system'.com = system.com
<1> DEFINE s == [stack EXCEPT ![Len(stack)] = next]
<1>1. Len(stack) \in Nat /\ Len(stack) >= 1 /\ \A i \in 1..Len(stack) : stack[i] \in Frames
  BY DEF Nested
<1>2. /\ s \in Seq(Frames) /\ Len(s) = Len(stack)
      /\ \A i \in 1..(Len(stack) - 1) : s[i] = stack[i]
      /\ s[Len(stack)] = next
  <2>1. stack \in Seq(Frames) /\ next \in Frames
    BY DEF Nested, Frames
  <2> QED BY <1>1, <2>1
<1>3. stack' = s \o <<"windowGone", "wmDestroy">>
  BY DEF DestroyWindow
<1> HIDE DEF s
<1>4. /\ stack' \in Seq(Frames) /\ Len(stack') = Len(stack) + 2
      /\ \A i \in 1..(Len(stack) - 1) : stack'[i] = stack[i]
      /\ stack'[Len(stack)] = next
      /\ stack'[Len(stack) + 1] = "windowGone"
      /\ stack'[Len(stack) + 2] = "wmDestroy"
  <2>1. <<"windowGone", "wmDestroy">> \in Seq(Frames)
    BY DEF Frames
  <2> QED BY <1>1, <1>2, <1>3, <2>1
<1>5. Top' = "wmDestroy" /\ Main' = IF Len(stack) = 1 THEN next ELSE Main
  <2>1. Top' = "wmDestroy"
    BY <1>4, Zenon DEF Top
  <2>2. CASE Len(stack) = 1
    <3>1. stack'[1] = next
      BY <1>4, <2>2
    <3> QED BY <2>1, <2>2, <3>1 DEF Main
  <2>3. CASE Len(stack) # 1
    <3>1. 1 \in 1..(Len(stack) - 1)
      BY <1>1, <2>3
    <3>2. stack'[1] = stack[1]
      BY <1>4, <3>1, Zenon
    <3> QED BY <2>1, <2>3, <3>2 DEF Main
  <2> QED BY <2>2, <2>3, Zenon
<1>6. Nested'
  <2>1. \A i \in 2..(Len(stack) + 2) : MayLieOn(stack'[i], stack'[i - 1])
    <3> SUFFICES ASSUME NEW i \in 2..(Len(stack) + 2)
                 PROVE  MayLieOn(stack'[i], stack'[i - 1])
      OBVIOUS
    <3>1. CASE i < Len(stack)
      <4>1. stack'[i] = stack[i] /\ stack'[i - 1] = stack[i - 1]
        BY <1>1, <1>4, <3>1
      <4>2. MayLieOn(stack[i], stack[i - 1])
        BY <1>1, <3>1 DEF Nested
      <4> QED BY <4>1, <4>2, Zenon
    <3>2. CASE i = Len(stack)
      <4>1. Len(stack) # 1 /\ stack'[i - 1] = stack[i - 1]
        BY <1>1, <1>4, <3>2
      <4> QED BY <1>4, <3>2, <4>1, Zenon
    <3>3. CASE i \in {Len(stack) + 1, Len(stack) + 2}
      <4>1. \/ stack'[i] = "windowGone" /\ stack'[i - 1] = next
            \/ stack'[i] = "wmDestroy" /\ stack'[i - 1] = "windowGone"
        BY <1>1, <1>4, <3>3
      <4> QED BY <4>1 DEF MayLieOn
    <3> QED BY <1>1, <3>1, <3>2, <3>3
  <2>2. Main' \in MainFrames
    BY <1>5 DEF Nested, MainFrames
  <2>3. Len(stack') >= 1
    BY <1>1, <1>4
  <2> QED BY <1>4, <2>1, <2>2, <2>3, Zenon DEF Nested
<1>7. On("windowGone")' /\ (On("postQuit")' => On("postQuit"))
  BY <1>1, <1>4 DEF On
<1>8. /\ system' \in [class : BOOLEAN, window : {"none", "alive", "dying"},
                      closes : Nat, quit : BOOLEAN, com : BOOLEAN]
      /\ system'.window = "dying" /\ system'.closes = 0 /\ system'.com = system.com
  BY DEF DestroyWindow, Typed
<1> QED BY <1>5, <1>6, <1>7, <1>8, Zenon

LEMMA GoesBack ==
  ASSUME Nested, Len(stack) > 1, Back
  PROVE  /\ Nested' /\ Top' = stack[Len(stack) - 1] /\ Len(stack') = Len(stack) - 1
         /\ Main' = Main /\ (On(Top') /\ MayLieOn(Top, Top'))
         /\ \A f : On(f)' <=> \E i \in 1..(Len(stack) - 1) : stack[i] = f
         /\ \A f : On(f)' => On(f)
         /\ \A f : f # Top => (On(f)' <=> On(f))
<1>1. Len(stack) \in Nat /\ Len(stack) >= 1 /\ \A i \in 1..Len(stack) : stack[i] \in Frames
  BY DEF Nested
<1>2. /\ stack' \in Seq(Frames) /\ Len(stack') = Len(stack) - 1
      /\ \A i \in 1..(Len(stack) - 1) : stack'[i] = stack[i]
  <2>1. stack \in Seq(Frames)
    BY DEF Nested
  <2> QED BY <1>1, <2>1 DEF Back
<1>3. Top' = stack[Len(stack) - 1] /\ Main' = Main
  BY <1>1, <1>2 DEF Top, Main
<1>4. Nested'
  BY <1>1, <1>2, <1>3 DEF Nested, Main
<1>5. \A f : On(f)' <=> \E i \in 1..(Len(stack) - 1) : stack[i] = f
  BY <1>1, <1>2 DEF On
<1>6. \A f : (\E i \in 1..(Len(stack) - 1) : stack[i] = f) => On(f)
  BY <1>1 DEF On
<1>7. \A f : f # Top /\ On(f) => \E i \in 1..(Len(stack) - 1) : stack[i] = f
  BY <1>1 DEF On, Top
<1>8. On(Top') /\ MayLieOn(Top, Top')
  BY <1>1, <1>3 DEF On, Nested, Top
<1> QED BY <1>2, <1>3, <1>4, <1>5, <1>6, <1>7, <1>8

LEMMA MainGoesOn ==
  ASSUME Nested, Top \in MainFrames, NEW next \in MainFrames, GoOn(next)
  PROVE  /\ Len(stack) = 1 /\ Main = Top /\ \A f : On(f) <=> f = Top
         /\ Nested' /\ Top' = next /\ Main' = next /\ \A f : On(f)' <=> f = next
<1>1. Len(stack) = 1 /\ Main = Top /\ On(Top)
  BY TopOfStack
<1>2. \A f : On(f) <=> f = Top
  BY <1>1 DEF On, Top
<1>3. next \in Frames
  BY DEF MainFrames, Frames
<1>4. Nested' /\ Top' = next /\ Main' = next /\ Len(stack') = 1
  BY <1>1, <1>3, GoesOn
<1>5. \A f : On(f)' <=> f = next
  BY <1>4 DEF On, Top
<1> QED BY <1>1, <1>2, <1>4, <1>5

-----------------------------------------------------------------------------
\* Each step keeps the invariant.

LEMMA GetWindowClassKeeps ==
  ASSUME RunnerInv, GetWindowClass
  PROVE  RunnerInv'
<1>1. GoOn("createWindow") /\ Top = "getWindowClass" /\ Nested
  BY DEF GetWindowClass, RunnerInv
<1>2. /\ Len(stack) = 1 /\ Main = Top /\ \A f : On(f) <=> f = Top
      /\ Nested' /\ Top' = "createWindow" /\ Main' = "createWindow" /\ \A f : On(f)' <=> f = "createWindow"
  BY <1>1, MainGoesOn DEF MainFrames
<1>3. Typed' /\ system'.window = system.window /\ system'.closes = system.closes /\ system'.com = system.com
  BY DEF GetWindowClass, RunnerInv, Typed
<1> QED BY <1>1, <1>2, <1>3
        DEF RunnerInv, HandleFollowsWindow, WindowFollowsCalls, ControllerFollowsCalls,
            ProgressInv, NothingLeft, Exited, GetWindowClass

LEMMA CreateWindowKeeps ==
  ASSUME RunnerInv, CreateWindow
  PROVE  RunnerInv'
<1>1. PICK next \in {"onCreate", "return"} :
        /\ GoOn(next)
        /\ IF next = "onCreate"
           THEN handle' = TRUE /\ system' = [system EXCEPT !.window = "alive"]
           ELSE handle' \in BOOLEAN /\ UNCHANGED system
  BY DEF CreateWindow
<1>2. /\ Top = "createWindow" /\ Nested
      /\ UNCHANGED <<count, registered, quitOnClose, controller, engine, shown, twice>>
  BY DEF CreateWindow, RunnerInv
<1>3. /\ Len(stack) = 1 /\ Main = Top /\ \A f : On(f) <=> f = Top
      /\ Nested' /\ Top' = next /\ Main' = next /\ \A f : On(f)' <=> f = next
  BY <1>1, <1>2, MainGoesOn DEF MainFrames
<1>4. /\ Typed' /\ system'.closes = system.closes /\ system'.com = system.com
      /\ system'.window = IF next = "onCreate" THEN "alive" ELSE system.window
  BY <1>1, <1>2 DEF RunnerInv, Typed
<1> QED BY <1>1, <1>2, <1>3, <1>4
        DEF RunnerInv, HandleFollowsWindow, WindowFollowsCalls, ControllerFollowsCalls,
            ProgressInv, NothingLeft, Exited

LEMMA OnCreateKeeps ==
  ASSUME RunnerInv, OnCreate
  PROVE  RunnerInv'
<1>1. PICK next \in {"setCallback", "return"} :
        /\ GoOn(next)
        /\ IF next = "setCallback"
           THEN controller' = "good" /\ engine' = [NoFrames EXCEPT !.pending = TRUE]
           ELSE controller' = "bad" /\ UNCHANGED engine
  BY DEF OnCreate
<1>2. Top = "onCreate" /\ Nested /\ UNCHANGED <<windowVars, shown, system, twice>>
  BY DEF OnCreate, RunnerInv
<1>3. /\ Len(stack) = 1 /\ Main = Top /\ \A f : On(f) <=> f = Top
      /\ Nested' /\ Top' = next /\ Main' = next /\ \A f : On(f)' <=> f = next
  BY <1>1, <1>2, MainGoesOn DEF MainFrames
<1>4. Typed' /\ (next = "setCallback" => engine'.pending)
  BY <1>1, <1>2 DEF RunnerInv, Typed, NoFrames, windowVars
<1> QED BY <1>1, <1>2, <1>3, <1>4
        DEF RunnerInv, HandleFollowsWindow, WindowFollowsCalls, ControllerFollowsCalls,
            ProgressInv, NothingLeft, Exited, windowVars

LEMMA SetNextFrameCallbackKeeps ==
  ASSUME RunnerInv, SetNextFrameCallback
  PROVE  RunnerInv'
<1>1. GoOn("forceRedraw") /\ Top = "setCallback" /\ Nested
  BY DEF SetNextFrameCallback, RunnerInv
<1>2. /\ Len(stack) = 1 /\ Main = Top /\ \A f : On(f) <=> f = Top
      /\ Nested' /\ Top' = "forceRedraw" /\ Main' = "forceRedraw" /\ \A f : On(f)' <=> f = "forceRedraw"
  BY <1>1, MainGoesOn DEF MainFrames
<1>3. /\ Typed' /\ engine'.callback
      /\ engine'.pending = engine.pending /\ engine'.drawn = engine.drawn
  BY DEF SetNextFrameCallback, RunnerInv, Typed, windowVars
<1> QED BY <1>1, <1>2, <1>3
        DEF RunnerInv, HandleFollowsWindow, WindowFollowsCalls, ControllerFollowsCalls,
            ProgressInv, NothingLeft, Exited, SetNextFrameCallback, windowVars

LEMMA ForceRedrawKeeps ==
  ASSUME RunnerInv, ForceRedraw
  PROVE  RunnerInv'
<1>1. GoOn("setQuitOnClose") /\ Top = "forceRedraw" /\ Nested
  BY DEF ForceRedraw, RunnerInv
<1>2. /\ Len(stack) = 1 /\ Main = Top /\ \A f : On(f) <=> f = Top
      /\ Nested' /\ Top' = "setQuitOnClose" /\ Main' = "setQuitOnClose" /\ \A f : On(f)' <=> f = "setQuitOnClose"
  BY <1>1, MainGoesOn DEF MainFrames
<1>3. /\ Typed' /\ (engine'.callback <=> engine.callback) /\ (engine'.due <=> engine.due)
      /\ engine'.pending <=> engine.pending \/ engine.drawn
      /\ engine'.drawn <=> engine.drawn
  BY DEF ForceRedraw, RunnerInv, Typed, windowVars
<1> QED BY <1>1, <1>2, <1>3
        DEF RunnerInv, HandleFollowsWindow, WindowFollowsCalls, ControllerFollowsCalls,
            ProgressInv, NothingLeft, Exited, ForceRedraw, windowVars

LEMMA SetQuitOnCloseKeeps ==
  ASSUME RunnerInv, SetQuitOnClose
  PROVE  RunnerInv'
<1>1. GoOn("loop") /\ Top = "setQuitOnClose" /\ Nested
  BY DEF SetQuitOnClose, RunnerInv
<1>2. /\ Len(stack) = 1 /\ Main = Top /\ \A f : On(f) <=> f = Top
      /\ Nested' /\ Top' = "loop" /\ Main' = "loop" /\ \A f : On(f)' <=> f = "loop"
  BY <1>1, MainGoesOn DEF MainFrames
<1>3. Typed'
  BY DEF SetQuitOnClose, RunnerInv, Typed
<1> QED BY <1>1, <1>2, <1>3
        DEF RunnerInv, HandleFollowsWindow, WindowFollowsCalls, ControllerFollowsCalls,
            ProgressInv, NothingLeft, Exited, SetQuitOnClose

LEMMA QuitKeeps ==
  ASSUME RunnerInv, Quit
  PROVE  RunnerInv'
<1>1. GoOn("return") /\ Top = "loop" /\ Nested
  BY DEF Quit, RunnerInv
<1>2. /\ Len(stack) = 1 /\ Main = Top /\ \A f : On(f) <=> f = Top
      /\ Nested' /\ Top' = "return" /\ Main' = "return" /\ \A f : On(f)' <=> f = "return"
  BY <1>1, MainGoesOn DEF MainFrames
<1>3. Typed'
  BY DEF Quit, RunnerInv, Typed, windowVars
<1> QED BY <1>1, <1>2, <1>3
        DEF RunnerInv, HandleFollowsWindow, WindowFollowsCalls, ControllerFollowsCalls,
            ProgressInv, NothingLeft, Exited, Quit, windowVars

LEMMA NoFramesTyped ==
  /\ NoFrames \in [pending : BOOLEAN, drawn : BOOLEAN, callback : BOOLEAN, due : BOOLEAN]
  /\ ~NoFrames.pending /\ ~NoFrames.drawn /\ ~NoFrames.callback /\ ~NoFrames.due
BY DEF NoFrames

\* A function called by another goes on.
LEMMA CalledGoesOn ==
  ASSUME Nested, Len(stack) > 1, NEW next \in Frames, GoOn(next),
         MayLieOn(next, stack[Len(stack) - 1])
  PROVE  /\ Nested' /\ Top' = next /\ Main' = Main
         /\ \A f : f # next /\ f # Top => (On(f)' <=> On(f))
<1>1. Len(stack) # 1
  BY DEF Nested
<1>2. IF Len(stack) = 1 THEN next \in MainFrames ELSE MayLieOn(next, stack[Len(stack) - 1])
  BY <1>1, Zenon
<1> HIDE DEF MayLieOn
<1>3. /\ Nested' /\ Top' = next /\ Main' = IF Len(stack) = 1 THEN next ELSE Main
      /\ \A f : f # next /\ f # Top => (On(f)' <=> On(f))
  BY <1>2, GoesOn, Zenon
<1> QED BY <1>1, <1>3, Zenon

LEMMA CreateKeeps ==
  ASSUME RunnerInv, Create
  PROVE  RunnerInv'
<1>1. Call("destroy", "getWindowClass") /\ Top = "create" /\ Nested
  BY DEF Create, RunnerInv
<1>2. Len(stack) = 1 /\ Main = "create"
  BY <1>1, TopOfStack DEF MainFrames
<1>3. MayLieOn("destroy", "getWindowClass") /\ {"destroy", "getWindowClass"} \subseteq Frames
  BY DEF MayLieOn, DestroyFrames, Frames
<1>4. /\ Nested' /\ Top' = "destroy" /\ Main' = "getWindowClass"
      /\ \A g \in {"postQuit", "windowGone"} : On(g)' <=> On(g)
  BY <1>1, <1>2, <1>3, Calls DEF MainFrames
<1>5. Typed'
  BY DEF Create, RunnerInv, Typed, windowVars
<1> QED BY <1>1, <1>2, <1>4, <1>5
        DEF RunnerInv, HandleFollowsWindow, WindowFollowsCalls, ControllerFollowsCalls,
            ProgressInv, NothingLeft, Exited, Create, windowVars

LEMMA ReturnKeeps ==
  ASSUME RunnerInv, Return
  PROVE  RunnerInv'
<1>1. Call("destroy", "exited") /\ Top = "return" /\ Nested
  BY DEF Return, RunnerInv
<1>2. Len(stack) = 1 /\ Main = "return"
  BY <1>1, TopOfStack DEF MainFrames
<1>3. MayLieOn("destroy", "exited") /\ {"destroy", "exited"} \subseteq Frames
  BY DEF MayLieOn, DestroyFrames, Frames
<1>4. /\ Nested' /\ Top' = "destroy" /\ Main' = "exited"
      /\ \A g \in {"postQuit", "windowGone"} : On(g)' <=> On(g)
  BY <1>1, <1>2, <1>3, Calls DEF MainFrames
<1>5. Typed'
  BY NoFramesTyped DEF Return, RunnerInv, Typed
<1> QED BY <1>1, <1>2, <1>4, <1>5
        DEF RunnerInv, HandleFollowsWindow, WindowFollowsCalls, ControllerFollowsCalls,
            ProgressInv, NothingLeft, Exited, Return

LEMMA DestroyKeeps ==
  ASSUME RunnerInv, Destroy
  PROVE  RunnerInv'
<1>1. GoOn("destroyHandle") /\ Top = "destroy" /\ Nested
  BY DEF Destroy, RunnerInv
<1>2. Len(stack) > 1 /\ MayLieOn("destroy", stack[Len(stack) - 1])
  BY <1>1, TopOfStack DEF MainFrames
<1>3. MayLieOn("destroyHandle", stack[Len(stack) - 1])
  BY <1>2 DEF MayLieOn, DestroyFrames
<1>4. /\ Nested' /\ Top' = "destroyHandle" /\ Main' = Main
      /\ \A f : f # "destroyHandle" /\ f # "destroy" => (On(f)' <=> On(f))
  <2>1. "destroyHandle" \in Frames
    BY DEF Frames
  <2> QED BY <1>1, <1>2, <1>3, <2>1, CalledGoesOn
<1>5. Typed'
  BY NoFramesTyped DEF Destroy, RunnerInv, Typed, windowVars
<1> QED BY <1>1, <1>4, <1>5
        DEF RunnerInv, HandleFollowsWindow, WindowFollowsCalls, ControllerFollowsCalls,
            ProgressInv, NothingLeft, Exited, Destroy, windowVars

\* With a handle left, Destroy was called by the destructor.
LEMMA HandleMeansDestructor ==
  ASSUME RunnerInv, Top = "destroyHandle", handle
  PROVE  /\ Len(stack) = 2 /\ Main = "exited" /\ stack[Len(stack) - 1] = "exited"
         /\ ~On("windowGone")
<1>1. /\ Len(stack) \in Nat /\ Len(stack) > 1 /\ On(stack[Len(stack) - 1])
      /\ MayLieOn("destroyHandle", stack[Len(stack) - 1])
  BY TopOfStack DEF RunnerInv, MainFrames
<1>2. stack[Len(stack) - 1] \in {"getWindowClass", "exited"}
  BY <1>1 DEF MayLieOn, DestroyFrames, RunnerInv, HandleFollowsWindow
<1>3. Len(stack) - 1 = 1
  <2>1. Len(stack) - 1 \in 1..Len(stack) /\ stack[Len(stack) - 1] \in MainFrames
    BY <1>1, <1>2 DEF MainFrames
  <2>2. \A i \in 1..Len(stack) : stack[i] \in MainFrames => i = 1
    BY Places, Zenon DEF RunnerInv
  <2> QED BY <2>1, <2>2, Zenon
<1>4. Main = "exited" /\ stack[Len(stack) - 1] = "exited"
  BY <1>2, <1>3 DEF Main, RunnerInv, HandleFollowsWindow
<1>5. Len(stack) = 2
  BY <1>1, <1>3
<1>6. ASSUME NEW i \in 1..Len(stack), stack[i] = "windowGone" PROVE FALSE
  <2>1. i # 2
    BY <1>5, <1>6 DEF Top
  <2>2. Nested
    BY DEF RunnerInv
  <2> QED BY <1>4, <1>5, <1>6, <2>1, <2>2, Places
<1> QED BY <1>4, <1>5, <1>6 DEF On

LEMMA DestroyHandleKeeps ==
  ASSUME RunnerInv, DestroyHandle
  PROVE  RunnerInv'
<1>1. /\ Top = "destroyHandle" /\ Nested
      /\ UNCHANGED <<windowVars, controller, engine, shown>>
  BY DEF DestroyHandle, RunnerInv
<1>2. Len(stack) > 1 /\ MayLieOn("destroyHandle", stack[Len(stack) - 1])
  BY <1>1, TopOfStack DEF MainFrames
<1>3. CASE handle /\ system.window # "none"
  <2>1. DestroyWindow("clearHandle") /\ twice' = (twice \/ system.window = "dying")
    BY <1>3 DEF DestroyHandle
  <2>2. Main = "exited" /\ system.window # "dying" /\ MayLieOn("clearHandle", stack[Len(stack) - 1])
    BY <1>1, <1>3, HandleMeansDestructor DEF RunnerInv, WindowFollowsCalls, MayLieOn
  <2>3. /\ Nested' /\ Top' = "wmDestroy" /\ Main' = Main
        /\ On("windowGone")' /\ (On("postQuit")' => On("postQuit"))
        /\ system' \in [class : BOOLEAN, window : {"none", "alive", "dying"},
                        closes : Nat, quit : BOOLEAN, com : BOOLEAN]
        /\ system'.window = "dying" /\ system'.closes = 0 /\ system'.com = system.com
    <3>1. Len(stack) # 1 /\ Nested /\ Typed
      BY <1>2, HandleMeansDestructor, <1>1, <1>3 DEF RunnerInv
    <3>2. IF Len(stack) = 1 THEN "clearHandle" = "loop"
                            ELSE MayLieOn("clearHandle", stack[Len(stack) - 1])
      BY <2>2, <3>1, Zenon
    <3>3. Main' = IF Len(stack) = 1 THEN "clearHandle" ELSE Main
      BY <2>1, <3>1, <3>2, DestroysWindow
    <3> QED BY <2>1, <3>1, <3>2, <3>3, DestroysWindow
  <2>4. Typed'
    BY <1>1, <2>3 DEF RunnerInv, Typed, windowVars
  <2> QED BY <1>1, <2>1, <2>2, <2>3, <2>4
        DEF RunnerInv, HandleFollowsWindow, WindowFollowsCalls, ControllerFollowsCalls,
            ProgressInv, NothingLeft, Exited, windowVars
<1>4. CASE ~(handle /\ system.window # "none")
  <2> DEFINE next == IF handle THEN "clearHandle" ELSE "unregister"
  <2>1. GoOn(next) /\ UNCHANGED <<system, twice>>
    BY <1>4 DEF DestroyHandle
  <2>2. next \in Frames /\ MayLieOn(next, stack[Len(stack) - 1])
    BY <1>1, <1>2, HandleMeansDestructor DEF MayLieOn, DestroyFrames, Frames
  <2> HIDE DEF next
  <2>3. /\ Nested' /\ Top' = next /\ Main' = Main
        /\ \A f : f # next /\ f # "destroyHandle" => (On(f)' <=> On(f))
    BY <1>1, <1>2, <2>1, <2>2, CalledGoesOn
  <2>4. (On("postQuit")' <=> On("postQuit")) /\ (On("windowGone")' <=> On("windowGone"))
    BY <2>3 DEF next
  <2>5. Typed'
    BY <1>1, <2>1 DEF RunnerInv, Typed, windowVars
  <2>6. \/ next = "clearHandle" /\ handle /\ system.window = "none"
        \/ next = "unregister" /\ ~handle /\ system.window # "alive"
    BY <1>4 DEF next, RunnerInv, HandleFollowsWindow, Typed
  <2>7. HandleFollowsWindow' /\ WindowFollowsCalls'
    BY <1>1, <2>1, <2>3, <2>6, <2>4
    DEF RunnerInv, Typed, HandleFollowsWindow, WindowFollowsCalls, windowVars
  <2>8. ControllerFollowsCalls' /\ ProgressInv' /\ NothingLeft'
    BY <1>1, <2>1, <2>3, <2>6, <2>4
    DEF RunnerInv, ControllerFollowsCalls, ProgressInv, NothingLeft, Exited, windowVars
  <2> QED BY <1>1, <2>1, <2>3, <2>5, <2>7, <2>8 DEF RunnerInv, windowVars
<1> QED BY <1>3, <1>4

LEMMA ClearHandleKeeps ==
  ASSUME RunnerInv, ClearHandle
  PROVE  RunnerInv'
<1>1. GoOn("unregister") /\ Top = "clearHandle" /\ Nested
  BY DEF ClearHandle, RunnerInv
<1>2. Len(stack) > 1 /\ MayLieOn("clearHandle", stack[Len(stack) - 1])
  BY <1>1, TopOfStack DEF MainFrames
<1>3. MayLieOn("unregister", stack[Len(stack) - 1])
  BY <1>2 DEF MayLieOn, DestroyFrames
<1>4. /\ Nested' /\ Top' = "unregister" /\ Main' = Main
      /\ \A f : f # "unregister" /\ f # "clearHandle" => (On(f)' <=> On(f))
  <2>1. "unregister" \in Frames
    BY DEF Frames
  <2> QED BY <1>1, <1>2, <1>3, <2>1, CalledGoesOn
<1>5. Typed'
  BY DEF ClearHandle, RunnerInv, Typed
<1> QED BY <1>1, <1>4, <1>5
        DEF RunnerInv, HandleFollowsWindow, WindowFollowsCalls, ControllerFollowsCalls,
            ProgressInv, NothingLeft, Exited, ClearHandle

LEMMA UnregisterKeeps ==
  ASSUME RunnerInv, Unregister
  PROVE  RunnerInv'
<1>1. /\ Back /\ Top = "unregister" /\ Nested
      /\ UNCHANGED <<count, handle, quitOnClose, controller, engine, shown, twice>>
  BY DEF Unregister, RunnerInv
<1>2. Len(stack) \in Nat /\ Len(stack) > 1
  BY <1>1, TopOfStack DEF MainFrames
<1>3. /\ Nested' /\ Top' = stack[Len(stack) - 1] /\ Main' = Main /\ MayLieOn("unregister", Top')
      /\ \A f : f # "unregister" => (On(f)' <=> On(f))
  BY <1>1, <1>2, GoesBack
<1>4. On("postQuit")' <=> On("postQuit")
  BY <1>3
<1>5. On("windowGone")' <=> On("windowGone")
  BY <1>3
<1>6. Top' \in {"getWindowClass", "exited", "postQuit"}
  BY <1>3 DEF MayLieOn, DestroyFrames
<1>7. ASSUME Top' = "exited" PROVE Main = "exited" /\ ~On("windowGone")
  <2>1. Len(stack) - 1 \in 1..Len(stack) /\ stack[Len(stack) - 1] = "exited"
    BY <1>2, <1>3, <1>7
  <2>2. \A i \in 1..Len(stack) : stack[i] = "exited" => i = 1
    BY <1>1, Places DEF MainFrames
  <2>3. Len(stack) - 1 = 1 /\ Main = "exited"
    BY <2>1, <2>2 DEF Main
  <2>4. Len(stack) = 2 /\ stack[2] = "unregister"
    <3>1. Len(stack) = 2
      BY <1>2, <2>3
    <3> QED BY <1>1, <3>1 DEF Top
  <2>5. \A i \in 1..Len(stack) : stack[i] # "windowGone"
    BY <2>3, <2>4 DEF Main
  <2> QED BY <2>3, <2>5 DEF On
<1>8. /\ Typed' /\ system'.window = system.window /\ system'.closes = system.closes /\ system'.com = system.com
      /\ system'.quit = system.quit
      /\ count = 0 => ~registered' /\ (system.window = "none" => ~system'.class)
  BY <1>1 DEF Unregister, RunnerInv, Typed
<1>9. HandleFollowsWindow' /\ WindowFollowsCalls'
  BY <1>1, <1>3, <1>4, <1>5, <1>6, <1>8 DEF RunnerInv, HandleFollowsWindow, WindowFollowsCalls
<1>10. ControllerFollowsCalls' /\ ProgressInv'
  BY <1>1, <1>3, <1>6, <1>8 DEF RunnerInv, ControllerFollowsCalls, ProgressInv
<1>11. NothingLeft'
  BY <1>1, <1>3, <1>7, <1>8
  DEF RunnerInv, HandleFollowsWindow, WindowFollowsCalls, ControllerFollowsCalls,
      ProgressInv, NothingLeft, Exited
<1> QED BY <1>1, <1>3, <1>8, <1>9, <1>10, <1>11 DEF RunnerInv

LEMMA WmDestroyKeeps ==
  ASSUME RunnerInv, WmDestroy
  PROVE  RunnerInv'
<1>1. Call("destroy", "postQuit") /\ Top = "wmDestroy" /\ Nested
  BY DEF WmDestroy, RunnerInv
<1>2. /\ Len(stack) # 1 /\ On(stack[Len(stack) - 1])
      /\ MayLieOn("wmDestroy", stack[Len(stack) - 1])
  <2>1. "wmDestroy" \notin MainFrames
    BY DEF MainFrames
  <2>2. /\ Len(stack) \in Nat /\ Len(stack) > 1 /\ On(stack[Len(stack) - 1])
        /\ MayLieOn("wmDestroy", stack[Len(stack) - 1])
    BY <1>1, <2>1, TopOfStack
  <2>3. Len(stack) # 1
    BY <1>1, <2>2 DEF Nested
  <2> QED BY <2>2, <2>3, Zenon
<1>3. On("windowGone") /\ MayLieOn("postQuit", stack[Len(stack) - 1])
  BY <1>2 DEF MayLieOn, DestroyFrames
<1>4. MayLieOn("destroy", "postQuit") /\ {"destroy", "postQuit"} \subseteq Frames
  BY DEF MayLieOn, DestroyFrames, Frames
<1>5. /\ Nested' /\ Top' = "destroy"
      /\ Main' = IF Len(stack) = 1 THEN "postQuit" ELSE Main
      /\ \A g : g # "destroy" /\ g # "postQuit" /\ g # "wmDestroy" => (On(g)' <=> On(g))
  <2>1. IF Len(stack) = 1 THEN "postQuit" \in MainFrames
                          ELSE MayLieOn("postQuit", stack[Len(stack) - 1])
    BY <1>2, <1>3, Zenon
  <2> QED BY <1>1, <1>4, <2>1, Calls
<1>6. Main' = Main /\ (On("windowGone")' <=> On("windowGone"))
  BY <1>2, <1>5
<1>7. Typed'
  BY DEF WmDestroy, RunnerInv, Typed
<1> QED BY <1>1, <1>3, <1>5, <1>6, <1>7
        DEF RunnerInv, HandleFollowsWindow, WindowFollowsCalls, ControllerFollowsCalls,
            ProgressInv, NothingLeft, Exited, WmDestroy

LEMMA PostQuitKeeps ==
  ASSUME RunnerInv, PostQuit
  PROVE  RunnerInv'
<1>1. /\ Back /\ Top = "postQuit" /\ Nested
      /\ UNCHANGED <<windowVars, controller, engine, shown, twice>>
  BY DEF PostQuit, RunnerInv
<1>2. Len(stack) > 1 /\ On("postQuit")
  BY <1>1, TopOfStack DEF MainFrames
<1>3. /\ Nested' /\ Main' = Main /\ MayLieOn("postQuit", Top')
      /\ \A f : f # "postQuit" => (On(f)' <=> On(f))
  BY <1>1, <1>2, GoesBack
<1>4. Top' = "windowGone" /\ (On("windowGone")' <=> On("windowGone"))
  BY <1>3 DEF MayLieOn, DestroyFrames
<1>5. /\ Typed' /\ system'.window = system.window /\ system'.closes = system.closes /\ system'.com = system.com
      /\ system'.quit <=> system.quit \/ quitOnClose
  BY <1>1 DEF PostQuit, RunnerInv, Typed, windowVars
<1> QED BY <1>1, <1>2, <1>3, <1>4, <1>5
        DEF RunnerInv, HandleFollowsWindow, WindowFollowsCalls, ControllerFollowsCalls,
            ProgressInv, NothingLeft, Exited, windowVars

LEMMA WindowGoneKeeps ==
  ASSUME RunnerInv, WindowGone
  PROVE  RunnerInv'
<1>1. /\ Back /\ Top = "windowGone" /\ Nested
      /\ UNCHANGED <<windowVars, controller, engine, shown, twice>>
  BY DEF WindowGone, RunnerInv
<1>2. Len(stack) \in Nat /\ Len(stack) > 1
  BY <1>1, TopOfStack DEF MainFrames
<1>3. /\ Nested' /\ Main' = Main /\ MayLieOn("windowGone", Top')
      /\ On("windowGone")' <=> \E i \in 1..(Len(stack) - 1) : stack[i] = "windowGone"
      /\ \A f : On(f)' => On(f)
  BY <1>1, <1>2, GoesBack
<1>4. Top' \in {"loop", "clearHandle"}
  BY <1>3 DEF MayLieOn, DestroyFrames
<1>5. ~On("windowGone")'
  <2>1. \A i \in 1..Len(stack) : stack[i] = "windowGone" =>
          (i = 2 /\ Main = "loop") \/ (i = 3 /\ Main = "exited")
    BY <1>1, Places
  <2>2. Len(stack) \in 1..Len(stack) /\ stack[Len(stack)] = "windowGone"
    BY <1>1, <1>2 DEF Top
  <2>3. \A i \in 1..(Len(stack) - 1) : i \in 1..Len(stack) /\ i # Len(stack)
    BY <1>2
  <2>4. \A i \in 1..(Len(stack) - 1) : stack[i] # "windowGone"
    BY <2>1, <2>2, <2>3
  <2> QED BY <1>3, <2>4
<1>6. On("windowGone")
  BY <1>1, TopOfStack
<1>7. /\ Typed' /\ system'.window = "none" /\ system'.closes = system.closes /\ system'.com = system.com
      /\ system'.quit = system.quit
  BY <1>1 DEF WindowGone, RunnerInv, Typed, windowVars
<1> QED BY <1>1, <1>3, <1>4, <1>5, <1>6, <1>7
        DEF RunnerInv, HandleFollowsWindow, WindowFollowsCalls, ControllerFollowsCalls,
            ProgressInv, NothingLeft, Exited, windowVars

\* In the message loop the window is there, or it is gone for good.
LEMMA LoopIsAlone ==
  ASSUME RunnerInv, Top = "loop"
  PROVE  /\ Nested /\ Len(stack) = 1 /\ Main = "loop" /\ system.window # "dying"
         /\ controller # "none" => handle
<1>1. Nested /\ Len(stack) = 1 /\ Main = "loop"
  BY TopOfStack DEF RunnerInv, MainFrames
<1>2. ~On("windowGone")
  BY <1>1 DEF On, Top
<1>3. system.window # "dying" /\ (controller # "none" => system.window # "none")
  BY <1>2 DEF RunnerInv, WindowFollowsCalls, ControllerFollowsCalls
<1>4. system.window \in {"none", "alive", "dying"}
  BY DEF RunnerInv, Typed
<1>5. controller # "none" => handle
  BY <1>3, <1>4 DEF RunnerInv, HandleFollowsWindow
<1> QED BY <1>1, <1>3, <1>5

\* The same functions are running.
LEMMA SameStack ==
  ASSUME Nested, UNCHANGED stack
  PROVE  Nested' /\ Top' = Top /\ Main' = Main /\ \A f : On(f)' <=> On(f)
BY DEF Nested, Top, Main, On

LEMMA CloseKeeps ==
  ASSUME RunnerInv, Close
  PROVE  RunnerInv'
<1>1. /\ Top = "loop" /\ system.closes > 0 /\ Nested /\ Typed
      /\ UNCHANGED <<windowVars, controller, engine, shown, twice>>
  BY DEF Close, RunnerInv
<1>2. Len(stack) = 1 /\ Main = "loop" /\ system.window = "alive"
  BY <1>1, LoopIsAlone DEF RunnerInv, WindowFollowsCalls
<1>3. CASE DestroyWindow("loop")
  <2>1. /\ Nested' /\ Top' = "wmDestroy" /\ Main' = Main
        /\ On("windowGone")' /\ (On("postQuit")' => On("postQuit"))
        /\ system' \in [class : BOOLEAN, window : {"none", "alive", "dying"},
                        closes : Nat, quit : BOOLEAN, com : BOOLEAN]
        /\ system'.window = "dying" /\ system'.closes = 0 /\ system'.com = system.com
    BY <1>1, <1>2, <1>3, DestroysWindow
  <2>2. Typed'
    BY <1>1, <2>1 DEF Typed, windowVars
  <2> QED BY <1>1, <2>1, <2>2
        DEF RunnerInv, HandleFollowsWindow, WindowFollowsCalls, ControllerFollowsCalls,
            ProgressInv, NothingLeft, Exited, windowVars
<1>4. CASE /\ system' = [system EXCEPT !.closes = @ - 1]
           /\ UNCHANGED stack
  <2>1. /\ Typed' /\ system'.window = system.window /\ system'.quit = system.quit /\ system'.com = system.com
    BY <1>1, <1>4 DEF Typed, windowVars
  <2>2. Nested' /\ Top' = Top /\ Main' = Main /\ \A f : On(f)' <=> On(f)
    BY <1>1, <1>4, SameStack
  <2> QED BY <1>1, <1>2, <2>1, <2>2
        DEF RunnerInv, HandleFollowsWindow, WindowFollowsCalls, ControllerFollowsCalls,
            ProgressInv, NothingLeft, Exited, windowVars
<1> QED BY <1>3, <1>4 DEF Close

LEMMA ShowKeeps ==
  ASSUME RunnerInv, Show
  PROVE  RunnerInv'
<1>1. /\ Top = "loop" /\ engine.due /\ Nested /\ UNCHANGED <<stack, windowVars, controller, system, twice>>
  BY DEF Show, RunnerInv
<1>2. controller # "none"
  BY <1>1, NoFramesTyped DEF RunnerInv, ControllerFollowsCalls
<1>3. shown' = TRUE
  BY <1>1, <1>2, LoopIsAlone DEF Show, RunnerInv, Typed
<1>4. /\ Typed' /\ (engine'.pending <=> engine.pending) /\ (engine'.drawn <=> engine.drawn)
  BY DEF Show, RunnerInv, Typed, windowVars
<1>5. Nested' /\ Top' = Top /\ Main' = Main /\ \A f : On(f)' <=> On(f)
  BY <1>1, SameStack
<1> QED BY <1>1, <1>2, <1>3, <1>4, <1>5
        DEF RunnerInv, HandleFollowsWindow, WindowFollowsCalls, ControllerFollowsCalls,
            ProgressInv, NothingLeft, Exited, windowVars

LEMMA DrawKeeps ==
  ASSUME RunnerInv, Draw
  PROVE  RunnerInv'
<1>1. engine.pending /\ Nested /\ UNCHANGED <<stack, windowVars, controller, shown, system, twice>>
  BY DEF Draw, RunnerInv
<1>2. controller # "none"
  BY <1>1, NoFramesTyped DEF RunnerInv, ControllerFollowsCalls
<1>3. /\ Typed' /\ engine'.drawn
      /\ engine'.due <=> engine.due \/ engine.callback
  BY DEF Draw, RunnerInv, Typed, windowVars
<1>4. Nested' /\ Top' = Top /\ Main' = Main /\ \A f : On(f)' <=> On(f)
  BY <1>1, SameStack
<1> QED BY <1>1, <1>2, <1>3, <1>4
        DEF RunnerInv, HandleFollowsWindow, WindowFollowsCalls, ControllerFollowsCalls,
            ProgressInv, NothingLeft, Exited, windowVars

LEMMA AskToCloseKeeps ==
  ASSUME RunnerInv, AskToClose
  PROVE  RunnerInv'
<1>1. /\ system.window = "alive" /\ Nested
      /\ UNCHANGED <<stack, windowVars, controller, engine, shown, twice>>
  BY DEF AskToClose, RunnerInv
<1>2. /\ Typed' /\ system'.window = system.window /\ system'.quit = system.quit /\ system'.com = system.com
      /\ system'.class = system.class
  BY DEF AskToClose, RunnerInv, Typed, windowVars
<1>3. Nested' /\ Top' = Top /\ Main' = Main /\ \A f : On(f)' <=> On(f)
  BY <1>1, SameStack
<1> QED BY <1>1, <1>2, <1>3
        DEF RunnerInv, HandleFollowsWindow, WindowFollowsCalls, ControllerFollowsCalls,
            ProgressInv, NothingLeft, Exited, windowVars

-----------------------------------------------------------------------------
LEMMA InitEstablishes == Init => RunnerInv
<1> SUFFICES ASSUME Init PROVE RunnerInv
  OBVIOUS
<1>1. /\ stack = <<"create">> /\ Len(stack) = 1 /\ stack[1] = "create"
      /\ stack \in Seq(Frames)
  BY DEF Init, Frames
<1>2. Nested /\ Top = "create" /\ Main = "create" /\ \A f : On(f) => f = "create"
  BY <1>1 DEF Nested, Top, Main, On, MainFrames
<1>3. Typed
  BY NoFramesTyped DEF Init, Typed
<1> QED BY <1>2, <1>3
        DEF Init, RunnerInv, HandleFollowsWindow, WindowFollowsCalls, ControllerFollowsCalls,
            ProgressInv, NothingLeft, Exited

LEMMA NextKeeps == RunnerInv /\ [Next]_vars => RunnerInv'
<1> SUFFICES ASSUME RunnerInv, [Next]_vars PROVE RunnerInv'
  OBVIOUS
<1>1. CASE Runs
  BY <1>1, CreateKeeps, GetWindowClassKeeps, CreateWindowKeeps, OnCreateKeeps,
     SetNextFrameCallbackKeeps, ForceRedrawKeeps, SetQuitOnCloseKeeps, QuitKeeps,
     ReturnKeeps, DestroyKeeps, DestroyHandleKeeps, ClearHandleKeeps, UnregisterKeeps,
     WmDestroyKeeps, PostQuitKeeps, WindowGoneKeeps DEF Runs
<1>2. CASE Show
  BY <1>2, ShowKeeps
<1>3. CASE Close
  BY <1>3, CloseKeeps
<1>4. CASE Draw
  BY <1>4, DrawKeeps
<1>5. CASE AskToClose
  BY <1>5, AskToCloseKeeps
<1>6. CASE UNCHANGED vars
  <2>1. Nested' /\ Top' = Top /\ Main' = Main /\ \A f : On(f)' <=> On(f)
    BY <1>6, SameStack DEF vars, RunnerInv
  <2> QED BY <1>6, <2>1
          DEF vars, windowVars, RunnerInv, Typed, HandleFollowsWindow, WindowFollowsCalls,
              ControllerFollowsCalls, ProgressInv, NothingLeft, Exited
<1> QED BY <1>1, <1>2, <1>3, <1>4, <1>5, <1>6 DEF Next

(***************************************************************************)
(* The inductive invariant: what the stack says of handle, window,         *)
(* controller and engine, and the other way round.                         *)
(***************************************************************************)
THEOREM RunnerInductiveInvariant == Spec => []RunnerInv
BY InitEstablishes, NextKeeps, PTL DEF Spec

(***************************************************************************)
(* The window is destroyed once, although the handler of WM_DESTROY and    *)
(* the destructor both call Destroy.                                       *)
(***************************************************************************)
THEOREM DestroyedOnceSafe == Spec => []DestroyedOnce
<1>1. RunnerInv => DestroyedOnce
  BY DEF RunnerInv, DestroyedOnce
<1> QED BY <1>1, RunnerInductiveInvariant, PTL

(***************************************************************************)
(* The engine never outlives its window, and Show finds a handle.          *)
(***************************************************************************)
THEOREM EngineHasWindowSafe == Spec => []EngineHasWindow
<1>1. RunnerInv => EngineHasWindow
  <2> SUFFICES ASSUME RunnerInv PROVE EngineHasWindow
    OBVIOUS
  <2>1. controller # "none" => system.window # "none"
    BY DEF RunnerInv, ControllerFollowsCalls
  <2>2. ASSUME Top = "loop", engine.due PROVE handle
    <3>1. controller # "none"
      BY <2>2, NoFramesTyped DEF RunnerInv, ControllerFollowsCalls
    <3> QED BY <2>2, <3>1, LoopIsAlone
  <2> QED BY <2>1, <2>2 DEF EngineHasWindow
<1> QED BY <1>1, RunnerInductiveInvariant, PTL

(***************************************************************************)
(* The process leaves no window, no class, no handle and no controller     *)
(* behind, whichever way it came to its end, and no COM if its message     *)
(* loop ran.                                                               *)
(***************************************************************************)
THEOREM NothingLeftSafe == Spec => []NothingLeft
<1>1. RunnerInv => NothingLeft
  BY DEF RunnerInv
<1> QED BY <1>1, RunnerInductiveInvariant, PTL

(***************************************************************************)
(* The safe half of ClosingEnds: once the window is gone, nothing keeps    *)
(* the message loop from taking the WM_QUIT that was posted.               *)
(***************************************************************************)
THEOREM QuitSafe == Spec => []QuitIsPosted
<1>1. RunnerInv => QuitIsPosted
  <2> SUFFICES ASSUME RunnerInv, Top = "loop", system.window = "none"
               PROVE  system.quit /\ system.closes = 0 /\ ~engine.due
    BY DEF QuitIsPosted
  <2>1. system.quit /\ system.closes = 0
    BY LoopIsAlone DEF RunnerInv, ProgressInv, WindowFollowsCalls
  <2>2. controller = "none"
    BY DEF RunnerInv, ControllerFollowsCalls
  <2> QED BY <2>1, <2>2, NoFramesTyped DEF RunnerInv, ControllerFollowsCalls
<1> QED BY <1>1, RunnerInductiveInvariant, PTL

(***************************************************************************)
(* The safe half of ShownInTheEnd: the call to Show never gets lost,       *)
(* whether the first frame comes before or after the callback is set.      *)
(***************************************************************************)
THEOREM ShowSafe == Spec => []ShowIsComing
<1>1. RunnerInv => ShowIsComing
  BY DEF RunnerInv, ProgressInv, ShowIsComing
<1> QED BY <1>1, RunnerInductiveInvariant, PTL

(***************************************************************************)
(* The mutual recursion of Destroy, DestroyWindow and WM_DESTROY is        *)
(* bounded: five functions at most are under way.                          *)
(***************************************************************************)
THEOREM DepthSafe == Spec => []DepthIsBounded
<1>1. RunnerInv => DepthIsBounded
  BY Places DEF RunnerInv
<1> QED BY <1>1, RunnerInductiveInvariant, PTL

=============================================================================
