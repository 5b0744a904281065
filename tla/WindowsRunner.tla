--------------------------- MODULE WindowsRunner ---------------------------
(***************************************************************************)
(* The app's process on Windows (windows/runner: main.cpp, win32_window,   *)
(* flutter_window): its one window, the window class, the Flutter engine   *)
(* the window hosts, and their end.  The difficulty is re-entrancy:        *)
(* DestroyWindow calls the window's handler of WM_DESTROY, which calls     *)
(* Destroy, which calls DestroyWindow.  So the platform thread is modelled *)
(* with its call stack; each element names what is to be done next.  The   *)
(* engine draws on a thread of its own, and the user asks to close the     *)
(* window at any time.                                                     *)
(***************************************************************************)
EXTENDS Integers, Sequences

CONSTANT MaxCloses  \* bound: requests to close the window

ASSUME MaxClosesAssumption == MaxCloses \in Nat

VARIABLES
  stack,       \* the platform thread
  count,       \* g_active_window_count
  registered,  \* class_registered_
  handle,      \* window_handle_ is not null
  quitOnClose, \* quit_on_close_
  controller,  \* flutter_controller_: "none", "bad" (no engine or no view) or "good"
  engine,      \* the engine's frames
  shown,       \* the window was shown
  system,      \* what Windows keeps: the class, the window, its messages, COM
  twice        \* history: DestroyWindow was called on a window being destroyed

windowVars == <<count, registered, handle, quitOnClose>>
vars == <<stack, windowVars, controller, engine, shown, system, twice>>

(***************************************************************************)
(* pending: a frame will be drawn; drawn: one has been; callback: a        *)
(* next-frame callback is set; due: that callback is posted to the         *)
(* platform thread.                                                        *)
(***************************************************************************)
NoFrames == [pending |-> FALSE, drawn |-> FALSE, callback |-> FALSE, due |-> FALSE]

Frames == {"create", "getWindowClass", "createWindow", "onCreate", "setCallback",
           "forceRedraw", "setQuitOnClose", "loop", "return", "exited",
           "destroy", "destroyHandle", "clearHandle", "unregister",
           "wmDestroy", "postQuit", "windowGone"}

Top == stack[Len(stack)]

\* The running function goes on with next, calls f and goes on with next, or returns.
GoOn(next) == stack' = [stack EXCEPT ![Len(stack)] = next]
Call(f, next) == stack' = Append([stack EXCEPT ![Len(stack)] = next], f)
Back == stack' = SubSeq(stack, 1, Len(stack) - 1)

\* Windows destroys the window: its handler first, then the window itself.
DestroyWindow(next) ==
  /\ system' = [system EXCEPT !.window = "dying", !.closes = 0]
  /\ stack' = [stack EXCEPT ![Len(stack)] = next] \o <<"windowGone", "wmDestroy">>

-----------------------------------------------------------------------------
\* Starting up: wWinMain, Win32Window::Create and FlutterWindow::OnCreate.

Create ==
  /\ Top = "create" /\ Call("destroy", "getWindowClass")
  /\ UNCHANGED <<windowVars, controller, engine, shown, system, twice>>

GetWindowClass ==
  /\ Top = "getWindowClass" /\ GoOn("createWindow")
  /\ registered' = TRUE
  /\ system' = [system EXCEPT !.class = @ \/ ~registered]
  /\ UNCHANGED <<count, handle, quitOnClose, controller, engine, shown, twice>>

\* WndProc has set the handle by then; if CreateWindow fails, it may have, too.
CreateWindow ==
  /\ Top = "createWindow"
  /\ \/ GoOn("onCreate") /\ handle' = TRUE /\ system' = [system EXCEPT !.window = "alive"]
     \/ GoOn("return") /\ handle' \in BOOLEAN /\ UNCHANGED system
  /\ UNCHANGED <<count, registered, quitOnClose, controller, engine, shown, twice>>

\* The controller starts the engine, which will draw a first frame.
OnCreate ==
  /\ Top = "onCreate"
  /\ \/ /\ GoOn("setCallback") /\ controller' = "good"
        /\ engine' = [NoFrames EXCEPT !.pending = TRUE]
     \/ GoOn("return") /\ controller' = "bad" /\ UNCHANGED engine
  /\ UNCHANGED <<windowVars, shown, system, twice>>

SetNextFrameCallback ==
  /\ Top = "setCallback" /\ GoOn("forceRedraw")
  /\ engine' = [engine EXCEPT !.callback = TRUE]
  /\ UNCHANGED <<windowVars, controller, shown, system, twice>>

\* Mutant of ForceRedraw: it is left out.
ForceNothing ==
  /\ Top = "forceRedraw" /\ GoOn("setQuitOnClose")
  /\ UNCHANGED <<windowVars, controller, engine, shown, system, twice>>

\* A no-op if the first frame has not been drawn yet.
ForceRedraw ==
  /\ Top = "forceRedraw" /\ GoOn("setQuitOnClose")
  /\ engine' = [engine EXCEPT !.pending = @ \/ engine.drawn]
  /\ UNCHANGED <<windowVars, controller, shown, system, twice>>

SetQuitOnClose ==
  /\ Top = "setQuitOnClose" /\ GoOn("loop")
  /\ quitOnClose' = TRUE
  /\ UNCHANGED <<count, registered, handle, controller, engine, shown, system, twice>>

-----------------------------------------------------------------------------
\* The message loop.

\* The next-frame callback: Show
Show ==
  /\ Top = "loop" /\ engine.due
  /\ engine' = [engine EXCEPT !.due = FALSE]
  /\ shown' = handle
  /\ UNCHANGED <<stack, windowVars, controller, system, twice>>

\* WM_CLOSE: the engine or a plug-in may keep it, else the window is destroyed.
Close ==
  /\ Top = "loop" /\ system.closes > 0
  /\ \/ DestroyWindow("loop")
     \/ /\ controller # "none"
        /\ system' = [system EXCEPT !.closes = @ - 1]
        /\ UNCHANGED stack
  /\ UNCHANGED <<windowVars, controller, engine, shown, twice>>

(***************************************************************************)
(* GetMessage returns WM_QUIT when no other message is left; CoUninitialize*)
(* follows.  When Create fails, main.cpp:31 returns without it.            *)
(***************************************************************************)
Quit ==
  /\ Top = "loop" /\ system.quit /\ system.closes = 0 /\ ~engine.due
  /\ GoOn("return")
  /\ system' = [system EXCEPT !.com = FALSE]
  /\ UNCHANGED <<windowVars, controller, engine, shown, twice>>

\* wWinMain returns: ~FlutterWindow drops the controller, ~Win32Window calls Destroy.
Return ==
  /\ Top = "return" /\ Call("destroy", "exited")
  /\ controller' = "none" /\ engine' = NoFrames
  /\ count' = count - 1
  /\ UNCHANGED <<registered, handle, quitOnClose, shown, system, twice>>

-----------------------------------------------------------------------------
\* Win32Window::Destroy and the handler of WM_DESTROY.

\* OnDestroy; nothing of the engine runs after it.
Destroy ==
  /\ Top = "destroy" /\ GoOn("destroyHandle")
  /\ controller' = "none" /\ engine' = NoFrames
  /\ UNCHANGED <<windowVars, shown, system, twice>>

DestroyHandle ==
  /\ Top = "destroyHandle"
  /\ IF handle /\ system.window # "none"
     THEN DestroyWindow("clearHandle") /\ twice' = (twice \/ system.window = "dying")
     ELSE GoOn(IF handle THEN "clearHandle" ELSE "unregister") /\ UNCHANGED <<system, twice>>
  /\ UNCHANGED <<windowVars, controller, engine, shown>>

ClearHandle ==
  /\ Top = "clearHandle" /\ GoOn("unregister")
  /\ handle' = FALSE
  /\ UNCHANGED <<count, registered, quitOnClose, controller, engine, shown, system, twice>>

\* Mutant of Unregister: it is left to the last window's WM_DESTROY.
UnregisterOnDestroy ==
  /\ Top = "unregister" /\ Back
  /\ IF count = 0 /\ system.window = "dying"
     THEN registered' = FALSE
     ELSE UNCHANGED registered
  /\ UNCHANGED <<count, handle, quitOnClose, controller, engine, shown, system, twice>>

\* UnregisterClass, without effect while there is a window; the flag is cleared either way.
Unregister ==
  /\ Top = "unregister" /\ Back
  /\ IF count = 0
     THEN /\ registered' = FALSE
          /\ system' = [system EXCEPT !.class = @ /\ system.window # "none"]
     ELSE UNCHANGED <<registered, system>>
  /\ UNCHANGED <<count, handle, quitOnClose, controller, engine, shown, twice>>

\* Mutants of WmDestroy: the handle is not cleared first; Destroy is not called.
WmDestroyKeepingHandle ==
  /\ Top = "wmDestroy" /\ Call("destroy", "postQuit")
  /\ UNCHANGED <<windowVars, controller, engine, shown, system, twice>>

WmDestroyOnlyQuitting ==
  /\ Top = "wmDestroy" /\ GoOn("postQuit")
  /\ handle' = FALSE
  /\ UNCHANGED <<count, registered, quitOnClose, controller, engine, shown, system, twice>>

\* The engine, asked first, lets WM_DESTROY pass.
WmDestroy ==
  /\ Top = "wmDestroy" /\ Call("destroy", "postQuit")
  /\ handle' = FALSE
  /\ UNCHANGED <<count, registered, quitOnClose, controller, engine, shown, system, twice>>

\* Mutant of PostQuit: quit_on_close_ means the opposite.
PostQuitUnlessAsked ==
  /\ Top = "postQuit" /\ Back
  /\ system' = [system EXCEPT !.quit = @ \/ ~quitOnClose]
  /\ UNCHANGED <<windowVars, controller, engine, shown, twice>>

PostQuit ==
  /\ Top = "postQuit" /\ Back
  /\ system' = [system EXCEPT !.quit = @ \/ quitOnClose]
  /\ UNCHANGED <<windowVars, controller, engine, shown, twice>>

-----------------------------------------------------------------------------
\* Windows, the engine's thread and the user (external).

WindowGone ==
  /\ Top = "windowGone" /\ Back
  /\ system' = [system EXCEPT !.window = "none"]
  /\ UNCHANGED <<windowVars, controller, engine, shown, twice>>

Draw ==
  /\ engine.pending
  /\ engine' = [engine EXCEPT !.pending = FALSE, !.drawn = TRUE,
                              !.callback = FALSE, !.due = @ \/ engine.callback]
  /\ UNCHANGED <<stack, windowVars, controller, shown, system, twice>>

AskToClose ==
  /\ system.window = "alive" /\ system.closes < MaxCloses
  /\ system' = [system EXCEPT !.closes = @ + 1]
  /\ UNCHANGED <<stack, windowVars, controller, engine, shown, twice>>

\* wWinMain calls Create, after CoInitializeEx.
Init ==
  /\ stack = <<"create">>
  /\ count = 1 /\ registered = FALSE /\ handle = FALSE /\ quitOnClose = FALSE
  /\ controller = "none" /\ engine = NoFrames
  /\ shown = FALSE /\ twice = FALSE
  /\ system = [class |-> FALSE, window |-> "none", closes |-> 0, quit |-> FALSE,
               com |-> TRUE]

\* The platform thread, but for the order in which messages are taken.
Runs ==
  \/ Create \/ GetWindowClass \/ CreateWindow \/ OnCreate \/ SetNextFrameCallback
  \/ ForceRedraw \/ SetQuitOnClose \/ Quit \/ Return
  \/ Destroy \/ DestroyHandle \/ ClearHandle \/ Unregister
  \/ WmDestroy \/ PostQuit \/ WindowGone

Next == Runs \/ Show \/ Close \/ Draw \/ AskToClose

Spec == Init /\ [][Next]_vars

(***************************************************************************)
(* The platform thread runs, takes every message in the end, and the       *)
(* engine draws what it was asked to draw.  Nothing is assumed of the user.*)
(***************************************************************************)
FairSpec ==
  /\ Spec
  /\ WF_vars(Runs) /\ WF_vars(Show) /\ WF_vars(Close) /\ WF_vars(Draw)

-----------------------------------------------------------------------------
Exited == Top = "exited"

(***************************************************************************)
(* However Destroy and WM_DESTROY call each other, a window is destroyed   *)
(* once: the handler clears the handle before it calls Destroy             *)
(* (win32_window.cpp:183).  The count of windows never leaves 0..1.        *)
(***************************************************************************)
DestroyedOnce == ~twice /\ count \in 0..1

(***************************************************************************)
(* The engine never outlives the window its view lives in, and its         *)
(* callback never runs Show on a window without a handle.                  *)
(***************************************************************************)
EngineHasWindow ==
  /\ controller # "none" => system.window # "none"
  /\ Top = "loop" /\ engine.due => handle

(***************************************************************************)
(* Whichever way the process ends - closed, no window, no engine - neither *)
(* window nor class, handle or controller is left.  Without an engine the  *)
(* class is unregistered twice: in vain by the WM_DESTROY that the         *)
(* destructor causes, then by the destructor itself.  COM is left only by  *)
(* a process that never came to its message loop (main.cpp:31).            *)
(***************************************************************************)
NothingLeft ==
  Exited => /\ system.window = "none" /\ ~system.class /\ ~registered
            /\ ~handle /\ controller = "none" /\ count = 0
            /\ quitOnClose => ~system.com

(***************************************************************************)
(* The window is shown in the end, or gone: even if the first frame is     *)
(* drawn before the callback is set (flutter_window.cpp:34-36).            *)
(***************************************************************************)
ShownInTheEnd == controller = "good" ~> shown \/ system.window = "none"

(***************************************************************************)
(* Closing the window ends the application (win32_window.h:52).            *)
(***************************************************************************)
ClosingEnds == system.window = "dying" ~> Exited
=============================================================================
