------------------------------ MODULE Windows -------------------------------
(***************************************************************************)
(* The windows of GUI_APP and the LVGL tasks that write to them, around    *)
(* the file windows of FileBrowser: login_win.c, main_win.c, app.c and the *)
(* lifetimes of chart_win.c, gauge_win.c, progress_win.c, calendar_win.c.  *)
(*                                                                         *)
(* One thread, GUI_APP, runs lv_task_handler, which calls the event        *)
(* callbacks of the touch screen and the tasks, one after the other.  A    *)
(* task writes through static pointers to the objects its window made last *)
(* and is kept off those of a deleted window by being deleted with it      *)
(* (gauge, clock) or by chart_flag (chart); the header is never deleted.   *)
(* While a file is opened the thread is in the card call and does neither. *)
(***************************************************************************)
EXTENDS FileBrowser

CONSTANT MaxLogins      \* bound of the model

ASSUME WindowsAssumption == MaxLogins \in Nat

VARIABLES
    base,           \* the window at the bottom: login_win or main_win
    kb, kbShown,    \* login_win.c: kb is not NULL; there is a keyboard
    quit_mbox, quitShown,   \* main_win.c: the same for the dialog
    task,           \* files whose static pointer task is not NULL
    running,        \* files whose LVGL task runs
    chart_flag,     \* chart_win.c: the chart may be drawn
    pressed,        \* Back of the window on top is pressed
    headers         \* headers on the screen

dialogVars == <<kb, kbShown, quit_mbox, quitShown>>
taskVars   == <<task, running, chart_flag>>
winVars    == <<vars, base, dialogVars, taskVars, pressed, headers>>

Items == {"calendar", "clock", "chart", "gauge"}
Tasks == {"header", "clock", "chart", "gauge"}

WindowsInit ==
    /\ Init
    /\ base = "login" /\ headers = 0
    /\ kb = FALSE /\ kbShown = FALSE /\ quit_mbox = FALSE /\ quitShown = FALSE
    /\ task = {} /\ running = {} /\ chart_flag = FALSE /\ pressed = FALSE

\* Nothing is pressed and no card call runs.
Idle == ~pressed /\ Top.kind # "opening"

-----------------------------------------------------------------------------
(* login_win.c                                                             *)

\* A text field is touched: kb_create, if there is no keyboard yet.
TouchField ==
    /\ base = "login" /\ ~kb
    /\ kb' = TRUE /\ kbShown' = TRUE
    /\ UNCHANGED <<vars, base, quit_mbox, quitShown, taskVars, pressed, headers>>

\* A tick or a cross on the keyboard.
CloseKeyboard ==
    /\ base = "login" /\ kbShown
    /\ kb' = FALSE /\ kbShown' = FALSE
    /\ UNCHANGED <<vars, base, quit_mbox, quitShown, taskVars, pressed, headers>>

\* if (task == NULL) task = lv_task_create(...), in the files fs.
TaskCreate(fs) ==
    /\ task' = task \cup fs
    /\ running' = running \cup (fs \ task)

\* (Variant of Login: the pointer to the keyboard is kept.)
LoginKeepKb ==
    /\ base = "login" /\ headers < MaxLogins
    /\ base' = "main"
    /\ kbShown' = FALSE /\ UNCHANGED kb
    /\ headers' = headers + 1
    /\ TaskCreate({"header"})
    /\ UNCHANGED <<vars, quit_mbox, quitShown, chart_flag, pressed>>

\* The login button with the right texts: login_win is deleted, and the keyboard
\* with it; main_win_create and header_create.  (With other texts a toast.)
Login ==
    /\ base = "login" /\ headers < MaxLogins
    /\ base' = "main"
    /\ kb' = FALSE /\ kbShown' = FALSE
    /\ headers' = headers + 1
    /\ TaskCreate({"header"})
    /\ UNCHANGED <<vars, quit_mbox, quitShown, chart_flag, pressed>>

-----------------------------------------------------------------------------
(* main_win.c                                                              *)

OnMain == base = "main" /\ windows = <<>> /\ ~pressed

\* The quit button: quit_mbox_create, unless there is a dialog.
Quit ==
    /\ OnMain /\ ~quit_mbox
    /\ quit_mbox' = TRUE /\ quitShown' = TRUE
    /\ UNCHANGED <<vars, base, kb, kbShown, taskVars, pressed, headers>>

\* Yes deletes main_win (the header is a child of the screen, and stays) and
\* makes the login window again; No does not.
Answer ==
    /\ OnMain /\ quitShown
    /\ quit_mbox' = FALSE /\ quitShown' = FALSE
    /\ base' \in {"main", "login"}
    /\ UNCHANGED <<vars, kb, kbShown, taskVars, pressed, headers>>

\* An item of the list but the files.
OpenItem(item) ==
    /\ OnMain /\ clicks < MaxClicks
    /\ windows' = <<[kind |-> item]>>
    /\ clicks' = clicks + 1
    /\ TaskCreate({item} \cap Tasks)
    /\ chart_flag' = (chart_flag \/ item = "chart")
    /\ UNCHANGED <<card, path, writebuffer, opened, clicked, base, dialogVars, pressed, headers>>

Unwindowed == UNCHANGED <<base, dialogVars, taskVars, pressed, headers>>

\* The file windows, which have no tasks.
FileWindows ==
    /\ \/ OnMain /\ OpenBrowser
       \/ ~pressed /\ (ClickDay \/ ClickFile)
       \/ ReadFile
    /\ Unwindowed

-----------------------------------------------------------------------------
(* app.c                                                                   *)

\* LV_EVENT_PRESSED
PressBack ==
    /\ windows # <<>> /\ Idle
    /\ pressed' = TRUE /\ chart_flag' = FALSE
    /\ UNCHANGED <<vars, base, dialogVars, task, running, headers>>

\* (Variant of UserBack: the windows' callbacks are not called.)
UserBackUnset == UNCHANGED <<task, running>>

\* (Variant of UserBack: the pointers are not reset.)
UserBackKeepTask ==
    LET gone == {Top.kind} \cap {"gauge", "clock"} \cap task
    IN  running' = running \ gone /\ UNCHANGED task

\* USER_EVENT_BACK: the gauge and the clock delete their task.
UserBack ==
    LET gone == {Top.kind} \cap {"gauge", "clock"} \cap task
    IN  task' = task \ gone /\ running' = running \ gone

\* LV_EVENT_RELEASED or LV_EVENT_PRESS_LOST
ReleaseBack ==
    /\ pressed
    /\ pressed' = FALSE /\ chart_flag' = FALSE
    /\ UserBack
    /\ Back
    /\ UNCHANGED <<base, dialogVars, headers>>

-----------------------------------------------------------------------------
WindowsNext ==
    \/ TouchField \/ CloseKeyboard \/ Login
    \/ Quit \/ Answer \/ \E item \in Items : OpenItem(item)
    \/ FileWindows \/ PressBack \/ ReleaseBack
    \/ Save /\ Unwindowed

WindowsSpec == WindowsInit /\ [][WindowsNext]_winVars

-----------------------------------------------------------------------------
(* Properties.                                                             *)

Shown(kind) == \E w \in DOMAIN windows : windows[w].kind = kind

\* The tasks that write when lv_task_handler comes to them.
Writing == IF Top.kind = "opening" THEN {}
           ELSE {t \in running : t = "chart" => chart_flag}

\* No task writes to an object that was deleted with its window: not after Back,
\* between its press and its release, in a second login, nor when the window is
\* opened again.
TasksTouchLiving ==
    \A t \in Writing : IF t = "header" THEN headers > 0 ELSE Shown(t)

\* A window on the screen is kept up to date until its Back is pressed, however
\* often it was left and opened before: a pointer not reset when its task is
\* deleted, or a flag left behind by another window's Back, would freeze it.
ShownIsLive ==
    \A t \in Tasks : (IF t = "header" THEN base = "main" ELSE Shown(t) /\ ~pressed)
                     /\ Top.kind # "opening" => t \in Writing

\* kb and quit_mbox are set exactly while there is a keyboard or a dialog.
DialogGuards ==
    /\ kb <=> kbShown
    /\ quit_mbox <=> quitShown
    /\ kbShown => base = "login"
    /\ quitShown => base = "main"

\* A pointer task is set exactly while its LVGL task runs; those of the gauge and
\* the clock, exactly while their window is there.
TaskGuards ==
    /\ task = running
    /\ \A t \in {"clock", "gauge"} : t \in task <=> Shown(t)

\* The pointers that keep a second keyboard, dialog or task from being made are
\* right after any history of windows and logins: a stale one would refuse every
\* later one, a lost one would let two be made, of which one could never be
\* closed or deleted.
GuardsRight == DialogGuards /\ TaskGuards
=============================================================================
