------------------------------ MODULE Console ------------------------------
(***************************************************************************)
(* The console programs of the package interactive: the menu with its      *)
(* screens, and the update checker.  Each runs in the event loop of the    *)
(* terminal library: a message is given to the model's Update, the model   *)
(* that it returns takes its place and is asked for its View, and the      *)
(* command that it returns is run in a goroutine, which sends a message    *)
(* when it is done.  The library recovers from a panic in Update or View   *)
(* and returns it as an error; it does not wait for the commands.          *)
(***************************************************************************)
EXTENDS Integers

Entries == 9      \* entries of the menu
BootSteps == 25   \* ticks until the boot screen is done

VARIABLES
  program,     \* "menu" or "update": the program that is run
  run,         \* "running", "returned", "error" or "panicked": RunMenu or RunUpdateChecker
  held,        \* what the loop holds: a "model", a "pointer" to one, or "nil"
  view,        \* the menu's screen
  cursor,
  boot,        \* ticks of the boot screen so far
  quitSent,    \* tea.Quit has been returned: its message is under way
  ustate,      \* state of the update checker
  fetch,       \* the command of the checker that runs, "check" or "download", or how the
               \* download has ended, "failed" or "renamed", until its message is read
  tmp,         \* the downloaded file is in the temporary directory
  replaced     \* the executable is the downloaded one

cvars == <<program, run, held, view, cursor, boot, quitSent, ustate, fetch, tmp, replaced>>
menuOnly   == <<program, ustate, fetch, tmp, replaced>>
updateOnly == <<program, held, view, cursor, boot>>

NewConsole ==
  /\ program \in {"menu", "update"} /\ run = "running" /\ held = "model"
  /\ view = "menu" /\ cursor = 0 /\ boot = 0 /\ quitSent = FALSE
  /\ ustate = "checking" /\ fetch = IF program = "update" THEN "check" ELSE "none"
  /\ tmp = FALSE /\ replaced = FALSE

Menu   == program = "menu" /\ run = "running"
Update == program = "update" /\ run = "running"

\* These screens are models of their own, and their Update gets the keys.
OwnScreens == {"connect", "help", "topology"}

-----------------------------------------------------------------------------
(* The menu.                                                               *)

\* The Update of connectWizard, helpModel and topologyModel returns no model:
\* the next View panics, in the library's loop.
ScreenKey ==
  /\ Menu /\ view \in OwnScreens
  /\ held' = "nil" /\ run' = "error"
  /\ UNCHANGED <<view, cursor, boot, quitSent, menuOnly>>

\* Update has a value receiver, handleKeyMsg a pointer to its copy, and that is
\* what a key leaves in the loop.
Key == Menu /\ view \notin OwnScreens /\ held' = "pointer"

Booted == boot = BootSteps

KeyQuit ==
  /\ Key
  /\ IF view = "menu" THEN quitSent' = TRUE /\ UNCHANGED view
                      ELSE view' = "menu" /\ UNCHANGED quitSent
  /\ UNCHANGED <<run, cursor, boot, menuOnly>>

\* Up and down go round.
KeyMove ==
  /\ Key
  /\ cursor' \in IF Booted THEN {(cursor + Entries - 1) % Entries, (cursor + 1) % Entries}
                           ELSE {cursor}
  /\ UNCHANGED <<run, view, boot, quitSent, menuOnly>>

KeyScreen ==
  /\ Key /\ view' \in {"help", "topology"}
  /\ UNCHANGED <<run, cursor, boot, quitSent, menuOnly>>

\* handleMenuSelect: the dashboard and the exit quit.
Screens == <<"connect", "dashboard", "info", "install", "update", "disconnect", "topology",
             "help", "quit">>

KeyEnter ==
  /\ Key
  /\ view' = IF Booted /\ cursor # 8 THEN Screens[cursor + 1] ELSE view
  /\ quitSent' = (quitSent \/ (Booted /\ cursor \in {1, 8}))
  /\ UNCHANGED <<run, cursor, boot, menuOnly>>

\* Themes, the status bar, keys without a meaning.
KeyOther == Key /\ UNCHANGED <<run, view, cursor, boot, quitSent, menuOnly>>

\* A tick, the system's load, the size of the window, the spinner: Update returns the model.
MenuTick ==
  /\ Menu /\ held' = "model"
  /\ boot' = IF Booted THEN boot ELSE boot + 1
  /\ UNCHANGED <<run, view, cursor, quitSent, menuOnly>>

MenuMessage == Menu /\ held' = "model" /\ UNCHANGED <<run, view, cursor, boot, quitSent, menuOnly>>

\* The loop gets the quit message; RunMenu asserts that what it held is a model.
MenuQuits ==
  /\ Menu /\ quitSent
  /\ run' = IF held = "model" THEN "returned" ELSE "panicked"
  /\ UNCHANGED <<held, view, cursor, boot, quitSent, menuOnly>>

-----------------------------------------------------------------------------
(* The update checker.                                                     *)

\* What checkForUpdate may send.
Checked ==
  /\ fetch = "check" /\ fetch' = "none"
  /\ ustate' \in IF Update THEN {"found", "notfound", "error"} ELSE {ustate}
  /\ UNCHANGED <<run, quitSent, tmp, replaced, updateOnly>>

\* Enter downloads what was found, and leaves at the end.
UpdateEnter ==
  /\ Update
  /\ \/ /\ ustate = "found" /\ ustate' = "downloading" /\ fetch' = "download"
        /\ UNCHANGED quitSent
     \/ /\ ustate \in {"done", "notfound", "error"} /\ quitSent' = TRUE
        /\ UNCHANGED <<ustate, fetch>>
     \/ ustate \in {"checking", "downloading"} /\ UNCHANGED <<ustate, fetch, quitSent>>
  /\ UNCHANGED <<run, tmp, replaced, updateOnly>>

UpdateKeyQuit ==
  /\ Update /\ quitSent' = TRUE
  /\ UNCHANGED <<run, ustate, fetch, tmp, replaced, updateOnly>>

UpdateQuits ==
  /\ Update /\ quitSent /\ run' = "returned"
  /\ UNCHANGED <<quitSent, ustate, fetch, tmp, replaced, updateOnly>>

\* downloadUpdate writes a temporary file ...
DownloadToTmp ==
  /\ fetch = "download" /\ ~tmp /\ tmp' = TRUE
  /\ UNCHANGED <<run, quitSent, ustate, fetch, replaced, updateOnly>>

\* ... or fails, before or within the copy or at the rename, which leaves the file ...
DownloadFails ==
  /\ fetch = "download" /\ fetch' = "failed"
  /\ UNCHANGED <<run, quitSent, ustate, tmp, replaced, updateOnly>>

\* Mutant: the result of the rename is not looked at.
ReplaceUnchecked ==
  /\ fetch = "download" /\ tmp /\ fetch' = "renamed"
  /\ \E ok \in BOOLEAN : tmp' = ~ok /\ replaced' = ok
  /\ UNCHANGED <<run, quitSent, ustate, updateOnly>>

\* ... and renames it over the executable, whether or not the program still runs.
Replace ==
  /\ fetch = "download" /\ tmp /\ fetch' = "renamed"
  /\ tmp' = FALSE /\ replaced' = TRUE
  /\ UNCHANGED <<run, quitSent, ustate, updateOnly>>

\* The message of the download reaches the model while the program runs.
Downloaded ==
  /\ fetch \in {"failed", "renamed"} /\ fetch' = "none"
  /\ ustate' = IF ~Update THEN ustate ELSE IF fetch = "renamed" THEN "done" ELSE "error"
  /\ UNCHANGED <<run, quitSent, tmp, replaced, updateOnly>>

ConsoleNext ==
  \/ ScreenKey \/ KeyQuit \/ KeyMove \/ KeyScreen \/ KeyEnter \/ KeyOther
  \/ MenuTick \/ MenuMessage \/ MenuQuits
  \/ Checked \/ UpdateEnter \/ UpdateKeyQuit \/ UpdateQuits
  \/ DownloadToTmp \/ DownloadFails \/ Replace \/ Downloaded

ConsoleSpec == NewConsole /\ [][ConsoleNext]_cvars

-----------------------------------------------------------------------------

\* The types; the cursor is on an entry, and only a failed program holds no model.
ConsoleTypeOK ==
  /\ program \in {"menu", "update"}
  /\ run \in {"running", "returned", "error", "panicked"}
  /\ held \in {"model", "pointer", "nil"} /\ (held = "nil" => run = "error")
  /\ view \in {Screens[i] : i \in 1 .. Entries} \cup {"menu"}
  /\ cursor \in 0 .. Entries - 1 /\ boot \in 0 .. BootSteps /\ quitSent \in BOOLEAN
  /\ ustate \in {"checking", "found", "notfound", "downloading", "done", "error"}
  /\ fetch \in {"none", "check", "download", "failed", "renamed"} /\ tmp \in BOOLEAN /\ replaced \in BOOLEAN

\* What the update checker shows is so, whatever is pressed while a command runs: the
\* executable has been replaced when it says done, and not when it shows an error or still
\* offers the download.
UpdateTellsTruth ==
  /\ ustate = "done" => replaced
  /\ run = "running" /\ ustate \in {"found", "notfound", "error"} => ~replaced

\* "Returns the selected menu index and any error encountered": RunMenu returns.
MenuReturns == run # "panicked"
=============================================================================
