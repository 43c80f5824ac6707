----------------------------- MODULE MCDenPage -----------------------------
(***************************************************************************)
(* DenPage for TLC, with bounds of their own for each of four scenes:      *)
(* several sessions and calls in a browser; a full reset, served step by   *)
(* step, as a browser and as the desktop see it; the desktop's folder.     *)
(***************************************************************************)
EXTENDS DenPage

VARIABLE scene

\* What the page runs in, how often it is admitted, how many calls wait, how many
\* full resets are served, whether the folder is changed, and which dialogs open.
Scene(in, joins, waiting, resetting, folder, asks) ==
  [in |-> in, joins |-> joins, waiting |-> waiting, resetting |-> resetting,
   folder |-> folder, asks |-> asks]

HostAsks == {"clearMessages", "clearTransfers", "resetHost", "remove"}
ShellAsks == {"leaveDesktop", "resetAll", "restore", "restart"}

Scenes ==
  {Scene("browser", 2, 2, 0, FALSE, HostAsks),
   Scene("browser", 2, 1, 1, FALSE, {"resetHost"}),
   Scene("desktop", 2, 1, 1, FALSE, {"resetHost", "leaveDesktop", "resetAll"}),
   Scene("desktop", 1, 1, 0, TRUE, ShellAsks)}

\* The shell only does what a full reset asks for, and folders stay as they are.
FolderLeftAlone ==
  /\ ~moved
  /\ \A n \in DOMAIN invoked :
       invoked[n].op # "get" => invoked[n].op # "set" /\ invoked[n].seen.op = "resetAll"

WithinScene ==
  /\ runtime = scene.in
  /\ born <= scene.joins
  /\ born = scene.joins => \A c \in calls : c.op \in AnyRegistration => c.answer # "none"
  /\ Cardinality(calls) <= scene.waiting
  /\ Cardinality(resets) <= scene.resetting
  /\ scene.folder \/ FolderLeftAlone
  /\ dialog # NoDialog => dialog.shown.op \in scene.asks

MCInit == Init /\ scene \in Scenes /\ WithinScene
MCNext == Next /\ UNCHANGED scene /\ WithinScene'
MCSpec == MCInit /\ [][MCNext]_<<vars, scene>>
=============================================================================
