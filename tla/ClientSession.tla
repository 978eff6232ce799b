----------------------------- MODULE ClientSession -----------------------------
(***************************************************************************)
(* A preview session (Application::preview, UISystem, ClientSessionContext)*)
(* inside the loop of RecentClients: frames in which the user starts jobs, *)
(* asks for another client or closes the window, beside worker processes   *)
(* that end when they do.  It is detailed for one instance; of the others  *)
(* only the result of a session is kept.                                   *)
(*                                                                         *)
(* There is one pointer and no keyboard navigation, and ImGui gives a frame*)
(* one release of a button: a frame has at most one click.                 *)
(***************************************************************************)
EXTENDS RecentClients

CONSTANTS
  Me,             (* the instance looked at                                  *)
  MaxSessions     (* bound: sessions it holds                                *)

ASSUME SessionAssumption == Me \in Instances /\ MaxSessions \in Nat

Jobs == {"geodata", "territory", "pathfinding"}

VARIABLES
  frame,      (* where Me is in a frame, or "closed"                         *)
  running,    (* application_context.running                                 *)
  blocked,    (* m_switch_blocked                                            *)
  requested,  (* m_requested_client                                          *)
  exit,       (* why Me ended last: "closed", "lost", "crash", or None        *)
  clicked,    (* whether the click of this frame has been                    *)
  active,     (* jobs whose controller says that they run                    *)
  alive,      (* jobs whose process does                                     *)
  sessions    (* sessions so far                                             *)

jobVars == <<active, alive>>
sessionVars == <<frame, running, blocked, requested, exit, clicked, jobVars, sessions>>
vars == <<recentVars, sessionVars>>

Closed ==
  /\ frame = "closed" /\ running = FALSE /\ blocked = FALSE /\ requested = None
  /\ exit = None /\ clicked = FALSE /\ active = {} /\ alive = {}

Init == RecentInit /\ Closed /\ sessions = 0

(* Everything of a session goes with it; its jobs are in job objects that  *)
(* end with their controllers.                                             *)
Close ==
  /\ frame' = "closed" /\ running' = FALSE /\ blocked' = FALSE /\ requested' = None
  /\ clicked' = FALSE /\ active' = {} /\ alive' = {}
  /\ UNCHANGED sessions

(* The catalog is read again; without its directory that throws, which     *)
(* nothing catches.                                                        *)
Preview ==
  /\ pc[Me] = "preview" /\ frame = "closed" /\ sessions < MaxSessions
  /\ client[Me] \in valid
  /\ frame' = "events" /\ running' = TRUE
  /\ sessions' = sessions + 1
  /\ UNCHANGED <<recentVars, blocked, requested, exit, clicked, jobVars>>
NoPreview ==
  /\ pc[Me] = "preview" /\ frame = "closed"
  /\ client[Me] \notin valid
  /\ Leave(Me) /\ exit' = "lost"
  /\ UNCHANGED <<frame, running, blocked, requested, clicked, jobVars, sessions>>

(* WindowSystem::frame_begin: the window is closed, or Escape pressed.     *)
Events ==
  /\ frame = "events"
  /\ running' \in {running, FALSE}
  /\ frame' = "poll" /\ clicked' = FALSE
  /\ UNCHANGED <<recentVars, blocked, requested, exit, jobVars, sessions>>

(* Mutant of Poll: the query is forgotten.                                 *)
PollTwo ==
  /\ frame = "poll"
  /\ active' = {j \in active : j \in alive \/ j = "pathfinding"}
  /\ blocked' = (active' \cap {"geodata", "territory"} # {})
  /\ frame' = "windows"
  /\ UNCHANGED <<recentVars, running, requested, exit, clicked, alive, sessions>>

(* UISystem::frame_begin polls two of its controllers, and looks at all    *)
(* three; a query is polled by its own window, at the end.                 *)
Poll ==
  /\ frame = "poll"
  /\ active' = {j \in active : j \in alive \/ j = "pathfinding"}
  /\ blocked' = (active' # {})
  /\ frame' = "windows"
  /\ UNCHANGED <<recentVars, running, requested, exit, clicked, alive, sessions>>

(* A job may fail to start.  Alone is a bound: no job is looked at while   *)
(* another instance runs, which it would not notice.  What its window  *)
(* says of the block afterwards is as in the code: the geodata window knows*)
(* two jobs, that of the territory one, that of pathfinding none.          *)
Knows(j) ==
  CASE j = "geodata" -> {"geodata", "territory"}
    [] j = "territory" -> {"territory"}
Alone == \A i \in Instances \ {Me} : pc[i] = "off"
StartJob(j) ==
  /\ Alone
  /\ active' \in {active, active \cup {j}}
  /\ alive' = IF j \in active' THEN alive \cup {j} ELSE alive
StartBuild(j) ==
  /\ frame = "windows" /\ ~clicked /\ requested = None
  /\ j \in {"geodata", "territory"} \ active
  /\ StartJob(j)
  /\ blocked' = (active' \cap Knows(j) # {})
  /\ clicked' = TRUE
  /\ UNCHANGED <<recentVars, frame, running, requested, exit, sessions>>

Request(c) == requested' = IF c \in valid THEN c ELSE requested
MayRequest == ~blocked /\ requested = None /\ sessions < MaxSessions
RequestSwitch(c) ==
  /\ frame = "windows" /\ ~clicked /\ MayRequest
  /\ \E k \in DOMAIN entries[Me] : entries[Me][k] = c
  /\ Request(c) /\ clicked' = TRUE
  /\ UNCHANGED <<recentVars, frame, running, blocked, exit, jobVars, sessions>>

(* The folder picker is modal: the frame waits for it.                     *)
Browse ==
  /\ frame = "windows" /\ ~clicked /\ MayRequest
  /\ frame' = "picker" /\ clicked' = TRUE
  /\ UNCHANGED <<recentVars, running, blocked, requested, exit, jobVars, sessions>>
Picked(c) ==
  /\ frame = "picker" /\ frame' = "windows"
  /\ IF c = None THEN UNCHANGED requested ELSE Request(c)
  /\ UNCHANGED <<recentVars, running, blocked, exit, clicked, jobVars, sessions>>

(* PathfindingWindow::frame: the query is polled; one that is given up is  *)
(* ended without waiting for its process.                                  *)
PollQuery ==
  /\ frame = "windows" /\ frame' = "query"
  /\ active' \in {IF "pathfinding" \in alive THEN active ELSE active \ {"pathfinding"},
                  active \ {"pathfinding"}}
  /\ UNCHANGED <<recentVars, running, blocked, requested, exit, clicked, alive, sessions>>
StartQuery ==
  /\ frame = "query" /\ ~clicked /\ "pathfinding" \notin active
  /\ StartJob("pathfinding") /\ clicked' = TRUE
  /\ UNCHANGED <<recentVars, frame, running, blocked, requested, exit, sessions>>

(* Mutant of EndFrame: a client that was asked for does not end the loop.  *)
GoesOn ==
  /\ frame = "query"
  /\ frame' = IF running THEN "events" ELSE "shutdown"
  /\ UNCHANGED <<recentVars, running, blocked, requested, exit, clicked, jobVars, sessions>>

EndFrame ==
  /\ frame = "query"
  /\ running' = (running /\ requested = None)
  /\ frame' = IF running' THEN "events" ELSE "shutdown"
  /\ UNCHANGED <<recentVars, blocked, requested, exit, clicked, jobVars, sessions>>

Shutdown ==
  /\ frame = "shutdown"
  /\ IF requested = None THEN Leave(Me) /\ exit' = "closed"
                         ELSE Switch(Me, requested) /\ UNCHANGED exit
  /\ Close

(* A worker process ends, by itself or ended by its controller.            *)
WorkerEnds(j) ==
  /\ j \in alive /\ alive' = alive \ {j}
  /\ UNCHANGED <<recentVars, frame, running, blocked, requested, exit, clicked,
                 active, sessions>>

(* What the user does.                                                     *)
Clicks ==
  \/ \E j \in Jobs : StartBuild(j)
  \/ \E c \in Roots : RequestSwitch(c)
  \/ Browse \/ StartQuery

(* What the thread of the program does by itself.                          *)
Frame == Preview \/ NoPreview \/ Events \/ Poll \/ PollQuery \/ EndFrame \/ Shutdown

(* A frame reads and writes nothing that another instance does, but the     *)
(* clients that are valid: the steps of others are taken between sessions. *)
Others(i) ==
  /\ frame = "closed"
  /\ \/ Start(i) \/ Works(i) \/ Crash(i)
     \/ pc[i] = "preview" /\ (Leave(i) \/ \E c \in valid : Switch(i, c))
  /\ UNCHANGED sessionVars
Mine ==
  \/ /\ Start(Me) /\ exit' = None
     /\ UNCHANGED <<frame, running, blocked, requested, clicked, jobVars, sessions>>
  \/ Works(Me) /\ UNCHANGED sessionVars
  \/ Crash(Me) /\ Close /\ exit' = "crash"

Next ==
  \/ Mine \/ Frame \/ Clicks
  \/ \E c \in Roots \cup {None} : Picked(c)
  \/ \E j \in Jobs : WorkerEnds(j)
  \/ \E i \in Instances \ {Me} : Others(i)
  \/ \E c \in Roots : Vanish(c) /\ UNCHANGED sessionVars

Spec == Init /\ [][Next]_vars

(* The thread of the program goes on wherever it does not wait for the     *)
(* user or for a failure.                                                  *)
Saves == Promote(Me) \/ OpenTemporary(Me) \/ WriteTemporary(Me) \/ Move(Me) \/ GiveUpSaving(Me)
Fairness == WF_vars(Frame) /\ WF_vars(Saves /\ UNCHANGED sessionVars)
FairSpec == Spec /\ Fairness

(* From the click on, no job runs that the switch would end: the block is  *)
(* computed once a frame, from flags that a click of the same frame may    *)
(* change, and some windows set it from a part of them.                    *)
SwitchEndsNoJob == requested # None => active = {}

(* A client that was asked for is opened, however the window is closed     *)
(* meanwhile and wherever saving the list fails: unless the program is     *)
(* ended from outside, or the client is gone before its session begins.    *)
Opened(c) == frame # "closed" /\ requested = None /\ client[Me] = c
Lost(c) == exit = "crash" \/ (exit = "lost" /\ c \notin valid)
SwitchOpensClient == \A c \in Roots : (requested = c) ~> (Opened(c) \/ Lost(c))
=============================================================================
