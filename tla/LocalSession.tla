---------------------------- MODULE LocalSession ----------------------------
(***************************************************************************)
(* The desktop process: one zfstool without a command, from start to exit. *)
(*                                                                         *)
(* It starts an API agent of its own on a Unix socket whose path bears the *)
(* process id (internal/gui/embed.go), a loopback UI server that proxies   *)
(* /v1 to it (session.go), and a native window or, without one, a browser  *)
(* (run_native.go, browser_session.go).  With -agent-socket or -agent-url  *)
(* the agent is another process.  Stop gives the UI server 5 s, and then   *)
(* the embedded agent 3 s, to finish what they are serving.                *)
(*                                                                         *)
(* A process that is killed leaves its socket file behind, and a later one *)
(* may be given the same process id and so the same path.                  *)
(***************************************************************************)
EXTENDS Naturals

CONSTANTS
  Req,           \* requests of the page, in one process
  MaxProcesses,  \* bound: processes started with this process id
  MaxFaults      \* bound: failures of the environment

ASSUME BoundAssumption == MaxProcesses \in Nat /\ MaxFaults \in Nat

VARIABLES
  pc,         \* what the main goroutine is doing
  plan,       \* what it does after sess.Stop() or stopAgent()
  mode,       \* a native window, or a browser
  embedded,   \* the session has an agent of its own
  processes,  \* processes started so far
  session,    \* sessions started so far, in all processes
  earlier,    \* history: those of the processes before this one
  file,       \* the session whose agent bound the path; 0 if there is no file
  agent,      \* the embedded agent of each session
  ui,         \* the UI server of the current session
  req,        \* where each request is
  faults,     \* failures of the environment so far
  graceOver   \* history: a grace of this process ran out with requests active

vars == <<pc, plan, mode, embedded, processes, session, earlier, file, agent, ui,
          req, faults, graceOver>>

Starting == {"resolve", "proxy", "listen"}
Started  == {"open", "notify", "window", "wait"}
Stopping == {"stopUI", "drainUI", "stopAgent", "drainAgent", "stopped"}
Gone     == {"exited", "fatal", "interrupted", "crashed"}

MaxSessions == 2 * MaxProcesses
Session == 1 .. MaxSessions

TypeOK ==
  /\ pc \in {"off"} \cup Starting \cup Started \cup Stopping \cup Gone
  /\ plan \in {"exit", "browser", "fatal"}
  /\ mode \in {"native", "browser"} /\ embedded \in BOOLEAN
  /\ processes \in Nat /\ faults \in Nat
  /\ session \in {0} \cup Session /\ earlier \in {0} \cup Session
  /\ file \in {0} \cup Session
  /\ agent \in [Session -> {"none", "bound", "serving", "draining", "closed"}]
  /\ ui \in {"none", "listening", "closed"}
  /\ req \in [Req -> {"idle", "ui", "agent", "answered", "failed"}]
  /\ graceOver \in BOOLEAN

Init ==
  /\ pc = "off" /\ plan = "exit" /\ mode = "browser" /\ embedded = TRUE
  /\ processes = 0 /\ session = 0 /\ earlier = 0 /\ file = 0
  /\ agent = [s \in Session |-> "none"]
  /\ ui = "none" /\ req = [q \in Req |-> "idle"]
  /\ faults = 0 /\ graceOver = FALSE

-----------------------------------------------------------------------------
Goto(from, to) == pc = from /\ pc' = to

\* Something the program depends on fails.
Fault == faults < MaxFaults /\ faults' = faults + 1

\* Run(): a native build with a display tries a window, any other goes to
\* runBrowserSession. The flags choose the agent.
Start ==
  /\ pc \in {"off"} \cup Gone
  /\ processes < MaxProcesses
  /\ processes' = processes + 1
  /\ pc' = "resolve" /\ plan' = "exit"
  /\ mode' \in {"native", "browser"} /\ embedded' \in BOOLEAN
  /\ ui' = "none" /\ req' = [q \in Req |-> "idle"] /\ graceOver' = FALSE
  /\ earlier' = session
  /\ UNCHANGED <<session, file, agent, faults>>

\* A mutant: the path is bound as it is found.
KeepSocket(f) == f

\* What is left at the path when ListenUnix has removed what was there.
RemoveSocket(f) == 0

\* resolveGUIAgent: an external agent is taken as it is. An embedded one
\* binds the path, which fails if something is still there.
ResolveAgent ==
  /\ pc = "resolve"
  /\ session' = session + 1
  /\ \/ /\ embedded /\ RemoveSocket(file) = 0
        /\ pc' = "proxy" /\ file' = session'
        /\ agent' = [agent EXCEPT ![session'] = "bound"]
        /\ UNCHANGED plan
     \/ /\ embedded /\ RemoveSocket(file) # 0
        /\ pc' = "stopped" /\ plan' = "fatal"
        /\ UNCHANGED <<file, agent>>
     \/ /\ ~embedded
        /\ pc' = "proxy"
        /\ UNCHANGED <<plan, file, agent>>
  /\ UNCHANGED <<mode, embedded, processes, earlier, ui, req, faults, graceOver>>

\* The directory cannot be made, or what is at the path not removed: it stays.
\* Or it is removed, and the socket cannot be bound. The caller: log.Fatal.
ResolveFails ==
  /\ embedded /\ Fault
  /\ Goto("resolve", "stopped")
  /\ plan' = "fatal" /\ file' \in {file, RemoveSocket(file)}
  /\ UNCHANGED <<mode, embedded, processes, earlier, session, agent, ui, req, graceOver>>

\* The goroutine of startEmbeddedAgent reaches Accept.
ServeAgent ==
  /\ session > 0 /\ agent[session] = "bound"
  /\ agent' = [agent EXCEPT ![session] = "serving"]
  /\ UNCHANGED <<pc, plan, mode, embedded, processes, earlier, session, file, ui, req,
                 faults, graceOver>>

\* StartLocalSession has its proxy and its static files.
BuildProxy ==
  /\ Goto("proxy", "listen")
  /\ UNCHANGED <<plan, mode, embedded, processes, earlier, session, file, agent, ui, req,
                 faults, graceOver>>

\* It has its loopback port, serves it and returns.
ListenUI ==
  /\ Goto("listen", IF mode = "native" THEN "open" ELSE "notify")
  /\ ui' = "listening"
  /\ UNCHANGED <<plan, mode, embedded, processes, earlier, session, file, agent, req,
                 faults, graceOver>>

\* A mutant: the caller is told of the error, the agent is not.
SetupFailsUnstopped ==
  /\ pc \in {"proxy", "listen"} /\ Fault
  /\ pc' = "stopped" /\ plan' = "fatal"
  /\ UNCHANGED <<mode, embedded, processes, earlier, session, file, agent, ui, req, graceOver>>

\* An -agent-url that is none, no static files, no port: the agent is stopped
\* and the caller ends the process with log.Fatal.
SetupFails ==
  /\ pc \in {"proxy", "listen"} /\ Fault
  /\ pc' = "stopAgent" /\ plan' = "fatal"
  /\ UNCHANGED <<mode, embedded, processes, earlier, session, file, agent, ui, req, graceOver>>

\* webview.New and w.Run.
OpenWindow ==
  /\ Goto("open", "window")
  /\ UNCHANGED <<plan, mode, embedded, processes, earlier, session, file, agent, ui, req,
                 faults, graceOver>>

\* A mutant: the browser session is run while the first one still is.
NoWindowUnstopped ==
  /\ Goto("open", "resolve")
  /\ plan' = "exit" /\ mode' = "browser" /\ ui' = "none"
  /\ UNCHANGED <<embedded, processes, earlier, session, file, agent, req, faults, graceOver>>

\* Nothing to draw on: Stop, then a browser session in the same process.
NoWindow ==
  /\ Goto("open", "stopUI")
  /\ plan' = "browser"
  /\ UNCHANGED <<mode, embedded, processes, earlier, session, file, agent, ui, req,
                 faults, graceOver>>

\* signal.Notify, after the browser was told to open the page.
Notify ==
  /\ Goto("notify", "wait")
  /\ UNCHANGED <<plan, mode, embedded, processes, earlier, session, file, agent, ui, req,
                 faults, graceOver>>

\* A mutant: the agent is stopped without the UI server before it.
QuitAgentOnly ==
  /\ Goto("window", "stopAgent") \/ Goto("wait", "stopAgent")
  /\ UNCHANGED <<plan, mode, embedded, processes, earlier, session, file, agent, ui, req,
                 faults, graceOver>>

\* The window is closed (or Ctrl+Q), or the browser session is signalled:
\* the deferred sess.Stop() runs.
Quit ==
  /\ Goto("window", "stopUI") \/ Goto("wait", "stopUI")
  /\ UNCHANGED <<plan, mode, embedded, processes, earlier, session, file, agent, ui, req,
                 faults, graceOver>>

-----------------------------------------------------------------------------
Active == {q \in Req : req[q] \in {"ui", "agent"}}

\* The page is open from the moment the window or the browser is.
Accept(q) ==
  /\ req[q] = "idle"
  /\ ui = "listening" /\ pc \in {"notify", "window", "wait"}
  /\ req' = [req EXCEPT ![q] = "ui"]
  /\ UNCHANGED <<pc, plan, mode, embedded, processes, earlier, session, file, agent, ui,
                 faults, graceOver>>

\* The agent listening at the path; while it is only bound, a connection
\* waits in its queue.
Listener == IF file = 0 THEN "none" ELSE agent[file]

\* The proxy dials the socket: an agent that serves it takes the request; a
\* path without a listener refuses it. An external agent may be down.
Dial(q) ==
  /\ req[q] = "ui"
  /\ \/ /\ embedded => Listener = "serving"
        /\ req' = [req EXCEPT ![q] = "agent"]
     \/ /\ embedded => Listener \in {"none", "draining", "closed"}
        /\ req' = [req EXCEPT ![q] = "failed"]
  /\ UNCHANGED <<pc, plan, mode, embedded, processes, earlier, session, file, agent, ui,
                 faults, graceOver>>

\* A handler finishes; its commands may take up to a day (zfs diff).
Respond(q) ==
  /\ req[q] = "agent"
  /\ req' = [req EXCEPT ![q] = "answered"]
  /\ UNCHANGED <<pc, plan, mode, embedded, processes, earlier, session, file, agent, ui,
                 faults, graceOver>>

-----------------------------------------------------------------------------
\* httpServer.Shutdown: no new connections, then wait for the active ones.
StopUI ==
  /\ Goto("stopUI", "drainUI")
  /\ ui' = "closed"
  /\ UNCHANGED <<plan, mode, embedded, processes, earlier, session, file, agent, req,
                 faults, graceOver>>

\* A mutant: Shutdown with a context that has no deadline.
DrainUnbounded ==
  /\ Goto("drainUI", "stopAgent") /\ Active = {}
  /\ UNCHANGED <<plan, mode, embedded, processes, earlier, session, file, agent, ui, req,
                 faults, graceOver>>

\* Shutdown returns when nothing is active, or after its 5 s.
DrainUI ==
  /\ Goto("drainUI", "stopAgent")
  /\ graceOver' = (graceOver \/ Active # {})
  /\ UNCHANGED <<plan, mode, embedded, processes, earlier, session, file, agent, ui, req,
                 faults>>

\* stopAgent: hs.Shutdown closes the listener, which removes its file, if the
\* server has reached Accept. An external agent is left alone.
StopAgent ==
  /\ Goto("stopAgent", IF embedded THEN "drainAgent" ELSE "stopped")
  /\ IF embedded
     THEN /\ file' = IF agent[session] = "serving" THEN 0 ELSE file
          /\ agent' = [agent EXCEPT ![session] = "draining"]
     ELSE UNCHANGED <<file, agent>>
  /\ UNCHANGED <<plan, mode, embedded, processes, earlier, session, ui, req, faults, graceOver>>

\* Nothing is active or the 3 s are over: ln.Close() and os.Remove. The
\* directory, in which the socket could be made, lets it be removed.
DrainAgent ==
  /\ Goto("drainAgent", "stopped")
  /\ graceOver' = (graceOver \/ \E q \in Req : req[q] = "agent")
  /\ agent' = [agent EXCEPT ![session] = "closed"]
  /\ file' = 0
  /\ UNCHANGED <<plan, mode, embedded, processes, earlier, session, ui, req, faults>>

\* What a process that ends takes with it: its requests and its listeners,
\* not the file at the path.
Die ==
  /\ req' = [q \in Req |-> IF q \in Active THEN "failed" ELSE req[q]]
  /\ agent' = [s \in Session |-> IF agent[s] = "none" THEN "none" ELSE "closed"]
  /\ ui' = "closed"
  /\ UNCHANGED <<plan, mode, embedded, processes, earlier, session, file, faults, graceOver>>

\* main returns, or log.Fatal.
Exit ==
  /\ plan # "browser"
  /\ Goto("stopped", IF plan = "fatal" THEN "fatal" ELSE "exited")
  /\ Die

\* runBrowserSession(args) after a native window could not be had.
FallBack ==
  /\ plan = "browser"
  /\ Goto("stopped", "resolve")
  /\ plan' = "exit" /\ mode' = "browser" /\ ui' = "none"
  /\ UNCHANGED <<embedded, processes, earlier, session, file, agent, req, faults, graceOver>>

\* SIGINT and SIGTERM are handled from Notify on; before it, and in native
\* mode at any time, they end the process.
Handled == mode = "browser" /\ plan = "exit" /\ pc \in {"wait"} \cup Stopping

Interrupt ==
  /\ pc \notin {"off"} \cup Gone /\ ~Handled
  /\ pc' = "interrupted"
  /\ Die

\* SIGKILL, a panic, the power.
Crash ==
  /\ pc \notin {"off"} \cup Gone
  /\ pc' = "crashed"
  /\ Die

-----------------------------------------------------------------------------
StartUp == ResolveAgent \/ BuildProxy \/ ListenUI \/ OpenWindow \/ Notify
ShutDown == StopUI \/ DrainUI \/ StopAgent \/ DrainAgent \/ Exit \/ FallBack

Next ==
  \/ Start \/ StartUp \/ ShutDown
  \/ ResolveFails \/ SetupFails \/ NoWindow \/ ServeAgent \/ Quit
  \/ \E q \in Req : Accept(q) \/ Dial(q) \/ Respond(q)
  \/ Interrupt \/ Crash

Spec == Init /\ [][Next]_vars

\* The goroutines run, and the two graces end by themselves. Nothing is
\* assumed of the requests: a command may hang for longer than both.
FairSpec == Spec /\ WF_vars(StartUp) /\ WF_vars(ShutDown) /\ WF_vars(ServeAgent)

-----------------------------------------------------------------------------
Live(s) == agent[s] \in {"bound", "serving", "draining"}

\* A process that ends by itself, on whichever of its paths, leaves no agent;
\* and once it had one it leaves no file at the path, also when only a part of
\* the session had been set up and when the window could not be had and the
\* second session got no agent. One that never had an agent may leave there
\* what an earlier process, killed or interrupted, did.
OrderlyExitTearsDown ==
  pc \in {"exited", "fatal"} =>
    /\ embedded /\ session > earlier => file = 0
    /\ \A s \in Session : ~Live(s)

\* From the moment StartLocalSession has an agent until the UI server has been
\* drained, the file at the path is the socket of this session's agent and no
\* other agent lives: the stop of an earlier session in the process, or what a
\* killed process left, does not take it away.
AgentReachable ==
  embedded /\ pc \in {"proxy", "listen", "stopUI", "drainUI"} \cup Started =>
    /\ file = session /\ agent[session] \in {"bound", "serving"}
    /\ \A s \in Session : Live(s) => s = session

\* A start fails only if something outside the program did: a socket file
\* left by a killed process with the same id is no obstacle.
FatalNeedsFault == pc = "fatal" => faults > 0

\* A request the UI server accepted fails only if a grace ran out, the process
\* was killed, or the agent is another process: the UI server is drained while
\* the agent still serves.
DrainedBeforeStop ==
  embedded /\ (\E q \in Req : req[q] = "failed")
    => graceOver \/ pc \in {"interrupted", "crashed"}

\* Quitting always ends the process, whatever a request is still waiting for.
QuitEnds == pc = "stopUI" /\ plan = "exit" ~> pc \in Gone
=============================================================================
