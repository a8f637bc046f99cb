------------------------- MODULE LocalSessionProofs -------------------------
(* LocalSession proved for every set of requests and any number of          *)
(* processes and faults.                                                    *)
EXTENDS LocalSession, TLAPS

\* A process starts a session, and a second one only if a native window could
\* not be had: there are sessions enough for all processes.
Counted ==
  /\ processes <= MaxProcesses /\ session <= 2 * processes
  /\ pc = "resolve" => /\ session < 2 * processes
                       /\ mode = "native" => session + 1 < 2 * processes
  /\ pc \in Started \cup Stopping \cup {"proxy", "listen"} /\ mode = "native"
       => session < 2 * processes

Planned ==
  /\ pc \in {"open", "window"} => mode = "native"
  /\ plan = "browser" => mode = "native"
  /\ plan = "fatal" => faults > 0
  /\ pc = "fatal" => faults > 0

\* The session's own agent has the path, until it is asked to stop.
HasAgent == {"proxy", "listen", "stopUI", "drainUI", "stopAgent"} \cup Started

NoneLive == \A s \in Session : ~Live(s)
OnlyOwn  == \A s \in Session : Live(s) => s = session

Agents ==
  /\ embedded /\ pc \in HasAgent =>
       file = session /\ agent[session] \in {"bound", "serving"}
  /\ embedded /\ pc \in HasAgent \cup {"drainAgent"} =>
       session \in Session /\ OnlyOwn
  /\ ~embedded \/ pc \in {"off", "resolve", "stopped"} \cup Gone => NoneLive
  /\ embedded /\ pc \in {"resolve", "stopped", "exited", "fatal"} /\ session > earlier
       => file = 0

\* While the agent can be stopped nothing is active, unless a grace ran out.
Quiet ==
  /\ embedded /\ ~graceOver /\ Active # {} =>
       pc \in {"notify", "window", "wait", "stopUI", "drainUI"}
  /\ DrainedBeforeStop

IInv == TypeOK /\ Counted /\ Planned /\ Agents /\ Quiet

-----------------------------------------------------------------------------
LEMMA InitInv == Init => IInv
<1> SUFFICES ASSUME Init PROVE IInv
  OBVIOUS
<1>1. TypeOK
  BY DEF Init, TypeOK
<1>2. Counted /\ Planned
  BY BoundAssumption DEF Init, Counted, Planned, Started, Stopping
<1>3. Agents
  BY DEF Init, Agents, HasAgent, Started, Gone, NoneLive, Live
<1>4. Quiet
  BY DEF Init, Quiet, Active, DrainedBeforeStop
<1>5. QED BY <1>1, <1>2, <1>3, <1>4 DEF IInv

\* Session numbers, as the proofs use them.
LEMMA Numbers ==
  ASSUME IInv
  PROVE  /\ MaxProcesses \in Nat /\ MaxSessions \in Nat
         /\ MaxSessions = 2 * MaxProcesses /\ Session = 1 .. MaxSessions
         /\ session \in Nat /\ processes \in Nat /\ faults \in Nat
         /\ session <= 2 * processes /\ processes <= MaxProcesses
         /\ 0 \notin Session
         /\ session > 0 => session \in Session
  BY BoundAssumption DEF IInv, TypeOK, Counted, MaxSessions, Session

\* A step that moves the main goroutine only.
LEMMA MoveInv ==
  ASSUME IInv,
         UNCHANGED <<mode, embedded, processes, earlier, session, file, agent, req,
                     graceOver>>,
         faults' \in Nat, faults <= faults',
         ui' \in {"none", "listening", "closed"},
         plan' \in {"exit", "browser", "fatal"},
         plan' = "browser" => mode = "native",
         plan' = "fatal" => faults' > 0,
         pc \in HasAgent, pc' \in HasAgent,
         pc' \in {"open", "window"} => mode = "native",
         \/ pc \notin {"notify", "window", "wait", "stopUI", "drainUI"}
         \/ pc' \in {"notify", "window", "wait", "stopUI", "drainUI"}
  PROVE  IInv'
<1>1. TypeOK'
  BY DEF IInv, TypeOK, HasAgent, Started, Starting, Stopping
<1>2. Counted'
  BY DEF IInv, Counted, HasAgent, Started, Stopping
<1>3. Planned'
  BY DEF IInv, Planned, HasAgent, Started
<1>4. Agents'
  BY DEF IInv, Agents, HasAgent, Started, Gone, NoneLive, OnlyOwn, Live
<1>5. Quiet'
  BY DEF IInv, Quiet, DrainedBeforeStop, Active, HasAgent, Started
<1>6. QED BY <1>1, <1>2, <1>3, <1>4, <1>5 DEF IInv

LEMMA StartInv ==
  ASSUME IInv, Start
  PROVE  IInv'
<1>1. TypeOK'
  <2>1. /\ processes' \in Nat /\ ui' = "none" /\ graceOver' = FALSE
        /\ req' = [q \in Req |-> "idle"]
        /\ pc' = "resolve" /\ plan' = "exit"
        /\ mode' \in {"native", "browser"} /\ embedded' \in BOOLEAN
        /\ earlier' = session /\ UNCHANGED <<session, file, agent, faults>>
    BY Numbers DEF Start
  <2>2. req' \in [Req -> {"idle", "ui", "agent", "answered", "failed"}]
    BY <2>1
  <2>3. QED BY <2>1, <2>2 DEF IInv, TypeOK, Starting
<1>2. Counted' /\ Planned'
  BY Numbers DEF Start, Counted, Planned, Started, Stopping
<1>3. Agents'
  BY Numbers DEF Start, IInv, Agents, HasAgent, Started, Gone, NoneLive, Live
<1>4. Quiet'
  BY DEF Start, Quiet, DrainedBeforeStop, Active
<1>5. QED BY <1>1, <1>2, <1>3, <1>4 DEF IInv

\* The path is bound: whatever was there before, it is the new agent's.
LEMMA ResolveInv ==
  ASSUME IInv, ResolveAgent
  PROVE  IInv'
<1>1. /\ pc = "resolve" /\ session' = session + 1 /\ session' \in Session
      /\ UNCHANGED <<mode, embedded, processes, earlier, ui, req, faults, graceOver>>
      /\ plan' = plan /\ pc' = "proxy"
  BY Numbers DEF ResolveAgent, RemoveSocket, IInv, Counted
<1>2. /\ embedded => /\ file' = session'
                     /\ agent' = [agent EXCEPT ![session'] = "bound"]
      /\ ~embedded => UNCHANGED <<file, agent>>
  BY DEF ResolveAgent, RemoveSocket
<1>3. NoneLive /\ agent \in [Session -> {"none", "bound", "serving", "draining", "closed"}]
  BY <1>1 DEF IInv, TypeOK, Agents
<1>4. TypeOK'
  BY <1>1, <1>2, Numbers DEF IInv, TypeOK, Starting
<1>5. Counted'
  BY <1>1, Numbers DEF IInv, Counted
<1>6. Planned'
  BY <1>1 DEF IInv, Planned
<1>7. Agents'
  BY <1>1, <1>2, <1>3 DEF Agents, HasAgent, Started, Gone, NoneLive, OnlyOwn, Live
<1>8. Quiet'
  BY <1>1 DEF IInv, Quiet, DrainedBeforeStop, Active
<1>9. QED BY <1>4, <1>5, <1>6, <1>7, <1>8 DEF IInv

LEMMA ResolveFailsInv ==
  ASSUME IInv, ResolveFails
  PROVE  IInv'
<1>1. /\ pc = "resolve" /\ pc' = "stopped" /\ plan' = "fatal" /\ file' \in {file, 0}
      /\ faults' = faults + 1
      /\ UNCHANGED <<mode, embedded, processes, earlier, session, agent, ui, req, graceOver>>
  BY DEF ResolveFails, RemoveSocket, Fault, Goto
<1>2. TypeOK' /\ Counted' /\ Planned'
  BY <1>1, Numbers DEF IInv, TypeOK, Stopping, Counted, Planned
<1>3. Agents'
  BY <1>1 DEF IInv, Agents, HasAgent, Started, NoneLive, Live
<1>4. Quiet'
  BY <1>1 DEF IInv, Quiet, DrainedBeforeStop, Active
<1>5. QED BY <1>2, <1>3, <1>4 DEF IInv

LEMMA ServeInv ==
  ASSUME IInv, ServeAgent
  PROVE  IInv'
<1>1. /\ session \in Session /\ agent[session] = "bound"
      /\ agent' = [agent EXCEPT ![session] = "serving"]
      /\ UNCHANGED <<pc, plan, mode, embedded, processes, earlier, session, file, ui, req,
                     faults, graceOver>>
  BY Numbers DEF ServeAgent
<1>2. TypeOK'
  BY <1>1 DEF IInv, TypeOK
<1>3. Counted' /\ Planned' /\ Quiet'
  BY <1>1 DEF IInv, Counted, Planned, Quiet, DrainedBeforeStop, Active
<1>4. Agents'
  BY <1>1 DEF IInv, TypeOK, Agents, NoneLive, OnlyOwn, Live
<1>5. QED BY <1>2, <1>3, <1>4 DEF IInv

\* Requests do not touch the session; one fails only without a listener.
LEMMA RequestInv ==
  ASSUME IInv, NEW q \in Req, Accept(q) \/ Dial(q) \/ Respond(q)
  PROVE  IInv'
<1>1. UNCHANGED <<pc, plan, mode, embedded, processes, earlier, session, file, agent, ui,
                  faults, graceOver>>
  BY DEF Accept, Dial, Respond
<1>2. TypeOK'
  BY DEF IInv, TypeOK, Accept, Dial, Respond
<1>3. Counted' /\ Planned' /\ Agents'
  BY <1>1 DEF IInv, Counted, Planned, Agents, NoneLive, OnlyOwn, Live
<1>4. Quiet'
  <2>1. req \in [Req -> {"idle", "ui", "agent", "answered", "failed"}]
    BY DEF IInv, TypeOK
  <2>2. CASE Accept(q)
    <3>1. /\ pc \in {"notify", "window", "wait"}
          /\ req' = [req EXCEPT ![q] = "ui"]
      BY <2>2 DEF Accept
    <3>2. QED BY <1>1, <2>1, <3>1 DEF IInv, Quiet, DrainedBeforeStop
  <2>3. CASE Dial(q) \/ Respond(q)
    <3>1. req[q] \in {"ui", "agent"} /\ Active # {}
      BY <2>3 DEF Dial, Respond, Active
    <3>2. embedded /\ ~graceOver => Listener \in {"bound", "serving"}
      BY <3>1, Numbers DEF IInv, Quiet, Agents, HasAgent, Started, Listener
    <3>3. embedded /\ ~graceOver =>
            \A p \in Req : req'[p] = "failed" => req[p] = "failed"
      BY <2>1, <2>3, <3>2 DEF Dial, Respond
    <3>4. QED BY <1>1, <3>1, <3>3 DEF IInv, Quiet, DrainedBeforeStop
  <2>4. QED BY <2>2, <2>3
<1>5. QED BY <1>2, <1>3, <1>4 DEF IInv

\* The UI server was drained, or its grace ran out.
LEMMA DrainUIInv ==
  ASSUME IInv, DrainUI
  PROVE  IInv'
<1>1. /\ pc = "drainUI" /\ pc' = "stopAgent"
      /\ (graceOver' <=> graceOver \/ Active # {}) /\ graceOver' \in BOOLEAN
      /\ UNCHANGED <<plan, mode, embedded, processes, earlier, session, file, agent, ui, req,
                     faults>>
  BY DEF DrainUI, Goto, IInv, TypeOK
<1>2. TypeOK' /\ Counted' /\ Planned'
  BY <1>1 DEF IInv, TypeOK, Counted, Planned, Started, Starting, Stopping
<1>3. Agents'
  BY <1>1 DEF IInv, Agents, HasAgent, Started, Gone, NoneLive, OnlyOwn, Live
<1>4. Quiet'
  BY <1>1 DEF IInv, Quiet, DrainedBeforeStop, Active
<1>5. QED BY <1>2, <1>3, <1>4 DEF IInv

LEMMA StopAgentInv ==
  ASSUME IInv, StopAgent
  PROVE  IInv'
<1>1. /\ pc = "stopAgent" /\ pc' = IF embedded THEN "drainAgent" ELSE "stopped"
      /\ UNCHANGED <<plan, mode, embedded, processes, earlier, session, ui, req, faults, graceOver>>
      /\ ~embedded => UNCHANGED <<file, agent>>
      /\ embedded => /\ file' \in {0, file}
                     /\ agent' = [agent EXCEPT ![session] = "draining"]
  BY DEF StopAgent, Goto
<1>2. TypeOK'
  BY <1>1 DEF IInv, TypeOK, Stopping
<1>3. Counted' /\ Planned'
  BY <1>1 DEF IInv, Counted, Planned, Started, Stopping
<1>4. Agents'
  BY <1>1 DEF IInv, TypeOK, Agents, HasAgent, Started, Gone, NoneLive, OnlyOwn, Live
<1>5. Quiet'
  BY <1>1 DEF IInv, Quiet, DrainedBeforeStop, Active
<1>6. QED BY <1>2, <1>3, <1>4, <1>5 DEF IInv

LEMMA DrainAgentInv ==
  ASSUME IInv, DrainAgent
  PROVE  IInv'
<1>1. /\ pc = "drainAgent" /\ pc' = "stopped" /\ file' = 0
      /\ agent' = [agent EXCEPT ![session] = "closed"]
      /\ graceOver => graceOver' /\ graceOver' \in BOOLEAN
      /\ UNCHANGED <<plan, mode, embedded, processes, earlier, session, ui, req, faults>>
  BY DEF DrainAgent, Goto, IInv, TypeOK
<1>2. TypeOK' /\ Counted' /\ Planned'
  BY <1>1 DEF IInv, TypeOK, Counted, Planned, Started, Stopping, DrainAgent
<1>3. Agents'
  BY <1>1 DEF IInv, TypeOK, Agents, HasAgent, Started, Gone, NoneLive, OnlyOwn, Live
<1>4. Quiet'
  BY <1>1 DEF IInv, Quiet, DrainedBeforeStop, Active
<1>5. QED BY <1>2, <1>3, <1>4 DEF IInv

\* A process ends: with nothing active if it ends by itself, after its graces.
LEMMA DieInv ==
  ASSUME IInv, Die, pc \notin {"off"} \cup Gone, pc' \in Gone,
         pc' \in {"exited", "fatal"} => pc = "stopped",
         pc' = "fatal" => plan = "fatal"
  PROVE  IInv'
<1>1. /\ UNCHANGED <<plan, mode, embedded, processes, earlier, session, file, faults, graceOver>>
      /\ agent' \in [Session -> {"none", "closed"}] /\ ui' = "closed"
      /\ req' = [q \in Req |-> IF q \in Active THEN "failed" ELSE req[q]]
  BY DEF Die
<1>2. TypeOK'
  BY <1>1 DEF IInv, TypeOK, Gone
<1>3. Counted' /\ Planned'
  BY <1>1 DEF IInv, Counted, Planned, Gone, Started, Stopping
<1>4. Agents'
  <2>1. NoneLive'
    BY <1>1 DEF NoneLive, Live, Session, MaxSessions
  <2>2. QED BY <1>1, <2>1 DEF IInv, Agents, HasAgent, Started, Gone
<1>5. Quiet'
  <2>1. Active' = {}
    BY <1>1 DEF Active
  <2>2. embedded /\ ~graceOver /\ pc = "stopped" => Active = {}
    BY DEF IInv, Quiet
  <2>3. pc = "stopped" => pc \notin {"interrupted", "crashed"}
    OBVIOUS
  <2>4. DrainedBeforeStop'
    BY <1>1, <2>2, <2>3 DEF IInv, Quiet, DrainedBeforeStop, Gone
  <2>5. QED BY <2>1, <2>4 DEF Quiet
<1>6. QED BY <1>2, <1>3, <1>4, <1>5 DEF IInv

LEMMA FallBackInv ==
  ASSUME IInv, FallBack
  PROVE  IInv'
<1>1. /\ pc = "stopped" /\ pc' = "resolve" /\ plan = "browser" /\ plan' = "exit"
      /\ mode' = "browser" /\ ui' = "none"
      /\ UNCHANGED <<embedded, processes, earlier, session, file, agent, req, faults, graceOver>>
  BY DEF FallBack, Goto
<1>2. TypeOK' /\ Counted' /\ Planned'
  BY <1>1 DEF IInv, TypeOK, Starting, Stopping, Counted, Planned
<1>3. Agents'
  BY <1>1 DEF IInv, Agents, HasAgent, Started, NoneLive, Live
<1>4. Quiet'
  BY <1>1 DEF IInv, Quiet, DrainedBeforeStop, Active
<1>5. QED BY <1>2, <1>3, <1>4 DEF IInv

LEMMA NextInv == IInv /\ [Next]_vars => IInv'
<1> SUFFICES ASSUME IInv, [Next]_vars PROVE IInv'
  OBVIOUS
<1>1. CASE BuildProxy \/ ListenUI \/ OpenWindow \/ Notify \/ SetupFails
  <2>1. UNCHANGED <<mode, embedded, processes, earlier, session, file, agent, req, graceOver>>
    BY <1>1 DEF BuildProxy, ListenUI, OpenWindow, Notify, SetupFails
  <2>2. QED
    BY <1>1, <2>1, MoveInv, Numbers
    DEF BuildProxy, ListenUI, OpenWindow, Notify, SetupFails, Goto, Fault,
        HasAgent, Started, IInv, TypeOK, Planned
<1>2. CASE NoWindow \/ Quit \/ StopUI
  <2>1. UNCHANGED <<mode, embedded, processes, earlier, session, file, agent, req, faults, graceOver>>
    BY <1>2 DEF NoWindow, Quit, StopUI
  <2>2. QED
    BY <1>2, <2>1, MoveInv, Numbers
    DEF NoWindow, Quit, StopUI, Goto, HasAgent, Started, IInv, TypeOK, Planned
<1>3. CASE Exit
  BY <1>3, DieInv DEF Exit, Goto, Gone, IInv, TypeOK
<1>4. CASE Interrupt
  BY <1>4, DieInv DEF Interrupt, Gone
<1>5. CASE Crash
  BY <1>5, DieInv DEF Crash, Gone
<1>6. CASE UNCHANGED vars
  BY <1>6 DEF vars, IInv, TypeOK, Counted, Planned, Agents, Quiet,
              DrainedBeforeStop, Active, NoneLive, OnlyOwn, Live
<1>7. QED
  BY <1>1, <1>2, <1>3, <1>4, <1>5, <1>6, StartInv, ResolveInv, ResolveFailsInv,
     ServeInv, RequestInv, DrainUIInv, StopAgentInv, DrainAgentInv, FallBackInv
  DEF Next, StartUp, ShutDown

LEMMA Inductive == Spec => []IInv
  BY InitInv, NextInv, PTL DEF Spec

-----------------------------------------------------------------------------
\* The variables keep their types; the sessions suffice for the processes.
THEOREM TypeCorrect == Spec => []TypeOK
  BY Inductive, PTL DEF IInv

\* A process that ends by itself leaves no agent, and no file at the path once
\* it had one.
THEOREM TornDown == Spec => []OrderlyExitTearsDown
<1>1. IInv => OrderlyExitTearsDown
  BY DEF IInv, Agents, NoneLive, OrderlyExitTearsDown, Gone
<1>2. QED BY <1>1, Inductive, PTL

\* While a session runs, its own agent and no other is behind the path.
THEOREM Reachable == Spec => []AgentReachable
<1>1. IInv => AgentReachable
  BY DEF IInv, Agents, HasAgent, OnlyOwn, AgentReachable
<1>2. QED BY <1>1, Inductive, PTL

\* No start fails over a file left by an earlier process.
THEOREM FatalHasFault == Spec => []FatalNeedsFault
<1>1. IInv => FatalNeedsFault
  BY DEF IInv, Planned, FatalNeedsFault
<1>2. QED BY <1>1, Inductive, PTL

\* The UI server is drained while the agent still serves.
THEOREM Drained == Spec => []DrainedBeforeStop
<1>1. IInv => DrainedBeforeStop
  BY DEF IInv, Quiet
<1>2. QED BY <1>1, Inductive, PTL
=============================================================================
