-------------------------- MODULE McpClientProofs --------------------------
(***************************************************************************)
(* Proofs about McpClient, for any number of servers and workers, and any  *)
(* way in which the names of their tools collide.                          *)
(***************************************************************************)
EXTENDS McpClient, SequenceTheorems, TLAPS

-----------------------------------------------------------------------------
(* The inductive invariant.                                                *)

\* The manager has a session between __aenter__ and the next entry only while
\* it connects, and the entry is one that is not disabled.
OneAtATime == phase # "absent" => task = "connecting" /\ next \in Servers \ Disabled

\* Where the main thread is says how far the manager can be.
InStep ==
  /\ main \in {"registering", "up"} => task \in {"parked", "unwinding", "done"}
  /\ main \in {"asking", "forcing", "forced", "naming"} => task # "connecting"
  /\ main \in {"unregistering", "down"} => loop # "running"
  /\ main \in {"dropping", "dropped"} => raised
  /\ raised => main \in {"dropping", "dropped", "unregistering", "down"}
  /\ task = "none" <=> main = "off"
  /\ task = "parked" => next = ServerCount + 1
  /\ task \in {"none", "connecting"} => closed = {}

\* Every entry behind the manager is connected or failed.
AllTried ==
  main \notin {"unregistering", "down"} =>
    /\ clients \union failures = (1 .. next - 1) \ Disabled
    /\ clients \intersect failures = {}

\* Nobody is named before the teardown, nor by a connect_all that gave up.
NobodyNamedYet == raised \/ main \notin {"unregistering", "down"} => named = {}

\* A child that runs belongs to a session the client knows, to a server whose
\* failure it recorded, or to the one it is at.
ChildrenAreKnown ==
  ~raised =>
    IF main \in {"unregistering", "down"}
    THEN /\ alive \subseteq named \union failures \union {next}
         /\ named \intersect (failures \union {next}) = {}
    ELSE /\ alive \intersect closed = {}
         /\ \A s \in alive : \/ s \in clients \union failures
                             \/ s = next /\ (phase # "absent" \/ task \in {"unwinding", "done"})

IInv == McpTypeOK /\ OneAtATime /\ InStep /\ AllTried /\ NobodyNamedYet
        /\ ChildrenAreKnown /\ ToolsAreTheirs

\* Popping a stack that holds something leaves a stack.
LEMMA PopIsStack ==
  ASSUME NEW S, NEW s \in Seq(S), s # <<>>
  PROVE  Pop(s) \in Seq(S) /\ Top(s) \in S
<1>1. Len(s) \in Nat \ {0}
  BY EmptySeq, SMT
<1>2. \A i \in 1 .. Len(s) : s[i] \in S
  BY <1>1
<1>3. Pop(s) \in Seq(S)
  BY <1>1, <1>2, SubSeqProperties DEF Pop
<1>. QED
  BY <1>1, <1>2, <1>3 DEF Top

\* The initial state satisfies the invariant.
LEMMA InvInit == Init => IInv
<1>. SUFFICES ASSUME Init PROVE IInv
  OBVIOUS
<1>. USE ServersAssumption DEF ServersAssumption, Init, Servers
<1>1. McpTypeOK
  <2>1. calls \in [Workers -> [state : {"idle", "found", "sent", "stray"},
                               server : Servers \union {NoServer}]]
    BY DEF Idle
  <2>2. stack \in Seq(Servers)
    BY EmptySeq
  <2>3. raised \in BOOLEAN
    BY Zenon
  <2>4. next \in 1 .. ServerCount + 1 /\ turn \in 1 .. ServerCount + 1
    OBVIOUS
  <2>5. handler \in [Names -> Servers \union {NoServer}] /\ approval \in [Names -> {"unset", "ask", "auto"}]
         /\ recorded \in [Servers -> SUBSET Names]
    OBVIOUS
  <2>. QED
    BY <2>1, <2>2, <2>3, <2>4, <2>5 DEF McpTypeOK
<1>2. OneAtATime /\ InStep
  BY DEF OneAtATime, InStep
<1>3. AllTried /\ NobodyNamedYet /\ ChildrenAreKnown
  BY DEF AllTried, NobodyNamedYet, ChildrenAreKnown
<1>4. ToolsAreTheirs
  BY DEF ToolsAreTheirs, NamesAreTheirs, NothingLeftRegistered
<1>. QED
  BY <1>1, <1>2, <1>3, <1>4 DEF IInv

\* Every step keeps the types.
LEMMA TypeNext == McpTypeOK /\ OneAtATime /\ [Next]_vars => McpTypeOK'
<1>. SUFFICES ASSUME McpTypeOK /\ OneAtATime, [Next]_vars PROVE McpTypeOK'
  OBVIOUS
<1>. USE ServersAssumption DEF ServersAssumption, Servers, McpTypeOK, registry, manager, OneAtATime
<1>1. ASSUME SkipDisabled PROVE McpTypeOK'
  BY <1>1 DEF SkipDisabled, Turning
<1>2. ASSUME EnterServer PROVE McpTypeOK'
  BY <1>2 DEF EnterServer, Turning
<1>3. ASSUME ServerEntered PROVE McpTypeOK'
  BY <1>3 DEF ServerEntered, Turning
<1>4. ASSUME ServerConnected PROVE McpTypeOK'
  BY <1>4 DEF ServerConnected, Turning
<1>5. ASSUME ServerFailed PROVE McpTypeOK'
  BY <1>5 DEF ServerFailed, Turning
<1>6. ASSUME Park PROVE McpTypeOK'
  BY <1>6 DEF Park, Turning
<1>7. ASSUME ExitCleanly PROVE McpTypeOK'
  <2>1. Pop(stack) \in Seq(Servers) /\ Top(stack) \in Servers
    BY <1>7, PopIsStack DEF ExitCleanly
  <2>. QED
    BY <1>7, <2>1 DEF ExitCleanly, Turning
<1>8. ASSUME ExitRaises PROVE McpTypeOK'
  <2>1. Pop(stack) \in Seq(Servers) /\ Top(stack) \in Servers
    BY <1>8, PopIsStack DEF ExitRaises
  <2>. QED
    BY <1>8, <2>1 DEF ExitRaises, Turning
<1>9. ASSUME ManagerDone PROVE McpTypeOK'
  BY <1>9 DEF ManagerDone, Turning
<1>10. ASSUME Wedge PROVE McpTypeOK'
  BY <1>10 DEF Wedge
<1>11. ASSUME ConnectAll PROVE McpTypeOK'
  BY <1>11 DEF ConnectAll
<1>12. ASSUME Ready PROVE McpTypeOK'
  BY <1>12 DEF Ready, IsReady, Turning
<1>13. ASSUME ConnectTimeout PROVE McpTypeOK'
  BY <1>13 DEF ConnectTimeout
<1>14. ASSUME Cancel PROVE McpTypeOK'
  <2>1. stack # <<>> => Pop(stack) \in Seq(Servers) /\ Top(stack) \in Servers
    BY PopIsStack
  <2>2. stack' \in Seq(Servers) /\ alive' \in SUBSET Servers
    BY <1>14, <2>1 DEF Cancel, Cancelled
  <2>. QED
    BY <1>14, <2>2 DEF Cancel, Cancelled, Turning
<1>15. ASSUME GiveUp PROVE McpTypeOK'
  BY <1>15 DEF GiveUp
<1>16. ASSUME RegisterServer PROVE McpTypeOK'
  <2>1. turn \in Servers /\ turn' = turn + 1
    BY <1>16 DEF RegisterServer
  <2>2. Offers[turn] \subseteq Names
    BY <2>1
  <2>3. CASE turn \in clients
    <3>1. handler' \in [Names -> Servers \union {NoServer}]
      BY <1>16, <2>1, <2>3 DEF RegisterServer, Register
    <3>2. approval' \in [Names -> {"unset", "ask", "auto"}]
      BY <1>16, <2>3 DEF RegisterServer, Register
    <3>3. recorded' \in [Servers -> SUBSET Names]
      BY <1>16, <2>1, <2>2, <2>3 DEF RegisterServer, Register
    <3>. QED
      BY <1>16, <2>1, <3>1, <3>2, <3>3 DEF RegisterServer
  <2>. QED
    BY <1>16, <2>1, <2>3 DEF RegisterServer
<1>17. ASSUME SetUp PROVE McpTypeOK'
  BY <1>17 DEF SetUp
<1>18. ASSUME Disconnect PROVE McpTypeOK'
  BY <1>18 DEF Disconnect
<1>19. ASSUME StopSeen PROVE McpTypeOK'
  BY <1>19 DEF StopSeen, Turning
<1>20. ASSUME PoliteDone PROVE McpTypeOK'
  BY <1>20 DEF PoliteDone, Turning
<1>21. ASSUME PoliteTimeout PROVE McpTypeOK'
  BY <1>21 DEF PoliteTimeout
<1>22. ASSUME ForceEnds PROVE McpTypeOK'
  BY <1>22 DEF ForceEnds
<1>23. ASSUME DisconnectEnds PROVE McpTypeOK'
  BY <1>23 DEF DisconnectEnds, Finish
<1>24. ASSUME UnregisterAll PROVE McpTypeOK'
  BY <1>24 DEF UnregisterAll, Unregister
<1>25. ASSUME NEW w \in Workers, NEW n \in Names, Call(w, n) PROVE McpTypeOK'
  BY <1>25 DEF Call
<1>26. ASSUME NEW w \in Workers, Refused(w) PROVE McpTypeOK'
  <2>1. Idle \in [state : {"idle", "found", "sent", "stray"}, server : Servers \union {NoServer}]
    BY DEF Idle
  <2>2. calls' = [calls EXCEPT ![w] = Idle]
    BY <1>26 DEF Refused
  <2>. QED
    BY <1>26, <2>1, <2>2 DEF Refused
<1>27. ASSUME NEW w \in Workers, Send(w) PROVE McpTypeOK'
  BY <1>27, ZenonT(60) DEF Send
<1>28. ASSUME NEW w \in Workers, Answer(w) PROVE McpTypeOK'
  <2>1. Idle \in [state : {"idle", "found", "sent", "stray"}, server : Servers \union {NoServer}]
    BY DEF Idle
  <2>2. calls' = [calls EXCEPT ![w] = Idle]
    BY <1>28 DEF Answer
  <2>. QED
    BY <1>28, <2>1, <2>2 DEF Answer
<1>29. ASSUME NEW w \in Workers, Backstop(w) PROVE McpTypeOK'
  <2>1. Idle \in [state : {"idle", "found", "sent", "stray"}, server : Servers \union {NoServer}]
    BY DEF Idle
  <2>2. calls' = [calls EXCEPT ![w] = Idle]
    BY <1>29 DEF Backstop
  <2>. QED
    BY <1>29, <2>1, <2>2 DEF Backstop
<1>30. ASSUME UNCHANGED vars PROVE McpTypeOK'
  BY <1>30 DEF vars
<1>31. ASSUME ManagerFalls PROVE McpTypeOK'
  <2>1. stack # <<>> => Pop(stack) \in Seq(Servers) /\ Top(stack) \in Servers
    BY PopIsStack
  <2>2. stack' \in Seq(Servers) /\ alive' \in SUBSET Servers
    BY <1>31, <2>1 DEF ManagerFalls, Cancelled
  <2>. QED
    BY <1>31, <2>2 DEF ManagerFalls, Cancelled, Turning
<1>. QED
  BY <1>1, <1>2, <1>3, <1>4, <1>5, <1>6, <1>7, <1>8, <1>9, <1>10, <1>11,
     <1>12, <1>13, <1>14, <1>15, <1>16, <1>17, <1>18, <1>19, <1>20, <1>21,
     <1>22, <1>23, <1>24, <1>25, <1>26, <1>27, <1>28, <1>29, <1>30, <1>31 DEF Next,
     Manager, Main, Worker

\* Every step keeps the main thread and the manager in step.
LEMMA StepNext == McpTypeOK /\ OneAtATime /\ InStep /\ [Next]_vars => (OneAtATime /\ InStep)'
<1>. SUFFICES ASSUME McpTypeOK /\ OneAtATime /\ InStep, [Next]_vars PROVE (OneAtATime /\ InStep)'
  OBVIOUS
<1>. USE ServersAssumption DEF ServersAssumption, Servers, McpTypeOK, registry, manager, OneAtATime, InStep
<1>1. ASSUME SkipDisabled PROVE (OneAtATime /\ InStep)'
  BY <1>1 DEF SkipDisabled, Turning
<1>2. ASSUME EnterServer PROVE (OneAtATime /\ InStep)'
  BY <1>2 DEF EnterServer, Turning
<1>3. ASSUME ServerEntered PROVE (OneAtATime /\ InStep)'
  BY <1>3 DEF ServerEntered, Turning
<1>4. ASSUME ServerConnected PROVE (OneAtATime /\ InStep)'
  BY <1>4 DEF ServerConnected, Turning
<1>5. ASSUME ServerFailed PROVE (OneAtATime /\ InStep)'
  BY <1>5 DEF ServerFailed, Turning
<1>6. ASSUME Park PROVE (OneAtATime /\ InStep)'
  BY <1>6 DEF Park, Turning
<1>7. ASSUME ExitCleanly PROVE (OneAtATime /\ InStep)'
  BY <1>7 DEF ExitCleanly, Turning
<1>8. ASSUME ExitRaises PROVE (OneAtATime /\ InStep)'
  BY <1>8 DEF ExitRaises, Turning
<1>9. ASSUME ManagerDone PROVE (OneAtATime /\ InStep)'
  BY <1>9 DEF ManagerDone, Turning
<1>10. ASSUME Wedge PROVE (OneAtATime /\ InStep)'
  BY <1>10 DEF Wedge
<1>11. ASSUME ConnectAll PROVE (OneAtATime /\ InStep)'
  BY <1>11 DEF ConnectAll
<1>12. ASSUME Ready PROVE (OneAtATime /\ InStep)'
  BY <1>12 DEF Ready, IsReady, Turning
<1>13. ASSUME ConnectTimeout PROVE (OneAtATime /\ InStep)'
  BY <1>13 DEF ConnectTimeout
<1>14. ASSUME Cancel PROVE (OneAtATime /\ InStep)'
  BY <1>14 DEF Cancel, Cancelled, Turning
<1>15. ASSUME GiveUp PROVE (OneAtATime /\ InStep)'
  BY <1>15 DEF GiveUp
<1>16. ASSUME RegisterServer PROVE (OneAtATime /\ InStep)'
  BY <1>16 DEF RegisterServer, Register
<1>17. ASSUME SetUp PROVE (OneAtATime /\ InStep)'
  BY <1>17 DEF SetUp
<1>18. ASSUME Disconnect PROVE (OneAtATime /\ InStep)'
  BY <1>18 DEF Disconnect
<1>19. ASSUME StopSeen PROVE (OneAtATime /\ InStep)'
  BY <1>19 DEF StopSeen, Turning
<1>20. ASSUME PoliteDone PROVE (OneAtATime /\ InStep)'
  BY <1>20 DEF PoliteDone, Turning
<1>21. ASSUME PoliteTimeout PROVE (OneAtATime /\ InStep)'
  BY <1>21 DEF PoliteTimeout
<1>22. ASSUME ForceEnds PROVE (OneAtATime /\ InStep)'
  BY <1>22 DEF ForceEnds
<1>23. ASSUME DisconnectEnds PROVE (OneAtATime /\ InStep)'
  BY <1>23 DEF DisconnectEnds, Finish
<1>24. ASSUME UnregisterAll PROVE (OneAtATime /\ InStep)'
  BY <1>24 DEF UnregisterAll, Unregister
<1>25. ASSUME NEW w \in Workers, NEW n \in Names, Call(w, n) PROVE (OneAtATime /\ InStep)'
  BY <1>25 DEF Call
<1>26. ASSUME NEW w \in Workers, Refused(w) PROVE (OneAtATime /\ InStep)'
  BY <1>26 DEF Refused
<1>27. ASSUME NEW w \in Workers, Send(w) PROVE (OneAtATime /\ InStep)'
  BY <1>27 DEF Send
<1>28. ASSUME NEW w \in Workers, Answer(w) PROVE (OneAtATime /\ InStep)'
  BY <1>28 DEF Answer, Turning
<1>29. ASSUME NEW w \in Workers, Backstop(w) PROVE (OneAtATime /\ InStep)'
  BY <1>29 DEF Backstop
<1>30. ASSUME UNCHANGED vars PROVE (OneAtATime /\ InStep)'
  BY <1>30 DEF vars
<1>31. ASSUME ManagerFalls PROVE (OneAtATime /\ InStep)'
  BY <1>31 DEF ManagerFalls, Cancelled, Turning
<1>. QED
  BY <1>1, <1>2, <1>3, <1>4, <1>5, <1>6, <1>7, <1>8, <1>9, <1>10, <1>11,
     <1>12, <1>13, <1>14, <1>15, <1>16, <1>17, <1>18, <1>19, <1>20, <1>21,
     <1>22, <1>23, <1>24, <1>25, <1>26, <1>27, <1>28, <1>29, <1>30, <1>31 DEF Next,
     Manager, Main, Worker


\* Every step leaves no entry out.
LEMMA TriedNext == McpTypeOK /\ OneAtATime /\ InStep /\ AllTried /\ [Next]_vars => AllTried'
<1>. SUFFICES ASSUME McpTypeOK /\ OneAtATime /\ InStep /\ AllTried, [Next]_vars PROVE AllTried'
  OBVIOUS
<1>. USE ServersAssumption DEF ServersAssumption, Servers, McpTypeOK, registry, manager, OneAtATime, InStep, AllTried
<1>1. ASSUME SkipDisabled PROVE AllTried'
  BY <1>1 DEF SkipDisabled, Turning
<1>2. ASSUME EnterServer PROVE AllTried'
  BY <1>2 DEF EnterServer, Turning
<1>3. ASSUME ServerEntered PROVE AllTried'
  BY <1>3 DEF ServerEntered, Turning
<1>4. ASSUME ServerConnected PROVE AllTried'
  BY <1>4 DEF ServerConnected, Turning
<1>5. ASSUME ServerFailed PROVE AllTried'
  BY <1>5 DEF ServerFailed, Turning
<1>6. ASSUME Park PROVE AllTried'
  BY <1>6 DEF Park, Turning
<1>7. ASSUME ExitCleanly PROVE AllTried'
  BY <1>7 DEF ExitCleanly, Turning
<1>8. ASSUME ExitRaises PROVE AllTried'
  BY <1>8 DEF ExitRaises, Turning
<1>9. ASSUME ManagerDone PROVE AllTried'
  BY <1>9 DEF ManagerDone, Turning
<1>10. ASSUME Wedge PROVE AllTried'
  BY <1>10 DEF Wedge
<1>11. ASSUME ConnectAll PROVE AllTried'
  BY <1>11 DEF ConnectAll
<1>12. ASSUME Ready PROVE AllTried'
  BY <1>12 DEF Ready, IsReady, Turning
<1>13. ASSUME ConnectTimeout PROVE AllTried'
  BY <1>13 DEF ConnectTimeout
<1>14. ASSUME Cancel PROVE AllTried'
  BY <1>14 DEF Cancel, Cancelled, Turning
<1>15. ASSUME GiveUp PROVE AllTried'
  BY <1>15 DEF GiveUp
<1>16. ASSUME RegisterServer PROVE AllTried'
  BY <1>16 DEF RegisterServer, Register
<1>17. ASSUME SetUp PROVE AllTried'
  BY <1>17 DEF SetUp
<1>18. ASSUME Disconnect PROVE AllTried'
  BY <1>18 DEF Disconnect
<1>19. ASSUME StopSeen PROVE AllTried'
  BY <1>19 DEF StopSeen, Turning
<1>20. ASSUME PoliteDone PROVE AllTried'
  BY <1>20 DEF PoliteDone, Turning
<1>21. ASSUME PoliteTimeout PROVE AllTried'
  BY <1>21 DEF PoliteTimeout
<1>22. ASSUME ForceEnds PROVE AllTried'
  BY <1>22 DEF ForceEnds
<1>23. ASSUME DisconnectEnds PROVE AllTried'
  BY <1>23 DEF DisconnectEnds, Finish
<1>24. ASSUME UnregisterAll PROVE AllTried'
  BY <1>24 DEF UnregisterAll, Unregister
<1>25. ASSUME NEW w \in Workers, NEW n \in Names, Call(w, n) PROVE AllTried'
  BY <1>25 DEF Call
<1>26. ASSUME NEW w \in Workers, Refused(w) PROVE AllTried'
  BY <1>26 DEF Refused
<1>27. ASSUME NEW w \in Workers, Send(w) PROVE AllTried'
  BY <1>27 DEF Send
<1>28. ASSUME NEW w \in Workers, Answer(w) PROVE AllTried'
  BY <1>28 DEF Answer, Turning
<1>29. ASSUME NEW w \in Workers, Backstop(w) PROVE AllTried'
  BY <1>29 DEF Backstop
<1>30. ASSUME UNCHANGED vars PROVE AllTried'
  BY <1>30 DEF vars
<1>31. ASSUME ManagerFalls PROVE AllTried'
  BY <1>31 DEF ManagerFalls, Cancelled, Turning
<1>. QED
  BY <1>1, <1>2, <1>3, <1>4, <1>5, <1>6, <1>7, <1>8, <1>9, <1>10, <1>11,
     <1>12, <1>13, <1>14, <1>15, <1>16, <1>17, <1>18, <1>19, <1>20, <1>21,
     <1>22, <1>23, <1>24, <1>25, <1>26, <1>27, <1>28, <1>29, <1>30, <1>31 DEF Next,
     Manager, Main, Worker

\* Every step keeps the children known.
LEMMA ChildrenNext == McpTypeOK /\ OneAtATime /\ InStep /\ AllTried
                      /\ ChildrenAreKnown /\ [Next]_vars => ChildrenAreKnown'
<1>. SUFFICES ASSUME McpTypeOK /\ OneAtATime /\ InStep /\ AllTried /\ ChildrenAreKnown, [Next]_vars
              PROVE ChildrenAreKnown'
  OBVIOUS
<1>. USE ServersAssumption DEF ServersAssumption, Servers, McpTypeOK, registry, manager, OneAtATime, InStep, ChildrenAreKnown
<1>1. ASSUME SkipDisabled PROVE ChildrenAreKnown'
  <2>1. main' = main /\ raised' = raised /\ main \notin {"unregistering", "down"}
    BY <1>1 DEF SkipDisabled, Turning
  <2>2. ASSUME ~raised PROVE alive' \intersect closed' = {}
    BY <1>1, <2>1, <2>2 DEF SkipDisabled
  <2>3. ASSUME ~raised, NEW s \in alive' PROVE s \in (clients \union failures)'
    BY <1>1, <2>1, <2>3 DEF SkipDisabled
  <2>. QED
    BY <2>1, <2>2, <2>3
<1>2. ASSUME EnterServer PROVE ChildrenAreKnown'
  BY <1>2 DEF EnterServer, Turning
<1>3. ASSUME ServerEntered PROVE ChildrenAreKnown'
  BY <1>3 DEF ServerEntered, Turning
<1>4. ASSUME ServerConnected PROVE ChildrenAreKnown'
  <2>1. main' = main /\ raised' = raised /\ main \notin {"unregistering", "down"}
    BY <1>4 DEF ServerConnected, Turning
  <2>2. ASSUME ~raised PROVE alive' \intersect closed' = {}
    BY <1>4, <2>1, <2>2 DEF ServerConnected
  <2>3. ASSUME ~raised, NEW s \in alive' PROVE s \in (clients \union failures)'
    BY <1>4, <2>1, <2>3 DEF ServerConnected
  <2>. QED
    BY <2>1, <2>2, <2>3
<1>5. ASSUME ServerFailed PROVE ChildrenAreKnown'
  <2>1. main' = main /\ raised' = raised /\ main \notin {"unregistering", "down"}
    BY <1>5 DEF ServerFailed, Turning
  <2>2. ASSUME ~raised PROVE alive' \intersect closed' = {}
    BY <1>5, <2>1, <2>2 DEF ServerFailed
  <2>3. ASSUME ~raised, NEW s \in alive' PROVE s \in (clients \union failures)'
    BY <1>5, <2>1, <2>3 DEF ServerFailed
  <2>. QED
    BY <2>1, <2>2, <2>3
<1>6. ASSUME Park PROVE ChildrenAreKnown'
  BY <1>6 DEF Park, Turning
<1>7. ASSUME ExitCleanly PROVE ChildrenAreKnown'
  BY <1>7 DEF ExitCleanly, Turning
<1>8. ASSUME ExitRaises PROVE ChildrenAreKnown'
  BY <1>8 DEF ExitRaises, Turning
<1>9. ASSUME ManagerDone PROVE ChildrenAreKnown'
  BY <1>9 DEF ManagerDone, Turning
<1>10. ASSUME Wedge PROVE ChildrenAreKnown'
  BY <1>10 DEF Wedge
<1>11. ASSUME ConnectAll PROVE ChildrenAreKnown'
  BY <1>11 DEF ConnectAll
<1>12. ASSUME Ready PROVE ChildrenAreKnown'
  BY <1>12 DEF Ready, IsReady, Turning
<1>13. ASSUME ConnectTimeout PROVE ChildrenAreKnown'
  BY <1>13 DEF ConnectTimeout
<1>14. ASSUME Cancel PROVE ChildrenAreKnown'
  BY <1>14 DEF Cancel, Cancelled, Turning
<1>15. ASSUME GiveUp PROVE ChildrenAreKnown'
  BY <1>15 DEF GiveUp
<1>16. ASSUME RegisterServer PROVE ChildrenAreKnown'
  BY <1>16 DEF RegisterServer, Register
<1>17. ASSUME SetUp PROVE ChildrenAreKnown'
  BY <1>17 DEF SetUp
<1>18. ASSUME Disconnect PROVE ChildrenAreKnown'
  BY <1>18 DEF Disconnect
<1>19. ASSUME StopSeen PROVE ChildrenAreKnown'
  BY <1>19 DEF StopSeen, Turning
<1>20. ASSUME PoliteDone PROVE ChildrenAreKnown'
  BY <1>20 DEF PoliteDone, Turning
<1>21. ASSUME PoliteTimeout PROVE ChildrenAreKnown'
  BY <1>21 DEF PoliteTimeout
<1>22. ASSUME ForceEnds PROVE ChildrenAreKnown'
  BY <1>22 DEF ForceEnds
<1>23. ASSUME DisconnectEnds PROVE ChildrenAreKnown'
  <2>1. /\ main = "naming" /\ main' = "unregistering" /\ task # "connecting"
        /\ named' = clients \ closed
        /\ UNCHANGED <<alive, failures, next, raised>>
    BY <1>23 DEF DisconnectEnds, Finish
  <2>2. clients \subseteq 1 .. next - 1 /\ clients \intersect failures = {}
    BY <2>1 DEF AllTried
  <2>3. next \notin clients
    BY <2>2
  <2>. QED
    BY <2>1, <2>2, <2>3
<1>24. ASSUME UnregisterAll PROVE ChildrenAreKnown'
  BY <1>24 DEF UnregisterAll, Unregister
<1>25. ASSUME NEW w \in Workers, NEW n \in Names, Call(w, n) PROVE ChildrenAreKnown'
  BY <1>25 DEF Call
<1>26. ASSUME NEW w \in Workers, Refused(w) PROVE ChildrenAreKnown'
  BY <1>26 DEF Refused
<1>27. ASSUME NEW w \in Workers, Send(w) PROVE ChildrenAreKnown'
  BY <1>27 DEF Send
<1>28. ASSUME NEW w \in Workers, Answer(w) PROVE ChildrenAreKnown'
  BY <1>28 DEF Answer, Turning
<1>29. ASSUME NEW w \in Workers, Backstop(w) PROVE ChildrenAreKnown'
  BY <1>29 DEF Backstop
<1>30. ASSUME UNCHANGED vars PROVE ChildrenAreKnown'
  BY <1>30 DEF vars
<1>31. ASSUME ManagerFalls PROVE ChildrenAreKnown'
  BY <1>31 DEF ManagerFalls, Cancelled, Turning
<1>. QED
  BY <1>1, <1>2, <1>3, <1>4, <1>5, <1>6, <1>7, <1>8, <1>9, <1>10, <1>11,
     <1>12, <1>13, <1>14, <1>15, <1>16, <1>17, <1>18, <1>19, <1>20, <1>21,
     <1>22, <1>23, <1>24, <1>25, <1>26, <1>27, <1>28, <1>29, <1>30, <1>31 DEF Next,
     Manager, Main, Worker

\* Only the end of a teardown names anyone.
LEMMA NamedNext == InStep /\ NobodyNamedYet /\ [Next]_vars => NobodyNamedYet'
<1>. SUFFICES ASSUME InStep, NobodyNamedYet, [Next]_vars PROVE NobodyNamedYet'
  OBVIOUS
<1>1. CASE DisconnectEnds
  BY <1>1 DEF DisconnectEnds, InStep, NobodyNamedYet
<1>2. CASE ConnectTimeout
  BY <1>2 DEF ConnectTimeout, NobodyNamedYet, InStep
<1>3. CASE GiveUp
  BY <1>3 DEF GiveUp, NobodyNamedYet, InStep
<1>4. CASE UnregisterAll
  BY <1>4 DEF UnregisterAll, NobodyNamedYet
<1>5. CASE /\ UNCHANGED <<named, raised>>
           /\ \/ main' = main
              \/ main' \notin {"unregistering", "down"} /\ main \notin {"unregistering", "down"}
  BY <1>5 DEF NobodyNamedYet
<1>6. \/ DisconnectEnds \/ ConnectTimeout \/ GiveUp \/ UnregisterAll
      \/ /\ UNCHANGED <<named, raised>>
         /\ \/ main' = main
            \/ main' \notin {"unregistering", "down"} /\ main \notin {"unregistering", "down"}
  BY DEF Next, Manager, Main, Worker, vars, SkipDisabled, EnterServer, ServerEntered,
     ServerConnected, ServerFailed, Park, ExitCleanly, ExitRaises, ManagerDone, ManagerFalls,
     Wedge, ConnectAll, Ready, Cancel, RegisterServer, SetUp, Disconnect, StopSeen, PoliteDone,
     PoliteTimeout, ForceEnds, Call, Refused, Send, Answer, Backstop
<1>. QED
  BY <1>1, <1>2, <1>3, <1>4, <1>5, <1>6

\* Registering, and taking back what was registered, are the only steps that touch
\* the registry; the names stay their servers'.
LEMMA NamesNext == McpTypeOK /\ ToolsAreTheirs /\ [Next]_vars => ToolsAreTheirs'
<1>. SUFFICES ASSUME McpTypeOK, NamesAreTheirs, NothingLeftRegistered, [Next]_vars PROVE ToolsAreTheirs'
  BY DEF ToolsAreTheirs
<1>. USE ServersAssumption DEF ServersAssumption, Servers, McpTypeOK, registry
<1>1. ASSUME RegisterServer, turn \in clients PROVE ToolsAreTheirs'
  <2>. DEFINE new == {n \in Offers[turn] : handler[n] = NoServer}
  <2>1. turn \in Servers /\ new \subseteq Names /\ main' # "down"
    BY <1>1 DEF RegisterServer
  <2>2. handler' = [n \in Names |-> IF n \in new THEN turn ELSE handler[n]]
    BY <1>1 DEF RegisterServer, Register
  <2>3. approval' = [n \in Names |-> IF n \notin new THEN approval[n]
                                     ELSE IF turn \in AutoApproved THEN "auto" ELSE "ask"]
    BY <1>1 DEF RegisterServer, Register
  <2>4. recorded' = [recorded EXCEPT ![turn] = @ \union new]
    BY <1>1 DEF RegisterServer, Register
  <2>5. \A n \in new : handler[n] = NoServer
    OBVIOUS
  <2>. HIDE DEF new
  <2>6. ASSUME NEW n \in Names
        PROVE  {s \in Servers : n \in recorded'[s]} = {handler'[n]} \ {NoServer}
    <3>1. {s \in Servers : n \in recorded[s]} = {handler[n]} \ {NoServer}
      BY DEF NamesAreTheirs
    <3>2. CASE n \in new
      <4>1. handler[n] = NoServer /\ handler'[n] = turn
        BY <2>2, <2>5, <3>2
      <4>2. \A s \in Servers : n \in recorded'[s] <=> s = turn
        BY <2>1, <2>4, <3>1, <3>2, <4>1
      <4>. QED
        BY <2>1, <4>1, <4>2
    <3>3. CASE n \notin new
      <4>1. handler'[n] = handler[n]
        BY <2>2, <3>3
      <4>2. \A s \in Servers : n \in recorded'[s] <=> n \in recorded[s]
        BY <2>1, <2>4, <3>3
      <4>. QED
        BY <3>1, <4>1, <4>2
    <3>. QED
      BY <3>2, <3>3
  <2>7. ASSUME NEW n \in Names
        PROVE  approval'[n] = IF handler'[n] = NoServer THEN "unset"
                              ELSE IF handler'[n] \in AutoApproved THEN "auto" ELSE "ask"
    BY <2>1, <2>2, <2>3 DEF NamesAreTheirs
  <2>. QED
    BY <2>1, <2>6, <2>7 DEF ToolsAreTheirs, NamesAreTheirs, NothingLeftRegistered
<1>2. ASSUME UnregisterAll PROVE ToolsAreTheirs'
  <2>. DEFINE gone == UNION {recorded[s] : s \in Servers}
  <2>1. \A n \in Names : n \notin gone => handler[n] = NoServer /\ approval[n] = "unset"
    <3>. TAKE n \in Names
    <3>. HAVE n \notin gone
    <3>1. {s \in Servers : n \in recorded[s]} = {}
      OBVIOUS
    <3>2. handler[n] = NoServer
      BY <3>1 DEF NamesAreTheirs
    <3>. QED
      BY <3>2 DEF NamesAreTheirs
  <2>2. /\ handler' = [n \in Names |-> IF n \in gone THEN NoServer ELSE handler[n]]
        /\ approval' = [n \in Names |-> IF n \in gone THEN "unset" ELSE approval[n]]
        /\ recorded' = [s \in Servers |-> {}]
    BY <1>2 DEF UnregisterAll, Unregister
  <2>3. \A n \in Names : handler'[n] = NoServer /\ approval'[n] = "unset"
    BY <2>1, <2>2
  <2>. QED
    BY <2>2, <2>3 DEF ToolsAreTheirs, NamesAreTheirs, NothingLeftRegistered
<1>3. ASSUME UNCHANGED registry, main' # "down" \/ main = "down" PROVE ToolsAreTheirs'
  BY <1>3 DEF ToolsAreTheirs, NamesAreTheirs, NothingLeftRegistered
<1>4. \/ RegisterServer /\ turn \in clients
      \/ UnregisterAll
      \/ UNCHANGED registry /\ (main' # "down" \/ main = "down")
  BY DEF Next, Manager, Main, Worker, vars, SkipDisabled, EnterServer, ServerEntered,
     ServerConnected, ServerFailed, Park, ExitCleanly, ExitRaises, ManagerDone, ManagerFalls,
     Wedge, ConnectAll, Ready, ConnectTimeout, Cancel, GiveUp, RegisterServer, SetUp, Disconnect,
     StopSeen, PoliteDone, PoliteTimeout, ForceEnds, DisconnectEnds, Call, Refused, Send,
     Answer, Backstop
<1>. QED
  BY <1>1, <1>2, <1>3, <1>4

\* The invariant is inductive.
LEMMA InvNext == IInv /\ [Next]_vars => IInv'
  BY TypeNext, StepNext, TriedNext, NamedNext, ChildrenNext, NamesNext DEF IInv

\* The invariant holds in every reachable state.
LEMMA InvAlways == Spec => []IInv
  BY InvInit, InvNext, PTL DEF Spec

-----------------------------------------------------------------------------
(* The theorems.                                                           *)

\* Whatever servers fail and whenever, the types are kept.
THEOREM ClientIsTyped == Spec => []McpTypeOK
  BY InvAlways, PTL DEF IInv

\* For any number of servers: one server's failure leaves the others connected,
\* and none is left untried unless the manager itself fell; a child that outlives
\* the teardown of a server that was connected was named.  One whose server failed
\* to list its tools, or was being entered when the manager fell, is never named,
\* and after a connect_all that gave up nobody is.
THEOREM NoFailureIsSilent == Spec => []FailuresAreTold
<1>1. IInv => FailuresAreTold
  <2>. SUFFICES ASSUME IInv PROVE FailuresAreTold
    OBVIOUS
  <2>. USE ServersAssumption DEF ServersAssumption, Servers, IInv, McpTypeOK
  <2>1. NoneIsLeftOut
    BY DEF NoneIsLeftOut, InStep, AllTried
  <2>2. OrphansAreTold
    BY DEF OrphansAreTold, ChildrenAreKnown, NobodyNamedYet
  <2>. QED
    BY <2>1, <2>2 DEF FailuresAreTold
<1>. QED
  BY <1>1, InvAlways, PTL

\* A tool's name, its handler and its approval policy belong to one server, and go
\* when the servers do, however the names collide.
THEOREM NamesHaveOneOwner == Spec => []ToolsAreTheirs
  BY InvAlways, PTL DEF IInv

=============================================================================
