------------------------------ MODULE McpClient ------------------------------
(****************************************************************************)
(* The bridge to the MCP servers: mcp_client/client.py, the registration of  *)
(* their tools (mcp_client/registration.py) and the two callers in main.py.  *)
(*                                                                           *)
(* One background thread owns one event loop.  One manager task on it enters *)
(* every server's session on an exit stack, signals that it is ready, parks, *)
(* and unwinds the stack in the same task.  The main thread starts it, waits *)
(* on a clock of its own, registers the tools and, at the end, asks it to    *)
(* stop, cancels it when it does not, and drops the loop.  Workers call      *)
(* tools through the loop meanwhile.  A stdio server is a child process.     *)
(*                                                                           *)
(* A server may be slow, raise or never answer at any await; that is the     *)
(* absence of fairness on the steps that need it.  A clock is a step that is *)
(* taken at some time or other: real time is not kept.                       *)
(****************************************************************************)
EXTENDS Integers, Sequences, FiniteSets

CONSTANTS
    ServerCount,   \* the entries of mcp.json, in order
    Disabled,      \* entries with disabled: true
    AutoApproved,  \* entries with autoApprove: true
    Names,         \* composed tool names
    Offers,        \* server -> names its tools compose to; these may collide
    Workers,       \* threads that call tools
    NoServer

Servers == 1 .. ServerCount

ASSUME ServersAssumption ==
    /\ ServerCount \in Nat \ {0}
    /\ Disabled \subseteq Servers /\ AutoApproved \subseteq Servers
    /\ Offers \in [Servers -> SUBSET Names]
    /\ NoServer \notin Servers

VARIABLES
    main,      \* where the main thread is
    loop,      \* none | running | wedged | stopped | second
    task,      \* the manager: none | connecting | parked | unwinding | done
    next,      \* the entry the manager is at
    phase,     \* its session: absent | entering | listing
    stack,     \* the sessions on the exit stack
    alive,     \* child processes that run
    clients, failures, closed,
    named,     \* servers the straggler WARNING named
    raised,    \* connect_all gave up
    turn,      \* the entry register_all is at
    handler, approval, recorded,   \* registry, approval defaults, _registered
    calls      \* worker -> what its call is doing, and to which server

manager  == <<task, next, phase, stack, alive, closed>>
registry == <<handler, approval, recorded>>
vars == <<main, loop, manager, clients, failures, named, raised, turn, registry, calls>>

Idle == [state |-> "idle", server |-> NoServer]

Init ==
    /\ main = "off" /\ loop = "none"
    /\ task = "none" /\ next = 1 /\ phase = "absent" /\ stack = <<>>
    /\ alive = {} /\ clients = {} /\ failures = {} /\ closed = {}
    /\ named = {} /\ raised = FALSE /\ turn = 1
    /\ handler = [n \in Names |-> NoServer]
    /\ approval = [n \in Names |-> "unset"]
    /\ recorded = [s \in Servers |-> {}]
    /\ calls = [w \in Workers |-> Idle]

----------------------------------------------------------------------------
(* The manager task.                                                         *)

\* A task of the first loop moves only while that loop turns.
Turning == loop = "running"

SkipDisabled ==
    /\ Turning /\ task = "connecting" /\ phase = "absent" /\ next \in Disabled
    /\ next' = next + 1
    /\ UNCHANGED <<main, loop, task, phase, stack, alive, closed, clients,
                   failures, named, raised, turn, registry, calls>>

\* __aenter__ begins: a stdio transport spawns its child.
EnterServer ==
    /\ Turning /\ task = "connecting" /\ phase = "absent"
    /\ next \in Servers \ Disabled
    /\ phase' = "entering" /\ alive' = alive \union {next}
    /\ UNCHANGED <<main, loop, task, next, stack, closed, clients, failures,
                   named, raised, turn, registry, calls>>

\* The handshake is answered: the session is on the stack, and is asked for
\* its tools.
ServerEntered ==
    /\ Turning /\ task = "connecting" /\ phase = "entering"
    /\ phase' = "listing" /\ stack' = Append(stack, next)
    /\ UNCHANGED <<main, loop, task, next, alive, closed, clients, failures,
                   named, raised, turn, registry, calls>>

ServerConnected ==
    /\ Turning /\ task = "connecting" /\ phase = "listing"
    /\ clients' = clients \union {next}
    /\ phase' = "absent" /\ next' = next + 1
    /\ UNCHANGED <<main, loop, task, stack, alive, closed, failures, named,
                   raised, turn, registry, calls>>

\* A slip: the first failure ends the loop over the entries.
ServerFailedStops ==
    /\ Turning /\ task = "connecting" /\ phase \in {"entering", "listing"}
    /\ failures' = failures \union {next}
    /\ alive' = IF phase = "entering" THEN alive \ {next} ELSE alive
    /\ phase' = "absent" /\ next' = ServerCount + 1
    /\ UNCHANGED <<main, loop, task, stack, closed, clients, named, raised,
                   turn, registry, calls>>

\* The handshake or the listing raises, or the server's own clock runs out.
\* A session that never entered takes its child with it; one that entered and
\* failed to list its tools stays on the stack, its child alive.
ServerFailed ==
    /\ Turning /\ task = "connecting" /\ phase \in {"entering", "listing"}
    /\ failures' = failures \union {next}
    /\ alive' = IF phase = "entering" THEN alive \ {next} ELSE alive
    /\ phase' = "absent" /\ next' = next + 1
    /\ UNCHANGED <<main, loop, task, stack, closed, clients, named, raised, turn,
                   registry, calls>>

\* Every entry tried: _ready is set and the task waits for _shutdown.
Park ==
    /\ Turning /\ task = "connecting" /\ next = ServerCount + 1
    /\ task' = "parked"
    /\ UNCHANGED <<main, loop, next, phase, stack, alive, closed, clients,
                   failures, named, raised, turn, registry, calls>>

Top(s) == s[Len(s)]
Pop(s) == SubSeq(s, 1, Len(s) - 1)

\* The stack unwinds last in, first out.  Only a session that exits without
\* an exception is recorded as closed; one that raises may leave its child.
ExitCleanly ==
    /\ Turning /\ task = "unwinding" /\ stack # <<>>
    /\ closed' = closed \union {Top(stack)}
    /\ alive' = alive \ {Top(stack)} /\ stack' = Pop(stack)
    /\ UNCHANGED <<main, loop, task, next, phase, clients, failures, named,
                   raised, turn, registry, calls>>

ExitRaises ==
    /\ Turning /\ task = "unwinding" /\ stack # <<>>
    /\ alive' \in {alive, alive \ {Top(stack)}} /\ stack' = Pop(stack)
    /\ UNCHANGED <<main, loop, task, next, phase, closed, clients, failures,
                   named, raised, turn, registry, calls>>

\* finally: _done is set, whatever the unwinding raised.
ManagerDone ==
    /\ Turning /\ task = "unwinding" /\ stack = <<>>
    /\ task' = "done"
    /\ UNCHANGED <<main, loop, next, phase, stack, alive, closed, clients,
                   failures, named, raised, turn, registry, calls>>

\* CancelledError reaches the manager inside its `async with`.  A session that
\* was being entered, or was exiting, is interrupted and not recorded closed.
Cancelled(t, p) ==
    /\ task' = "unwinding" /\ phase' = "absent"
    /\ IF p = "entering"
       THEN alive' \in {alive, alive \ {next}} /\ stack' = stack
       ELSE IF t = "unwinding" /\ stack # <<>>
            THEN alive' \in {alive, alive \ {Top(stack)}} /\ stack' = Pop(stack)
            ELSE UNCHANGED <<alive, stack>>
    /\ UNCHANGED <<next, closed>>

\* Something gets past the handler of one entry, which takes an Exception: the
\* scope of a session entered earlier is cancelled, say.  The stack unwinds with
\* the entries that are left untried.
ManagerFalls ==
    /\ Turning
    /\ \/ task = "parked"
       \/ task = "connecting" /\ phase # "absent"
    /\ Cancelled(task, phase)
    /\ UNCHANGED <<main, loop, clients, failures, named, raised, turn, registry, calls>>

\* Something on the loop blocks its thread and never gives it back.
Wedge ==
    /\ loop = "running" /\ loop' = "wedged"
    /\ UNCHANGED <<main, manager, clients, failures, named, raised, turn, registry,
                   calls>>

----------------------------------------------------------------------------
(* The main thread.                                                          *)

\* setup_mcp calls connect_all: the loop thread and the manager start.
ConnectAll ==
    /\ main = "off"
    /\ main' = "waiting" /\ loop' = "running" /\ task' = "connecting"
    /\ UNCHANGED <<next, phase, stack, alive, closed, clients, failures, named,
                   raised, turn, registry, calls>>

\* _ready is set once every entry was tried, and by the manager's own handler when
\* it fell before that.  What that handler lets through leaves it unset, and the
\* main thread to its clock.
IsReady == \/ task \in {"parked", "unwinding"} /\ next = ServerCount + 1
           \/ task = "done"

Ready ==
    /\ main = "waiting" /\ Turning /\ IsReady
    /\ main' = "registering"
    /\ UNCHANGED <<loop, manager, clients, failures, named, raised, turn, registry,
                   calls>>

\* CONNECT_TIMEOUT_S: whatever is already connected is given up too.
ConnectTimeout ==
    /\ main = "waiting"
    /\ main' = "dropping" /\ raised' = TRUE
    /\ UNCHANGED <<loop, manager, clients, failures, named, turn, registry, calls>>

\* _cancel_manager's coroutine runs on the loop.  It may never get to.
Cancel ==
    /\ Turning /\ task \in {"connecting", "parked", "unwinding"}
    /\ \/ main = "dropping"  /\ main' = "dropped"
       \/ main = "forcing"   /\ main' = "forced"
    /\ Cancelled(task, phase)
    /\ UNCHANGED <<loop, clients, failures, named, raised, turn, registry, calls>>

\* connect_all goes on when _done is set or after SHUTDOWN_TIMEOUT_S: it
\* forgets the sessions, drops the loop and raises.  setup_mcp's handler then
\* tears down a client that holds nothing.
GiveUp ==
    /\ main \in {"dropping", "dropped"}
    /\ clients' = {} /\ loop' = "stopped" /\ main' = "unregistering"
    /\ UNCHANGED <<manager, failures, named, raised, turn, registry, calls>>

\* A slip: registry.register alone, which overwrites.
RegisterOver(s) ==
    /\ handler' = [n \in Names |-> IF n \in Offers[s] THEN s ELSE handler[n]]
    /\ approval' = [n \in Names |->
                      IF n \notin Offers[s] THEN approval[n]
                      ELSE IF s \in AutoApproved THEN "auto" ELSE "ask"]
    /\ recorded' = [recorded EXCEPT ![s] = @ \union Offers[s]]

\* register_all takes the connected servers in order.  A name that is taken is
\* skipped, whoever has it; the approval default is set with the handler.
Register(s) ==
    LET new == {n \in Offers[s] : handler[n] = NoServer}
    IN  /\ handler' = [n \in Names |-> IF n \in new THEN s ELSE handler[n]]
        /\ approval' = [n \in Names |->
                          IF n \notin new THEN approval[n]
                          ELSE IF s \in AutoApproved THEN "auto" ELSE "ask"]
        /\ recorded' = [recorded EXCEPT ![s] = @ \union new]

RegisterServer ==
    /\ main = "registering" /\ turn \in Servers
    /\ turn' = turn + 1
    /\ IF turn \in clients THEN Register(turn) ELSE UNCHANGED registry
    /\ UNCHANGED <<main, loop, manager, clients, failures, named, raised, calls>>

SetUp ==
    /\ main = "registering" /\ turn = ServerCount + 1
    /\ main' = "up"
    /\ UNCHANGED <<loop, manager, clients, failures, named, raised, turn,
                   registry, calls>>

\* disconnect_all begins: at exit, or when registration raised.
Disconnect ==
    /\ main \in {"registering", "up"}
    /\ main' = "asking"
    /\ UNCHANGED <<loop, manager, clients, failures, named, raised, turn,
                   registry, calls>>

\* _stop runs on the loop: _shutdown is set and the parked manager unwinds.
\* It stays scheduled when the main thread stops waiting for it.
StopSeen ==
    /\ Turning /\ main \in {"asking", "forcing"} /\ task = "parked"
    /\ task' = "unwinding"
    /\ UNCHANGED <<main, loop, next, phase, stack, alive, closed, clients,
                   failures, named, raised, turn, registry, calls>>

PoliteDone ==
    /\ main = "asking" /\ Turning /\ task = "done"
    /\ main' = "naming"
    /\ UNCHANGED <<loop, manager, clients, failures, named, raised, turn,
                   registry, calls>>

\* The polite share of the budget is spent.
PoliteTimeout ==
    /\ main = "asking"
    /\ main' = "forcing"
    /\ UNCHANGED <<loop, manager, clients, failures, named, raised, turn,
                   registry, calls>>

\* A slip: waiting on _done without a clock.
ForceEndsWhenDone ==
    /\ main = "forced" /\ task = "done"
    /\ main' = "naming"
    /\ UNCHANGED <<loop, manager, clients, failures, named, raised, turn,
                   registry, calls>>

\* The cancelled manager set _done, or the rest of the budget is spent.
ForceEnds ==
    /\ main \in {"forcing", "forced"}
    /\ main' = "naming"
    /\ UNCHANGED <<loop, manager, clients, failures, named, raised, turn,
                   registry, calls>>

\* A slip: the sessions are forgotten before they are compared.
FinishCleared ==
    /\ named' = {}
    /\ clients' = {} /\ closed' = {} /\ loop' = "stopped"

\* The servers that did not confirm are named; the client forgets its sessions
\* and drops the loop, whatever is still on it.
Finish ==
    /\ named' = clients \ closed
    /\ clients' = {} /\ closed' = {} /\ loop' = "stopped"

DisconnectEnds ==
    /\ main = "naming"
    /\ Finish
    /\ main' = "unregistering"
    /\ UNCHANGED <<task, next, phase, stack, alive, failures, raised, turn,
                   registry, calls>>

\* A slip: unregister_all over the connected servers, which disconnect_all has cleared.
UnregisterConnected ==
    LET gone == UNION {recorded[s] : s \in clients}
    IN  /\ handler' = [n \in Names |-> IF n \in gone THEN NoServer ELSE handler[n]]
        /\ approval' = [n \in Names |-> IF n \in gone THEN "unset" ELSE approval[n]]
        /\ recorded' = [s \in Servers |-> IF s \in clients THEN {} ELSE recorded[s]]

\* unregister_all: what _registered recorded, by exact name.
Unregister ==
    LET gone == UNION {recorded[s] : s \in Servers}
    IN  /\ handler' = [n \in Names |-> IF n \in gone THEN NoServer ELSE handler[n]]
        /\ approval' = [n \in Names |-> IF n \in gone THEN "unset" ELSE approval[n]]
        /\ recorded' = [s \in Servers |-> {}]

UnregisterAll ==
    /\ main = "unregistering"
    /\ Unregister
    /\ main' = "down"
    /\ UNCHANGED <<loop, manager, clients, failures, named, raised, turn, calls>>

----------------------------------------------------------------------------
(* Workers.                                                                  *)

\* A worker runs a registered tool: the handler finds its server's session.
\* A name without a handler, or a server without a session, is an error answer
\* and leaves no state.
Call(w, n) ==
    /\ main # "registering" /\ calls[w] = Idle
    /\ handler[n] \in clients
    /\ calls' = [calls EXCEPT ![w] = [state |-> "found", server |-> handler[n]]]
    /\ UNCHANGED <<main, loop, manager, clients, failures, named, raised, turn,
                   registry>>

\* The meter may refuse the call before anything is sent.
Refused(w) ==
    /\ calls[w].state = "found"
    /\ calls' = [calls EXCEPT ![w] = Idle]
    /\ UNCHANGED <<main, loop, manager, clients, failures, named, raised, turn,
                   registry>>

\* _ensure_loop, then the coroutine is handed to it.  When the loop has been
\* dropped since the lookup, this starts another one.
Send(w) ==
    /\ calls[w].state = "found"
    /\ loop' = IF loop = "stopped" THEN "second" ELSE loop
    /\ calls' = [calls EXCEPT ![w].state =
                   IF loop \in {"stopped", "second"} THEN "stray" ELSE "sent"]
    /\ UNCHANGED <<main, manager, clients, failures, named, raised, turn,
                   registry>>

\* A result, an error or the protocol's own timeout comes back over the loop
\* the call was sent on.
Answer(w) ==
    /\ \/ calls[w].state = "sent" /\ Turning
       \/ calls[w].state = "stray" /\ loop = "second"
    /\ calls' = [calls EXCEPT ![w] = Idle]
    /\ UNCHANGED <<main, loop, manager, clients, failures, named, raised, turn,
                   registry>>

\* A slip: only the protocol's timeout, which needs the loop.
BackstopOnLoop(w) ==
    /\ calls[w].state \in {"sent", "stray"} /\ Turning
    /\ calls' = [calls EXCEPT ![w] = Idle]
    /\ UNCHANGED <<main, loop, manager, clients, failures, named, raised, turn,
                   registry>>

\* future.result(timeout=): the worker's clock, which needs no loop.
Backstop(w) ==
    /\ calls[w].state \in {"sent", "stray"}
    /\ calls' = [calls EXCEPT ![w] = Idle]
    /\ UNCHANGED <<main, loop, manager, clients, failures, named, raised, turn,
                   registry>>

----------------------------------------------------------------------------
Manager == \/ SkipDisabled \/ EnterServer \/ ServerEntered \/ ServerConnected
           \/ ServerFailed \/ Park \/ ExitCleanly \/ ExitRaises \/ ManagerDone
           \/ ManagerFalls \/ Wedge

Main == \/ ConnectAll \/ Ready \/ ConnectTimeout \/ Cancel \/ GiveUp
        \/ RegisterServer \/ SetUp \/ Disconnect \/ StopSeen \/ PoliteDone
        \/ PoliteTimeout \/ ForceEnds \/ DisconnectEnds \/ UnregisterAll

Worker == \E w \in Workers :
    \/ \E n \in Names : Call(w, n)
    \/ Refused(w) \/ Send(w) \/ Answer(w) \/ Backstop(w)

Next == Manager \/ Main \/ Worker

Spec == Init /\ [][Next]_vars

(* The main thread and the workers run, and their clocks run out.  Nothing is *)
(* promised of the loop or of a server, and nobody has to quit.               *)
Fairness ==
    /\ WF_vars(ConnectTimeout) /\ WF_vars(GiveUp)
    /\ WF_vars(RegisterServer) /\ WF_vars(SetUp)
    /\ WF_vars(PoliteTimeout) /\ WF_vars(ForceEnds)
    /\ WF_vars(DisconnectEnds) /\ WF_vars(UnregisterAll)
    /\ \A w \in Workers : WF_vars(Send(w)) /\ WF_vars(Backstop(w))

FairSpec == Spec /\ Fairness

----------------------------------------------------------------------------
(* Properties.                                                               *)

\* Every variable keeps its type.
McpTypeOK ==
    /\ main \in {"off", "waiting", "dropping", "dropped", "registering", "up",
                 "asking", "forcing", "forced", "naming", "unregistering", "down"}
    /\ loop \in {"none", "running", "wedged", "stopped", "second"}
    /\ task \in {"none", "connecting", "parked", "unwinding", "done"}
    /\ next \in 1 .. ServerCount + 1 /\ turn \in 1 .. ServerCount + 1
    /\ phase \in {"absent", "entering", "listing"}
    /\ stack \in Seq(Servers)
    /\ alive \subseteq Servers /\ clients \subseteq Servers
    /\ failures \subseteq Servers /\ closed \subseteq Servers
    /\ named \subseteq Servers /\ raised \in BOOLEAN
    /\ handler \in [Names -> Servers \union {NoServer}]
    /\ approval \in [Names -> {"unset", "ask", "auto"}]
    /\ recorded \in [Servers -> SUBSET Names]
    /\ calls \in [Workers -> [state : {"idle", "found", "sent", "stray"},
                              server : Servers \union {NoServer}]]

\* One unreachable server never takes down the others: when set-up goes on, every
\* entry the manager came to is connected or has its reason recorded, not both, and
\* it came to all of them unless it fell itself.  Then the entries it did not come
\* to are in neither, and connect_all returns as if they were
\* (MCPClient._manager).
NoneIsLeftOut ==
    main \in {"registering", "up"} =>
        /\ clients \union failures = (1 .. next - 1) \ Disabled
        /\ clients \intersect failures = {}
        /\ task = "parked" => next = ServerCount + 1

\* A child that outlives a finished teardown was named in the straggler warning,
\* if its server was ever connected.  Not so, against disconnect_all's comment
\* (mcp_client/client.py:736-737), one whose server entered and failed to list
\* its tools, of which only that failure was told, nor the one the manager was at
\* when it fell; and when connect_all gave up, nobody is named at all.
OrphansAreTold ==
    main = "down" =>
        IF raised THEN named = {}
        ELSE /\ alive \subseteq named \union failures \union {next}
             /\ named \intersect (failures \union {next}) = {}

\* A registered name has one owner: its handler, the approval default set for
\* it and the record teardown removes it by are that server's, so a name never
\* runs one server's handler under another's autoApprove (register_all).
NamesAreTheirs ==
    \A n \in Names :
        /\ {s \in Servers : n \in recorded[s]} = {handler[n]} \ {NoServer}
        /\ approval[n] = IF handler[n] = NoServer THEN "unset"
                         ELSE IF handler[n] \in AutoApproved THEN "auto" ELSE "ask"

\* A server's tools leave with it: after teardown no name of theirs, and no
\* approval default, is left (teardown_mcp, unregister_all).
NothingLeftRegistered ==
    main = "down" => \A n \in Names : handler[n] = NoServer /\ approval[n] = "unset"

\* A server that fails, at either end of its life, costs the others nothing, and
\* what is told of it is that it did not connect or, if it did, that it did not
\* confirm its close.
FailuresAreTold == NoneIsLeftOut /\ OrphansAreTold

\* While a name is registered it is its server's, and it goes with the servers.
ToolsAreTheirs == NamesAreTheirs /\ NothingLeftRegistered

\* Set-up and teardown end on the main thread's own clocks, whatever a server
\* or the loop does (connect_all, disconnect_all).
MainGetsThrough ==
    main \notin {"off", "up", "down"} ~> main \in {"up", "down"}

\* Every tool call comes back to its worker, also when the loop is wedged or
\* was dropped under it (call_tool).
CallsComeBack ==
    \A w \in Workers : calls[w].state # "idle" ~> calls[w].state = "idle"

\* No thread of the harness waits for a server or for the loop without an end.
NobodyWaitsForever == MainGetsThrough /\ CallsComeBack

============================================================================
