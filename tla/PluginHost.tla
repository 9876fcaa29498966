----------------------------- MODULE PluginHost -----------------------------
(***************************************************************************)
(* One plugin of the server: the client side of its JSON-RPC connection    *)
(* (PluginSubprocess), the host process on the other end of the pipe, the  *)
(* cancel route for plugin tools, the circuit breaker in front of the      *)
(* plugin's hooks and the plugin's entries in the process registry.        *)
(*                                                                         *)
(* Two locks order the client: rpc_lock, held from before a request is     *)
(* written until its call has ended, and the transport's lock, held by     *)
(* whoever reads or writes a frame.  A call that times out replaces the    *)
(* host while it holds rpc_lock (reconnect).  A stream's task keeps both   *)
(* locks until the host ends the stream.                                   *)
(*                                                                         *)
(* Time is three events: a deadline passes (Expire, StartExpires,          *)
(* WriteExpires) and a failure leaves the breaker's window (FailureAges).  *)
(***************************************************************************)
EXTENDS Naturals, Sequences, FiniteSets

CONSTANTS
  Callers,     \* tasks that call the plugin
  None,
  Threshold,   \* timeouts that trip the breaker (3 in the code)
  MaxCalls,    \* calls they make together, the last of them a hook
  MaxEvents,   \* hangs and exits of hosts, dropped futures, cancel requests
  MaxOut       \* frames the pipe holds before a host stops ticking

VARIABLES
  call,      \* per caller: where it is, its request, its result and whose answer it got
  rpc,       \* holder of rpc_lock
  stream,    \* the caller whose stream task owns both locks, or None
  nextId,    \* request_id
  host,      \* the far end of the current transport
  procs,     \* live host processes
  reg,       \* host processes in the registry
  failures,  \* the breaker's window: per failure, did it trip the breaker
  tracked,   \* TOOL_CALL_TRACKING
  cancel,    \* cancel requests waiting to be written
  cut,       \* cancels written while their tool ran and not read yet; was one ignored
  budget     \* what is left of the bounds

vars == <<call, rpc, stream, nextId, host, procs, reg, failures, tracked,
          cancel, cut, budget>>

\* invoke_tool, invoke_hook, auth_fetch_stream and shutdown
Kinds == {"tool", "hook", "stream", "shutdown"}

ASSUME PluginAssumption ==
  /\ IsFiniteSet(Callers)
  /\ None \notin Callers \cup Kinds \cup {"ok", "error"}
  /\ {Threshold, MaxCalls, MaxEvents, MaxOut} \subseteq Nat
  /\ Threshold > 0

-----------------------------------------------------------------------------
(* The far end of a transport.  A host handles one message at a time: its   *)
(* main loop awaits the handler before it reads the next frame.             *)

NewHost(g) ==
  [gen |-> g, inbox |-> <<>>, running |-> None, active |-> {}, out |-> <<>>,
   ready |-> FALSE, hung |-> FALSE, torn |-> FALSE]

Message(c, kind, n) == [id |-> n, kind |-> kind, to |-> c]

Alive == host.gen \in procs

\* the process ends; what it wrote can still be read
Kill(h) ==
  /\ procs' = procs \ {h.gen}
  /\ cut' = [cut EXCEPT !.asked = {}]
  /\ host' = [h EXCEPT !.inbox = <<>>, !.running = None, !.active = {}, !.hung = FALSE]

Idle(n) == [pc |-> "idle", kind |-> None, id |-> n, result |-> None, got |-> None]

Init ==
  /\ call = [c \in Callers |-> Idle(0)]
  /\ rpc = None /\ stream = None /\ nextId = 1
  /\ host = [NewHost(1) EXCEPT !.ready = TRUE]
  /\ procs = {1} /\ reg = {1}
  /\ failures = <<>>
  /\ tracked = [c \in Callers |-> 0]
  /\ cancel = [c \in Callers |-> 0]
  /\ cut = [asked |-> {}, ignored |-> FALSE]
  /\ budget = [calls |-> MaxCalls, events |-> MaxEvents]

-----------------------------------------------------------------------------
(* The circuit breaker.  Its cooldown is as long as its window, so it is    *)
(* open exactly as long as a failure that tripped it is in the window.      *)

IsTripped == \E i \in DOMAIN failures : failures[i]

RecordFailure == failures' = Append(failures, Len(failures) + 1 >= Threshold)
RecordSuccess == failures' = <<>>

FailureAges ==
  /\ failures # <<>>
  /\ failures' = Tail(failures)
  /\ UNCHANGED <<call, rpc, stream, nextId, host, procs, reg, tracked, cancel, cut, budget>>

-----------------------------------------------------------------------------
(* The steps of a call.                                                     *)

At(c, pcs) == call[c].pc \in pcs
Is(c, kind) == call[c].kind = kind
Goto(c, p) == call' = [call EXCEPT ![c].pc = p]

\* the call returns: rpc_lock is released, what follows it is a step of its own
Return(c, r, to) ==
  /\ call' = [call EXCEPT ![c].pc = "after", ![c].result = r, ![c].got = to]
  /\ rpc' = None

\* someone holds the transport's lock: a reader, a stream's task or the
\* reader of initialize; a queued cancel is served before a later reader
Reading == stream # None \/ \E c \in Callers : At(c, {"read", "init"})
CancelQueued == \E k \in Callers : cancel[k] # 0

\* a stream's task goes on with the id of its call
LastId(c) == IF stream = c THEN call[c].id ELSE 0

MayCall(kind) == budget.calls > IF kind = "hook" THEN 0 ELSE 1

\* Variant: the breaker is not asked.
BeginUnchecked(c, kind) ==
  /\ MayCall(kind) /\ At(c, {"idle"})
  /\ budget' = [budget EXCEPT !.calls = IF kind = "shutdown" THEN 0 ELSE @ - 1]
  /\ call' = [call EXCEPT ![c].pc = "lock", ![c].kind = kind]
  /\ UNCHANGED <<rpc, stream, nextId, host, procs, reg, failures, tracked, cancel, cut>>

\* a hook whose breaker is open returns at once; before the idle monitor calls
\* shutdown it takes the plugin's client, hooks and fetch proxy away, so that
\* only calls under way go on with it
Begin(c, kind) ==
  /\ MayCall(kind)
  /\ At(c, {"idle"})
  /\ budget' = [budget EXCEPT !.calls = IF kind = "shutdown" THEN 0 ELSE @ - 1]
  /\ IF kind = "hook" /\ IsTripped
     THEN UNCHANGED call
     ELSE call' = [call EXCEPT ![c].pc = "lock", ![c].kind = kind]
  /\ UNCHANGED <<rpc, stream, nextId, host, procs, reg, failures, tracked, cancel, cut>>

NextId == nextId' = nextId + 1

\* Variant: rpc_lock is not waited for.
LockUnordered(c) ==
  /\ At(c, {"lock"})
  /\ rpc' = c
  /\ call' = [call EXCEPT ![c].pc = "write", ![c].id = nextId]
  /\ NextId
  /\ UNCHANGED <<stream, host, procs, reg, failures, tracked, cancel, cut, budget>>

Lock(c) ==
  /\ At(c, {"lock"}) /\ rpc = None
  /\ rpc' = c
  /\ call' = [call EXCEPT ![c].pc = "write", ![c].id = nextId]
  /\ NextId
  /\ UNCHANGED <<stream, host, procs, reg, failures, tracked, cancel, cut, budget>>

\* a tool's call is tracked as soon as it is written (on_sent), a stream's
\* frames are read by a task of its own
Write(c) ==
  /\ At(c, {"write"}) /\ Alive /\ ~CancelQueued
  /\ host' = [host EXCEPT !.inbox = Append(@, Message(c, call[c].kind, call[c].id))]
  /\ tracked' = IF Is(c, "tool") THEN [tracked EXCEPT ![c] = call[c].id] ELSE tracked
  /\ IF Is(c, "stream") THEN Goto(c, "start") /\ stream' = c
                        ELSE Goto(c, "again") /\ UNCHANGED stream
  /\ UNCHANGED <<rpc, nextId, procs, reg, failures, cancel, cut, budget>>

\* the pipe to a dead host is broken: an I/O error, and no reconnect
WriteFails(c) ==
  /\ At(c, {"write"}) /\ ~Alive
  /\ Return(c, "dead", None)
  /\ UNCHANGED <<stream, nextId, host, procs, reg, failures, tracked, cancel, cut, budget>>

\* the host does not drain its pipe: the write times out with part of a frame
\* written, which no reconnect follows; the host never gets back in step
WriteExpires(c) ==
  /\ At(c, {"write"}) /\ Alive /\ (host.hung \/ host.running # None)
  /\ host' = [host EXCEPT !.hung = TRUE]
  /\ Return(c, "timeout", None)
  /\ UNCHANGED <<stream, nextId, procs, reg, failures, tracked, cancel, cut, budget>>

\* read_message takes the transport's lock and keeps it until a frame arrives
ReadMessage(c) ==
  /\ At(c, {"again"}) /\ ~CancelQueued
  /\ Goto(c, "read")
  /\ UNCHANGED <<rpc, stream, nextId, host, procs, reg, failures, tracked, cancel, cut, budget>>

\* Variant: the first answer read is taken, whatever its id.
AnswersAny(m, c) == m.kind \in {"ok", "error"}

\* whose frame it is
Answers(m, c) == m.id = call[c].id /\ m.kind \in {"ok", "error"}

GotMessage(c) ==
  /\ At(c, {"read"}) /\ ~host.torn /\ host.out # <<>>
  /\ LET m == Head(host.out) IN
       IF Answers(m, c) THEN Return(c, m.kind, m.to)
                        ELSE Goto(c, "again") /\ UNCHANGED rpc
  /\ host' = [host EXCEPT !.out = Tail(@)]
  /\ UNCHANGED <<stream, nextId, procs, reg, failures, tracked, cancel, cut, budget>>

\* out of step with the frames: a header is taken for the rest of a body, the
\* read fails for want of a Content-Length and leaves the next body unread
GotGarbage(c) ==
  /\ At(c, {"read"}) /\ host.torn /\ host.out # <<>>
  /\ host' = [host EXCEPT !.out = Tail(@)]
  /\ Return(c, "protocol", None)
  /\ UNCHANGED <<stream, nextId, procs, reg, failures, tracked, cancel, cut, budget>>

GotEof(c) ==
  /\ At(c, {"read"}) /\ host.out = <<>> /\ ~Alive
  /\ Return(c, "dead", None)
  /\ UNCHANGED <<stream, nextId, host, procs, reg, failures, tracked, cancel, cut, budget>>

Terminates(c) == Is(c, "shutdown") /\ call[c].result = "ok"

\* what the caller does with the result: the breaker, the tracking entry, the
\* termination that ends a shutdown
After(c) ==
  /\ At(c, {"after"})
  /\ Terminates(c) => ~Reading /\ ~CancelQueued
  /\ call' = [call EXCEPT ![c] = Idle(LastId(c))]
  /\ CASE Is(c, "hook") /\ call[c].result = "ok"      -> RecordSuccess
       [] Is(c, "hook") /\ call[c].result = "timeout" -> RecordFailure
       [] OTHER                                          -> UNCHANGED failures
  /\ tracked' = IF Is(c, "tool") THEN [tracked EXCEPT ![c] = 0] ELSE tracked
  /\ IF Terminates(c) THEN Kill(host) ELSE UNCHANGED <<procs, host, cut>>
  /\ UNCHANGED <<rpc, stream, nextId, reg, cancel, budget>>

-----------------------------------------------------------------------------
(* Self-heal: the call that timed out replaces the host, and reports its    *)
(* timeout whatever comes of it.                                            *)

\* the deadline; select! takes either branch when a frame is there as well
Expire(c) ==
  /\ At(c, {"again", "read"})
  /\ Goto(c, "heal")
  /\ UNCHANGED <<rpc, stream, nextId, host, procs, reg, failures, tracked, cancel, cut, budget>>

\* the old process is terminated and its guard defused, so it stays in the
\* registry; the launch fails
LaunchFails(c) ==
  /\ At(c, {"heal"}) /\ ~CancelQueued
  /\ Kill(host)
  /\ Return(c, "timeout", None)
  /\ UNCHANGED <<stream, nextId, reg, failures, tracked, cancel, budget>>

\* Variant: the new host is launched without ending the old one.
ReconnectBeside(c) ==
  /\ At(c, {"heal"}) /\ ~CancelQueued
  /\ procs' = procs \cup {host.gen + 1}
  /\ host' = [NewHost(host.gen + 1) EXCEPT !.inbox = <<Message(c, "initialize", nextId)>>]
  /\ cut' = [cut EXCEPT !.asked = {}]
  /\ call' = [call EXCEPT ![c].pc = "init", ![c].id = nextId]
  /\ NextId
  /\ UNCHANGED <<rpc, stream, reg, failures, tracked, cancel, budget>>

\* or the transport is swapped for a new one, which is asked to initialize
Reconnect(c) ==
  /\ At(c, {"heal"}) /\ ~CancelQueued
  /\ procs' = (procs \ {host.gen}) \cup {host.gen + 1}
  /\ host' = [NewHost(host.gen + 1) EXCEPT !.inbox = <<Message(c, "initialize", nextId)>>]
  /\ cut' = [cut EXCEPT !.asked = {}]
  /\ call' = [call EXCEPT ![c].pc = "init", ![c].id = nextId]
  /\ NextId
  /\ UNCHANGED <<rpc, stream, reg, failures, tracked, cancel, budget>>

Initialized(c) ==
  /\ At(c, {"init"}) /\ host.out # <<>>
  /\ Head(host.out).kind = "ok"
  /\ host' = [host EXCEPT !.out = Tail(@)]
  /\ reg' = reg \cup {host.gen}
  /\ Return(c, "timeout", None)
  /\ UNCHANGED <<stream, nextId, procs, failures, tracked, cancel, cut, budget>>

\* Variant: initialize has no deadline of its own.
InitializeAwaits(c) ==
  /\ At(c, {"init"})
  /\ \/ host.out # <<>> /\ Head(host.out).kind = "error"
     \/ host.out = <<>> /\ ~Alive
  /\ host' = [host EXCEPT !.out = <<>>]
  /\ Return(c, "timeout", None)
  /\ UNCHANGED <<stream, nextId, procs, reg, failures, tracked, cancel, cut, budget>>

\* an error, the end of the pipe or the second deadline: the host stays as it
\* is, and out of the registry
InitializeFails(c) ==
  /\ At(c, {"init"})
  /\ \/ host.out # <<>> /\ Head(host.out).kind = "error"
     \/ host.out = <<>>
  /\ host' = [host EXCEPT !.out = <<>>]
  /\ Return(c, "timeout", None)
  /\ UNCHANGED <<stream, nextId, procs, reg, failures, tracked, cancel, cut, budget>>

-----------------------------------------------------------------------------
(* A caller's future is dropped at one of its awaits.  Nothing runs but the *)
(* release of its locks; a frame it was reading is lost in part.            *)

Drop(c) ==
  /\ ~At(c, {"idle"}) /\ budget.events > 0
  /\ budget' = [budget EXCEPT !.events = @ - 1]
  /\ call' = [call EXCEPT ![c] = Idle(LastId(c))]
  /\ rpc' = IF rpc = c /\ stream # c THEN None ELSE rpc
  /\ \/ UNCHANGED host
     \/ /\ At(c, {"read", "init"}) /\ host.out # <<>>
        /\ host' = [host EXCEPT !.torn = TRUE, !.out = Tail(@)]
  /\ UNCHANGED <<stream, nextId, procs, reg, failures, tracked, cancel, cut>>

-----------------------------------------------------------------------------
(* auth_fetch_stream: the spawned task forwards the frames of its stream    *)
(* and reads without a deadline.                                            *)

\* the caller still waits for the stream to start
Starting(c, r, to) ==
  IF At(c, {"start"})
  THEN call' = [call EXCEPT ![c].pc = "after", ![c].result = r, ![c].got = to]
  ELSE UNCHANGED call

TaskEnds == stream' = None /\ rpc' = None

StreamMessage(c) ==
  /\ stream = c /\ ~host.torn /\ host.out # <<>>
  /\ LET m == Head(host.out) IN
       \/ /\ m.id # call[c].id
          /\ UNCHANGED <<call, stream, rpc>>
       \/ /\ m.id = call[c].id /\ m.kind = "ok"
          /\ Starting(c, "ok", m.to)
          /\ UNCHANGED <<stream, rpc>>
       \/ /\ m.id = call[c].id /\ m.kind = "error"
          /\ Starting(c, "error", m.to)
          /\ TaskEnds
       \/ /\ m.id = call[c].id /\ m.kind = "end"
          /\ Starting(c, "dead", None)
          /\ TaskEnds
  /\ host' = [host EXCEPT !.out = Tail(@)]
  /\ UNCHANGED <<nextId, procs, reg, failures, tracked, cancel, cut, budget>>

StreamFails(c) ==
  /\ stream = c
  /\ \/ host.torn /\ host.out # <<>> /\ host' = [host EXCEPT !.out = Tail(@)]
     \/ host.out = <<>> /\ ~Alive /\ UNCHANGED host
  /\ Starting(c, IF host.torn THEN "protocol" ELSE "dead", None)
  /\ TaskEnds
  /\ UNCHANGED <<nextId, procs, reg, failures, tracked, cancel, cut, budget>>

\* the caller gives up; the task keeps reading
StartExpires(c) ==
  /\ At(c, {"start"})
  /\ call' = [call EXCEPT ![c].pc = "after", ![c].result = "timeout"]
  /\ UNCHANGED <<rpc, stream, nextId, host, procs, reg, failures, tracked, cancel, cut, budget>>

-----------------------------------------------------------------------------
(* cancel_tool_call: the request id of a tracked call, a notification that  *)
(* waits for the transport's lock, the tracking entry removed when it was   *)
(* written.                                                                 *)

CancelAsks(k) ==
  /\ tracked[k] # 0 /\ cancel[k] = 0 /\ budget.events > 0
  /\ budget' = [budget EXCEPT !.events = @ - 1]
  /\ cancel' = [cancel EXCEPT ![k] = tracked[k]]
  /\ UNCHANGED <<call, rpc, stream, nextId, host, procs, reg, failures, tracked, cut>>

\* the tool of this request is being executed
Executing(n) == host.running # None /\ host.running.id = n

CancelWrites(k) ==
  /\ cancel[k] # 0 /\ ~Reading
  /\ cancel' = [cancel EXCEPT ![k] = 0]
  /\ IF Alive
     THEN /\ host' = [host EXCEPT !.inbox = Append(@, Message(k, "cancel", cancel[k]))]
          /\ tracked' = [tracked EXCEPT ![k] = 0]
          /\ cut' = [cut EXCEPT !.asked = @ \cup {n \in {cancel[k]} : Executing(n)}]
     ELSE UNCHANGED <<host, tracked, cut>>
  /\ UNCHANGED <<call, rpc, stream, nextId, procs, reg, failures, budget>>

-----------------------------------------------------------------------------
(* The host's main loop (plugin-host.ts).                                   *)

Running == Alive /\ ~host.hung /\ host.running # None

Emit(m) == [host EXCEPT !.out = Append(@, m)]

HostReads ==
  /\ Alive /\ ~host.hung /\ host.running = None /\ host.inbox # <<>>
  /\ LET m == Head(host.inbox)
         h == [host EXCEPT !.inbox = Tail(@)] IN
       \/ /\ m.kind = "cancel"
          /\ host' = [h EXCEPT !.active = @ \ {m.id}]
          /\ cut' = [asked |-> cut.asked \ {m.id},
                     ignored |-> cut.ignored \/ m.id \in cut.asked \ host.active]
          /\ UNCHANGED procs
       \/ /\ m.kind = "shutdown"
          /\ Kill([h EXCEPT !.out = Append(@, [m EXCEPT !.kind = "ok"])])
       \/ /\ m.kind \notin {"cancel", "shutdown"}
          /\ host' = [h EXCEPT !.running = m,
                               !.active = IF m.kind = "tool" THEN @ \cup {m.id} ELSE @]
          /\ UNCHANGED <<procs, cut>>
  /\ UNCHANGED <<call, rpc, stream, nextId, reg, failures, tracked, cancel, budget>>

\* the heartbeat of a tool under way
HostTicks ==
  /\ Running /\ host.running.kind = "tool" /\ Len(host.out) < MaxOut
  /\ host' = Emit([host.running EXCEPT !.id = 0, !.kind = "progress"])
  /\ UNCHANGED <<call, rpc, stream, nextId, procs, reg, failures, tracked, cancel, cut, budget>>

\* the handler ends; without a loaded plugin it has nothing but an error to
\* answer, and a stream goes on after its answer
HostAnswers ==
  /\ Running /\ host.running.kind # "body"
  /\ \E kind \in {"ok", "error"} :
       /\ kind = "ok" => host.ready \/ host.running.kind = "initialize"
       /\ host' = [Emit([host.running EXCEPT !.kind = kind]) EXCEPT
                     !.running = IF kind = "ok" /\ @.kind = "stream"
                                 THEN [@ EXCEPT !.kind = "body"] ELSE None,
                     !.active = @ \ {host.running.id},
                     !.ready = @ \/ (kind = "ok" /\ host.running.kind = "initialize")]
  /\ UNCHANGED <<call, rpc, stream, nextId, procs, reg, failures, tracked, cancel, cut, budget>>

HostEndsStream ==
  /\ Running /\ host.running.kind = "body"
  /\ host' = [Emit([host.running EXCEPT !.kind = "end"]) EXCEPT !.running = None]
  /\ UNCHANGED <<call, rpc, stream, nextId, procs, reg, failures, tracked, cancel, cut, budget>>

\* plugin code that never yields, and one that takes the process with it
HostHangs ==
  /\ Running /\ budget.events > 0
  /\ budget' = [budget EXCEPT !.events = @ - 1]
  /\ host' = [host EXCEPT !.hung = TRUE]
  /\ UNCHANGED <<call, rpc, stream, nextId, procs, reg, failures, tracked, cancel, cut>>

HostExits ==
  /\ Alive /\ budget.events > 0
  /\ budget' = [budget EXCEPT !.events = @ - 1]
  /\ Kill(host)
  /\ UNCHANGED <<call, rpc, stream, nextId, reg, failures, tracked, cancel>>

\* Variant: the reaper looks at the current host only.
ReapCurrent ==
  /\ host.gen \in reg \ procs
  /\ reg' = reg \ {host.gen}
  /\ UNCHANGED <<call, rpc, stream, nextId, host, procs, failures, tracked, cancel, cut, budget>>

\* a pass of the registry's reaper
Reap ==
  /\ ~(reg \subseteq procs)
  /\ reg' = reg \cap procs
  /\ UNCHANGED <<call, rpc, stream, nextId, host, procs, failures, tracked, cancel, cut, budget>>

-----------------------------------------------------------------------------
CallerStep(c) ==
  \/ (\E kind \in Kinds : Begin(c, kind)) \/ Lock(c) \/ Write(c) \/ WriteFails(c) \/ WriteExpires(c)
  \/ ReadMessage(c) \/ GotMessage(c) \/ GotGarbage(c) \/ GotEof(c)
  \/ After(c) \/ Expire(c) \/ LaunchFails(c) \/ Reconnect(c)
  \/ Initialized(c) \/ InitializeFails(c) \/ Drop(c)
  \/ StreamMessage(c) \/ StreamFails(c) \/ StartExpires(c)

HostStep ==
  HostReads \/ HostTicks \/ HostAnswers \/ HostEndsStream \/ HostHangs \/ HostExits

Next ==
  \/ \E c \in Callers : CallerStep(c)
  \/ \E k \in Callers : CancelAsks(k) \/ CancelWrites(k)
  \/ HostStep \/ FailureAges \/ Reap

Spec == Init /\ [][Next]_vars

\* what a caller or a stream's task does without waiting for a deadline
Runs(c) ==
  \/ Lock(c) \/ Write(c) \/ WriteFails(c) \/ ReadMessage(c) \/ GotMessage(c)
  \/ GotGarbage(c) \/ GotEof(c) \/ After(c) \/ LaunchFails(c) \/ Reconnect(c)
  \/ Initialized(c) \/ InitializeFails(c) \/ StreamMessage(c) \/ StreamFails(c)

\* tasks run while one of them can, deadlines pass in silence and the reaper
\* wakes up; nothing is assumed of the host
FairSpec ==
  /\ Spec
  /\ WF_vars(\E c \in Callers : Runs(c))
  /\ WF_vars(\E c \in Callers : StartExpires(c) \/ (host.out = <<>> /\ Expire(c)))
  /\ WF_vars(\E k \in Callers : CancelWrites(k))
  /\ WF_vars(Reap)

-----------------------------------------------------------------------------
Results == {None, "ok", "error", "timeout", "dead", "protocol"}

\* Every variable has its type; a call that has written its request owns
\* rpc_lock, or its stream's task does.
TypeOK ==
  /\ \A c \in Callers :
       /\ call[c].pc \in {"idle", "lock", "write", "again", "read", "after",
                         "heal", "init", "start"}
       /\ call[c].kind \in Kinds \cup {None}
       /\ call[c].id \in 0 .. nextId - 1
       /\ call[c].result \in Results
       /\ call[c].got \in Callers \cup {None}
       /\ At(c, {"write", "again", "read", "heal", "init", "start"})
            => (rpc = c \/ At(c, {"start"}))
  /\ rpc \in Callers \cup {None} /\ stream \in {None, rpc}
  /\ host.gen \in Nat \ {0} /\ procs \subseteq 1 .. host.gen /\ reg \subseteq 1 .. host.gen

\* A call that returns an answer returns the one to its own request, whatever
\* late answers, heartbeats and dropped calls left in the pipe (invoke_tool,
\* call, auth_fetch_stream).
OwnAnswer ==
  \A c \in Callers : call[c].result \in {"ok", "error"} => call[c].got = c

\* A plugin never has two host processes: reconnect ends the old one first,
\* also when calls are dropped or fail on the way (reconnect).
OneHost == Cardinality(procs) <= 1

\* The locks are with the calls that use them, and there is one host.
PluginSound == TypeOK /\ OneHost

\* The breaker bounds the timeouts that hooks can suffer within one window,
\* although it is asked before a call and told after it: only the calls that
\* passed it before it tripped can add to them (register_client_hooks).
HookTimeoutsBounded == Len(failures) <= Threshold + Cardinality(Callers) - 1

\* Every call returns, hosts that hang or die included, as long as the streams
\* and the heartbeats of the plugin's tools come to an end: both locks are
\* always given back (call, invoke_tool, auth_fetch_stream, reconnect).
CallsReturn ==
  (/\ []<>(stream = None)
   /\ <>[][~HostTicks]_vars)
  => \A c \in Callers : []<>At(c, {"idle"})

\* A host process that has ended leaves the registry, also the one whose
\* guard reconnect has defused (spawn_reaper).
RegistryForgets == []<>(reg \subseteq procs)

-----------------------------------------------------------------------------
(* What the code does not promise.                                          *)

\* A cancel written while its tool runs aborts the tool
\* (client.rs, cancel_request: "to abort a running request").
CancelAborts == ~cut.ignored

\* After a timeout the plugin can be called again (client.rs, call: "On
\* timeout, triggers an in-place reconnect so subsequent calls work").
TimeoutLeavesHost ==
  \A c \in Callers :
    At(c, {"after"}) /\ call[c].result = "timeout" /\ stream # c =>
      Alive /\ host.ready /\ ~host.hung

\* A call fails for its frames only when the host broke them.
FramesStayInStep == ~host.torn
=============================================================================
