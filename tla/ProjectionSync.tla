--------------------------- MODULE ProjectionSync ---------------------------
(***************************************************************************)
(* The client's projection of a session's runtime: the terminal's          *)
(* ProjectionCoordinator and its reducer, fed by sequenced events that may *)
(* be lost, duplicated or reordered, and by the runtime snapshots of the   *)
(* server's SubmissionAuthority, one sequence counter for all sessions.    *)
(*                                                                         *)
(* Snapshots are built the way the snapshot type promises ("contract":     *)
(* every event up to the watermark is in it) or the way                    *)
(* build_runtime_snapshot does ("code").  The caller that subscribes,      *)
(* fetches and retries is not part of the repository; it is modelled from  *)
(* what the coordinator's results ask of it.                               *)
(***************************************************************************)
EXTENDS Integers, Sequences, FiniteSets, FiniteSetsExt

CONSTANTS
    Sessions, Absent,
    EventKinds,     \* events: queue (QueueChanged), applied (SteeringApplied), other
    Builders,       \* how the server may build a snapshot: contract, code
    MaxEvents,      \* bound on the events of the server's lives
    MaxFaults,      \* bound on restarts, session switches and failed or late fetches
    MaxBuffer       \* MAX_RECOVERY_BUFFER_SIZE

ASSUME SyncAssumption ==
    /\ Sessions # {} /\ Absent \notin [generation : Nat, required : Nat]
    /\ EventKinds \subseteq {"queue", "applied", "other"}
    /\ Builders \subseteq {"contract", "code"}
    /\ {MaxEvents, MaxFaults, MaxBuffer} \subseteq Nat

VARIABLES
    builder,    \* how this server builds a snapshot
    log,        \* per epoch, the events the server has emitted: session and kind
    net,        \* events under way
    active,     \* the session the client shows
    proj,       \* current_projection
    epoch,      \* current_epoch
    sync,       \* sync_state: the recovery's generation and required sequence, or Absent
    generation, \* recovery_generation
    buffer,     \* event_buffer_during_recovery
    need,       \* the sequence the caller was told to resnapshot for, 0 for none
    fetches,    \* snapshot requests: generation, session, and what is built so far
    faults      \* restarts, switches and failures so far

clientVars == <<proj, epoch, sync, generation, buffer>>
syncVars == <<builder, log, net, active, proj, epoch, sync, generation, buffer, need, fetches, faults>>

SyncInit ==
    /\ builder \in Builders
    /\ log = << << >> >>
    /\ net = {}
    /\ active = CHOOSE s \in Sessions : TRUE
    /\ proj = Absent /\ epoch = 1
    /\ sync = Absent /\ generation = 0 /\ buffer = {}
    /\ need = 0
    /\ fetches = {}
    /\ faults = 0

---------------------------------------------------------------------------
(* The server.                                                              *)

Now == Len(log)

Issued == Len(log[Now])

\* What a session's runtime is after n events of epoch e: its queue revision,
\* and whether its one steering message is pending.
Truth(s, e, n) ==
    LET of(kind) == {i \in 1..n : log[e][i] = [session |-> s, kind |-> kind]}
    IN  [revision |-> Cardinality(of("queue")), pending |-> of("applied") = {}]

\* An event takes the next sequence number.
Emit(s, kind) ==
    LET event == [session |-> s, seq |-> Issued + 1, kind |-> kind, epoch |-> Now,
                  revision |-> Truth(s, Now, Issued).revision + 1]
    IN  /\ FoldSet(LAMBDA e, n : n + Len(log[e]), 0, DOMAIN log) < MaxEvents
        /\ log' = [log EXCEPT ![Now] = Append(@, [session |-> s, kind |-> kind])]
        /\ net' = net \cup {event}
        /\ UNCHANGED <<active, clientVars, need, fetches, faults>>

\* A new process: the counter and the queue revisions start again, connections
\* are lost.
Restart ==
    /\ faults < MaxFaults
    /\ faults' = faults + 1
    /\ log' = Append(log, << >>)
    /\ net' = {}
    /\ fetches' = {}
    /\ need' = IF sync = Absent THEN need ELSE sync.required
    /\ UNCHANGED <<active, clientVars>>

Built(f, last) ==
    [f EXCEPT !.snap = [session |-> f.session, epoch |-> Now, last |-> last, state |-> f.state]]

BuildAtomically(f) ==
    /\ builder = "contract" /\ f.snap = Absent
    /\ fetches' = (fetches \ {f}) \cup {Built([f EXCEPT !.state = Truth(f.session, Now, Issued)], Issued)}
    /\ UNCHANGED <<log, net, active, clientVars, need, faults>>

\* build_runtime_snapshot reads the queue first...
BuildReads(f) ==
    /\ builder = "code" /\ f.snap = Absent /\ f.state = Absent
    /\ fetches' = (fetches \ {f}) \cup {[f EXCEPT !.state = Truth(f.session, Now, Issued)]}
    /\ UNCHANGED <<log, net, active, clientVars, need, faults>>

\* ...and then current_sequence, which is the number the next event will get.
BuildStamps(f) ==
    /\ builder = "code" /\ f.snap = Absent /\ f.state # Absent
    /\ fetches' = (fetches \ {f}) \cup {Built(f, Issued + 1)}
    /\ UNCHANGED <<log, net, active, clientVars, need, faults>>

---------------------------------------------------------------------------
(* The reducer.                                                             *)

FromSnapshot(snap) ==
    [session |-> snap.session, epoch |-> snap.epoch, last |-> snap.last, state |-> snap.state]

\* apply_event's last step: the event is the next one.
Apply(p, e) ==
    [p EXCEPT !.last = e.seq,
              !.state = [revision |-> IF e.kind = "queue" THEN e.revision ELSE @.revision,
                         pending |-> @.pending /\ e.kind # "applied"]]

\* Variant: the replay takes the buffered events as they come, gaps or not.
ReplayAll(base, events) ==
    LET seqs == {e.seq : e \in {x \in events : x.session = base.session}}
        reach == IF seqs = {} THEN base.last ELSE Max(seqs \cup {base.last})
        run == {e \in events : e.session = base.session /\ e.seq \in (base.last + 1)..reach}
        revisions == {e.revision : e \in {x \in run : x.kind = "queue"}}
    IN  [proj |-> [base EXCEPT
                     !.last = reach,
                     !.state = [revision |-> IF revisions = {} THEN @.revision ELSE Max(revisions),
                                pending |-> @.pending /\ \A e \in run : e.kind # "applied"]],
         ok |-> TRUE]

\* Sorted, without duplicates, replayed while they follow one another; a gap
\* that is left stops the replay.
ReplayBuffer(base, events) ==
    LET own == {e \in events : e.session = base.session /\ e.seq > base.last}
        seqs == {e.seq : e \in own}
        reach == Max({base.last} \cup {n \in seqs : (base.last + 1)..n \subseteq seqs})
        run == {e \in own : e.seq <= reach}
        revisions == {e.revision : e \in {x \in run : x.kind = "queue"}}
    IN  [proj |-> [base EXCEPT
                     !.last = reach,
                     !.state = [revision |-> IF revisions = {} THEN @.revision ELSE Max(revisions),
                                pending |-> @.pending /\ \A e \in run : e.kind # "applied"]],
         ok |-> \A n \in seqs : n <= reach]

---------------------------------------------------------------------------
(* The coordinator.                                                         *)

\* Variant: the reset keeps what was buffered.
ResetKeeps(s) ==
    /\ faults < MaxFaults /\ s # active
    /\ active' = s
    /\ proj' = Absent /\ sync' = Absent
    /\ need' = 0
    /\ faults' = faults + 1
    /\ UNCHANGED <<log, net, epoch, generation, buffer, fetches>>

\* reset_session, when the client opens another session.
ResetSession(s) ==
    /\ faults < MaxFaults /\ s # active
    /\ active' = s
    /\ proj' = Absent /\ sync' = Absent /\ buffer' = {}
    /\ need' = 0
    /\ faults' = faults + 1
    /\ UNCHANGED <<log, net, epoch, generation, fetches>>

\* install_snapshot of a session just opened.
InstallSnapshot ==
    /\ builder = "contract" /\ proj = Absent /\ sync = Absent /\ need = 0
    /\ proj' = FromSnapshot([session |-> active, epoch |-> Now, last |-> Issued,
                             state |-> Truth(active, Now, Issued)])
    /\ epoch' = Now
    /\ buffer' = {}
    /\ UNCHANGED <<log, net, active, sync, generation, need, fetches, faults>>

Projects(e) == proj # Absent /\ proj.session = e.session

\* Variant: the next event is applied at once, recovery or not.
BufferedApplies(e) ==
    /\ sync # Absent
    /\ IF Projects(e) /\ e.seq = proj.last + 1
       THEN proj' = Apply(proj, e) /\ UNCHANGED <<buffer, need>>
       ELSE buffer' = buffer \cup (IF Cardinality(buffer) < MaxBuffer THEN {e} ELSE {})
            /\ UNCHANGED <<proj, need>>

\* handle_event while the coordinator recovers: kept, unless the buffer is
\* full.  A duplicate takes a place in it too; that it may crowd an event out
\* is as if that event were lost.
Buffered(e) ==
    /\ sync # Absent
    /\ buffer' = IF Cardinality(buffer) < MaxBuffer THEN buffer \cup {e} ELSE buffer
    /\ UNCHANGED <<proj, need>>

\* handle_event otherwise.  The event's epoch is taken to be the coordinator's.
Reduced(e) ==
    /\ sync = Absent
    /\ UNCHANGED buffer
    /\ \/ /\ ~ Projects(e)
          /\ need' = e.seq /\ UNCHANGED proj
       \/ /\ Projects(e)
          /\ \/ e.seq <= proj.last /\ UNCHANGED <<proj, need>>
             \/ e.seq = proj.last + 1 /\ proj' = Apply(proj, e) /\ UNCHANGED need
             \/ e.seq > proj.last + 1 /\ need' = e.seq /\ UNCHANGED proj

\* The caller has nothing left to do for an earlier event, and hears of the
\* session it shows only.  The event may come again.
Deliver(e) ==
    /\ e.session = active /\ need = 0
    /\ Buffered(e) \/ Reduced(e)
    /\ net' \in {net, net \ {e}}
    /\ UNCHANGED <<log, active, epoch, sync, generation, fetches, faults>>

\* begin_recovery, and the caller's request for a snapshot.
BeginRecovery ==
    /\ need # 0
    /\ generation' = generation + 1
    /\ sync' = [generation |-> generation + 1, required |-> need]
    /\ buffer' = {}
    /\ need' = 0
    /\ fetches' = fetches \cup {[generation |-> generation + 1, session |-> active,
                                 state |-> Absent, snap |-> Absent]}
    /\ UNCHANGED <<log, net, active, proj, epoch, faults>>

\* Variant: an answer to an earlier request is taken for this recovery's.
FinishAny(f) ==
    LET replayed == ReplayBuffer(FromSnapshot(f.snap), buffer)
    IN  /\ f.snap # Absent /\ sync # Absent
        /\ fetches' = fetches \ {f}
        /\ proj' = replayed.proj /\ epoch' = f.snap.epoch /\ buffer' = {}
        /\ sync' = IF replayed.ok THEN Absent ELSE sync
        /\ need' = IF replayed.ok THEN need ELSE replayed.proj.last + 1
        /\ UNCHANGED <<log, net, active, generation, faults>>

\* Variant: the projection is installed and the coordinator goes on recovering.
FinishUnsynced(f) ==
    LET replayed == ReplayBuffer(FromSnapshot(f.snap), buffer)
    IN  /\ f.snap # Absent /\ f.generation = generation
        /\ fetches' = fetches \ {f}
        /\ proj' = replayed.proj /\ epoch' = f.snap.epoch /\ buffer' = {}
        /\ need' = IF replayed.ok THEN need ELSE replayed.proj.last + 1
        /\ UNCHANGED <<log, net, active, sync, generation, faults>>

\* finish_recovery of the current generation.  When the replay finds a gap the
\* coordinator goes on recovering and the caller fetches again.
FinishRecovery(f) ==
    LET replayed == ReplayBuffer(FromSnapshot(f.snap), buffer)
    IN  /\ f.snap # Absent /\ f.generation = generation
        /\ fetches' = fetches \ {f}
        /\ proj' = replayed.proj /\ epoch' = f.snap.epoch /\ buffer' = {}
        /\ sync' = IF replayed.ok THEN Absent ELSE sync
        /\ need' = IF replayed.ok THEN need ELSE replayed.proj.last + 1
        /\ UNCHANGED <<log, net, active, generation, faults>>

FinishIgnored(f) ==
    /\ f.snap # Absent /\ f.generation # generation
    /\ fetches' = fetches \ {f}
    /\ UNCHANGED <<log, net, active, clientVars, need, faults>>

\* The request fails; the caller of the current recovery tries again.
FetchFails(f) ==
    /\ faults < MaxFaults
    /\ faults' = faults + 1
    /\ fetches' = fetches \ {f}
    /\ need' = IF sync # Absent /\ f.generation = generation THEN sync.required ELSE need
    /\ UNCHANGED <<log, net, active, clientVars>>

\* The caller gives up waiting and asks again: the first answer may still come.
RetryRecovery ==
    /\ faults < MaxFaults
    /\ sync # Absent /\ need = 0
    /\ faults' = faults + 1
    /\ need' = sync.required
    /\ UNCHANGED <<log, net, active, clientVars, fetches>>

---------------------------------------------------------------------------

Answer(f) == BuildAtomically(f) \/ BuildReads(f) \/ BuildStamps(f) \/ FinishRecovery(f) \/ FinishIgnored(f)

Step ==
    \/ \E s \in Sessions, kind \in EventKinds : Emit(s, kind)
    \/ Restart
    \/ \E s \in Sessions : ResetSession(s)
    \/ InstallSnapshot
    \/ \E e \in net : Deliver(e)
    \/ BeginRecovery \/ RetryRecovery
    \/ \E f \in fetches : Answer(f) \/ FetchFails(f)

SyncNext == Step /\ UNCHANGED builder

SyncSpec == SyncInit /\ [][SyncNext]_syncVars

\* Requests are answered and the caller acts on what it is told.  Nothing is
\* assumed of the delivery of events.
Fairness == 
    /\ WF_syncVars(BeginRecovery /\ UNCHANGED builder)
    /\ WF_syncVars(UNCHANGED builder /\ \E f \in fetches : Answer(f))

SyncFairSpec == SyncSpec /\ Fairness

---------------------------------------------------------------------------
(* Properties.                                                              *)

States == [revision : Nat, pending : BOOLEAN]

Projections == [session : Sessions, epoch : Nat \ {0}, last : Nat, state : States]

\* Every variable has its type.
SyncTypeOK ==
    /\ active \in Sessions
    /\ proj \in Projections \cup {Absent}
    /\ epoch \in 1..Now
    /\ sync \in [generation : Nat, required : Nat \ {0}] \cup {Absent}
    /\ sync # Absent => sync.generation = generation
    /\ Cardinality(buffer) <= MaxBuffer /\ (buffer # {} => sync # Absent)
    /\ need \in Nat
    /\ \A f \in fetches : f.generation \in 1..generation /\ f.snap \in Projections \cup {Absent}

\* The projection is what the server was after the event it is stamped with.
Faithful ==
    proj # Absent => proj.state = Truth(proj.session, proj.epoch, Min({proj.last, Len(log[proj.epoch])}))

\* While snapshots keep their promise and the server does not restart, what the
\* client shows is never a state in between or a mixture, however events are
\* lost, doubled and reordered around a recovery (apply_event,
\* finish_recovery; the watermark of SessionRuntimeSnapshot).
ProjectionIsPrefix == builder = "contract" /\ Now = 1 => Faithful

\* A recovery never ends behind the event that started it, though
\* required_sequence is never compared with the snapshot: the generation makes
\* sure that the snapshot was built later (begin_recovery, finish_recovery).
RecoversWhatWasMissed ==
    [][sync # Absent /\ sync' = Absent /\ proj' # Absent /\ Now = 1 => proj'.last >= sync.required]_syncVars

\* The answer of a recovery that reset_session has cut off is taken all the
\* same, for the generation is still the current one.
LateAnswer == sync = Absent /\ fetches' # fetches

\* What is shown never goes back, except to another session or epoch, or by a
\* recovery that was cut off.
NeverBackwards ==
    [][proj # Absent /\ proj' # Absent /\ proj.session = proj'.session /\ proj.epoch = proj'.epoch
         => LateAnswer \/ proj'.last >= proj.last]_syncVars

\* The coordinator's records are well formed, and what the client shows was
\* a state of the server.
ProjectionSound == SyncTypeOK /\ ProjectionIsPrefix

\* A recovery brings what was missed, and neither it nor an event takes the
\* client back, unless it is the late answer to a recovery that was cut off.
NeverLosesGround == RecoversWhatWasMissed /\ NeverBackwards

\* A recovery ends, whatever else happens to the stream: the coordinator does
\* not buffer for ever.
RecoveryEnds == sync # Absent ~> sync = Absent

\* Not so.  reset_session leaves the generation, so a recovery of the session
\* the client has left may still finish.
ProjectionIsOfTheSession == proj # Absent => proj.session = active
=============================================================================
