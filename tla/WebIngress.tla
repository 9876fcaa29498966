----------------------------- MODULE WebIngress -----------------------------
(***************************************************************************)
(* The batching of web prompts (live_web_ingress.rs): prompts that reach a *)
(* session within BATCH_WINDOW_MS of each other become one turn.  The      *)
(* first one leads: it reserves the session, opens a batch in the session's *)
(* metadata, sleeps for the window and drains what has joined.  The others *)
(* join under the sessions lock and are answered "accepted" at once.       *)
(*                                                                         *)
(* Sessions lock, run table and clock are separate: staging is three looks *)
(* at the session with a reservation in between, which itself checks and   *)
(* inserts under two acquisitions of its lock.  The clock is read twice,   *)
(* for the envelope and for the stage.  All prompts here are of the kind   *)
(* that supports() accepts, for one session, so matches_batch holds.       *)
(* What a run does in between is SessionRun's subject.                     *)
(***************************************************************************)
EXTENDS Naturals, Sequences, FiniteSetsExt, SequencesExt

CONSTANTS
    Prompts,            \* requests to the prompt route, numbers
    Repeats,            \* the ones that repeat the smallest of them
    Window,             \* BATCH_WINDOW_MS, DEFAULT_WEB_BATCH_WINDOW_MS
    MaxClock,           \* bound: no prompt is received later
    MaxWebFaults,       \* bound: disconnects, aborts and deletions
    FaultPrompts,       \* bound: the prompts of a behaviour with one of these
    NoBatch

ASSUME IngressAssumption ==
    /\ Prompts \subseteq Nat /\ Repeats \subseteq Prompts
    /\ Window \in Nat /\ MaxClock \in Nat /\ MaxWebFaults \in Nat /\ FaultPrompts \in Nat

VARIABLES
    clock,              \* milliseconds
    exists,             \* the session is in the session table
    batch,              \* Batch under BATCH_METADATA_KEY, or NoBatch
    reserved,           \* the session has an entry in SessionPrompt.state
    pc,                 \* where the handler, then the spawned task, of a prompt is
    received,           \* received_at_ms of its envelope
    time,               \* now_ms of its stage, then when the leader's sleep is over
    turns,              \* the prompts of each turn that was run
    webFaults

webVars == <<clock, exists, batch, reserved, pc, received, time, turns, webFaults>>

\* The turn id comes from the idempotency key: a repeated request has the id of
\* the one it repeats.
TurnId == [p \in Prompts |-> IF p \in Repeats THEN Min(Prompts) ELSE p]

\* Where stage still needs now_ms.
Staging == {"stage", "check", "insert", "busy", "open", "opened"}

Moves(p, to) == pc' = [pc EXCEPT ![p] = to]

\* A move that leaves the clock alone; a time that is not read again is forgotten.
Goes(p, to) ==
    /\ Moves(p, to)
    /\ time' = IF to \in Staging THEN time ELSE [time EXCEPT ![p] = 0]

WebInit ==
    /\ clock = 0 /\ exists = TRUE /\ batch = NoBatch /\ reserved = FALSE
    /\ pc = [p \in Prompts |-> "new"]
    /\ received = [p \in Prompts |-> 0]
    /\ time = [p \in Prompts |-> 0]
    /\ turns = << >> /\ webFaults = 0

-----------------------------------------------------------------------------
(* Time and the two readings of it *)

\* Time goes on while prompts arrive and while a leader sleeps.
Tick ==
    /\ clock < MaxClock \/ \E p \in Prompts : pc[p] = "asleep" /\ clock < time[p]
    /\ clock' = clock + 1
    /\ UNCHANGED <<exists, batch, reserved, pc, received, time, turns, webFaults>>

Received == {p \in Prompts : pc[p] # "new"}

\* build_ingress_envelope stamps the envelope.
Receive(p) ==
    /\ pc[p] = "new" /\ clock <= MaxClock
    /\ webFaults = 0 \/ Cardinality(Received) < FaultPrompts
    /\ received' = [received EXCEPT ![p] = clock]
    /\ Goes(p, "received")
    /\ UNCHANGED <<clock, exists, batch, reserved, turns, webFaults>>

\* stage reads the clock, before it waits for the sessions lock.
Stage(p) ==
    /\ pc[p] = "received"
    /\ time' = [time EXCEPT ![p] = clock]
    /\ Moves(p, "stage")
    /\ UNCHANGED <<clock, exists, batch, reserved, received, turns, webFaults>>

-----------------------------------------------------------------------------
(* stage: three looks and a reservation *)

\* append_if_present finds a batch that is not stale for p.  An earlier reading
\* of the clock counts as no time (saturating_sub).
Fresh(p) == batch # NoBatch /\ time[p] <= batch.opened + Window

Join(p) == batch' = [batch EXCEPT !.items = Append(@, p)]

\* The first look joins the batch or, by append_if_present's clear, removes it;
\* either way the session is written back.
FirstLook(p) ==
    /\ pc[p] = "stage"
    /\ \/ /\ ~ exists
          /\ Goes(p, "refused") /\ UNCHANGED batch
       \/ /\ exists /\ Fresh(p)
          /\ Goes(p, "accepted") /\ Join(p)
       \/ /\ exists /\ ~ Fresh(p)
          /\ Goes(p, "check") /\ batch' = NoBatch
    /\ UNCHANGED <<clock, exists, reserved, received, turns, webFaults>>

\* reserve_session_run, start: the first acquisition of the run table.
CheckFree(p) ==
    /\ pc[p] = "check"
    /\ Goes(p, IF reserved THEN "busy" ELSE "insert")
    /\ UNCHANGED <<clock, exists, batch, reserved, received, turns, webFaults>>

\* start: the second acquisition inserts, whatever is there by now.
Insert(p) ==
    /\ pc[p] = "insert"
    /\ reserved' = TRUE
    /\ Goes(p, "open")
    /\ UNCHANGED <<clock, exists, batch, received, turns, webFaults>>

\* The look after a failed reservation: joins, or refuses the prompt and leaves
\* the session as it is.
SecondLook(p) ==
    /\ pc[p] = "busy"
    /\ \/ exists /\ Fresh(p) /\ Goes(p, "accepted") /\ Join(p)
       \/ ~ (exists /\ Fresh(p)) /\ Goes(p, "refused") /\ UNCHANGED batch
    /\ UNCHANGED <<clock, exists, reserved, received, turns, webFaults>>

\* The look after a reservation: joins a batch that came up meanwhile, or opens
\* one in place of whatever is there.
Open(p) ==
    /\ pc[p] = "open"
    /\ \/ /\ ~ exists
          /\ Goes(p, "homeless") /\ UNCHANGED batch
       \/ /\ exists /\ Fresh(p)
          /\ Goes(p, "joined") /\ Join(p)
       \/ /\ exists /\ ~ Fresh(p)
          /\ Goes(p, "opened")
          /\ batch' = [owner |-> TurnId[p], opened |-> time[p], items |-> <<p>>]
    /\ UNCHANGED <<clock, exists, reserved, received, turns, webFaults>>

\* release_reserved_session_run on the ways out without a batch: it removes the
\* session's entry, whoever made it.
GiveBack(p) ==
    /\ pc[p] \in {"joined", "homeless"}
    /\ reserved' = FALSE
    /\ Goes(p, IF pc[p] = "joined" THEN "accepted" ELSE "refused")
    /\ UNCHANGED <<clock, exists, batch, received, turns, webFaults>>

-----------------------------------------------------------------------------
(* The leader's task *)

\* The route spawns the task, which begins its sleep, and answers "accepted".
Spawn(p) ==
    /\ pc[p] = "opened"
    /\ time' = [time EXCEPT ![p] = clock + Window]
    /\ Moves(p, "asleep")
    /\ UNCHANGED <<clock, exists, batch, reserved, received, turns, webFaults>>

Before(p, q) ==
    received[p] < received[q] \/ (received[p] = received[q] /\ TurnId[p] < TurnId[q])

\* Variant: in the order in which the handlers got the lock.
MergedAsJoined(items) ==
    LET firsts == {i \in DOMAIN items : \A j \in 1..(i - 1) : TurnId[items[j]] # TurnId[items[i]]}
        order == SetToSortSeq(firsts, <)
    IN  [k \in DOMAIN order |-> items[order[k]]]

\* resolve, stabilize_ingress_turns: in the order received, without repetitions.
\* The sort is stable, so of two prompts with one turn id that were received
\* together the first to join is kept.
Merged(items) ==
    LET kept == {i \in DOMAIN items : \A j \in DOMAIN items :
                    TurnId[items[j]] = TurnId[items[i]] =>
                       \/ received[items[i]] < received[items[j]]
                       \/ received[items[i]] = received[items[j]] /\ i <= j}
        before(i) == {j \in kept : Before(items[j], items[i])}
    IN  [k \in 1..Cardinality(kept) |-> items[CHOOSE i \in kept : Cardinality(before(i)) = k - 1]]

\* can_merge_ingress_turns all along: the batch is one turn.
Stabilizes(merged) ==
    \A k \in 1..(Len(merged) - 1) : received[merged[k + 1]] <= received[merged[k]] + Window

\* drain and resolve under one lock.  A batch of another owner is left alone; one
\* that is not one turn is gone.
Drain(p) ==
    /\ pc[p] = "asleep" /\ clock >= time[p]
    /\ LET mine == exists /\ batch # NoBatch /\ batch.owner = TurnId[p]
           merged == Merged(batch.items)
       IN  \/ /\ mine /\ Stabilizes(merged)
              /\ turns' = Append(turns, merged)
              /\ batch' = NoBatch /\ Goes(p, "running")
           \/ /\ mine /\ ~ Stabilizes(merged)
              /\ batch' = NoBatch /\ Goes(p, "release") /\ UNCHANGED turns
           \/ ~ mine /\ Goes(p, "release") /\ UNCHANGED <<batch, turns>>
    /\ UNCHANGED <<clock, exists, reserved, received, webFaults>>

\* Variant: the task returns without more ado.
ReleaseNot(p) ==
    /\ pc[p] = "release"
    /\ Goes(p, "done")
    /\ UNCHANGED <<clock, exists, batch, reserved, received, turns, webFaults>>

\* Nothing drained: the task gives the reservation back and returns.
Release(p) ==
    /\ pc[p] = "release"
    /\ reserved' = FALSE
    /\ Goes(p, "done")
    /\ UNCHANGED <<clock, exists, batch, received, turns, webFaults>>

\* The run writes its copy of the session back: the copy was made when the batch
\* was drained, and SessionManager::update inserts it even if the session was
\* deleted.
Commit(p) ==
    /\ pc[p] = "running"
    /\ exists' = TRUE /\ batch' = NoBatch
    /\ Goes(p, "ending")
    /\ UNCHANGED <<clock, reserved, received, turns, webFaults>>

\* finish_scheduler_run and release_reserved_session_run.
EndRun(p) ==
    /\ pc[p] = "ending"
    /\ reserved' = FALSE
    /\ Goes(p, "done")
    /\ UNCHANGED <<clock, exists, batch, received, turns, webFaults>>

-----------------------------------------------------------------------------
(* What happens from outside *)

Fault == webFaults < MaxWebFaults /\ Cardinality(Received) <= FaultPrompts /\ webFaults' = webFaults + 1

\* The client disconnects and the handler is dropped where it awaits; behind
\* start it takes its reservation, and behind open its batch, with it.
Drop(p) ==
    /\ Fault
    /\ \/ pc[p] \in {"received", "stage", "check", "insert", "busy"} /\ Goes(p, "dropped")
       \/ pc[p] \in {"open", "joined", "homeless", "opened"} /\ Goes(p, "leaked")
    /\ UNCHANGED <<clock, exists, batch, reserved, received, turns>>

\* abort_session_execution cancels a run under way: SessionPrompt::cancel.
Abort ==
    /\ Fault
    /\ \E p \in Prompts : pc[p] = "running"
    /\ reserved' = FALSE
    /\ UNCHANGED <<clock, exists, batch, pc, received, time, turns>>

\* delete_session takes the session, and the batch in its metadata, away.
Delete ==
    /\ Fault
    /\ exists /\ exists' = FALSE /\ batch' = NoBatch
    /\ UNCHANGED <<clock, reserved, pc, received, time, turns>>

Handler(p) ==
    \/ Stage(p) \/ FirstLook(p) \/ CheckFree(p) \/ Insert(p) \/ SecondLook(p)
    \/ Open(p) \/ GiveBack(p) \/ Spawn(p)

Task(p) == Drain(p) \/ Release(p) \/ Commit(p) \/ EndRun(p)

WebNext ==
    \/ Tick \/ Abort \/ Delete
    \/ \E p \in Prompts : Receive(p) \/ Handler(p) \/ Task(p) \/ Drop(p)

WebSpec == WebInit /\ [][WebNext]_webVars

\* Handlers and tasks are polled, time passes, and runs come to their end
\* (SessionRun's ComesToRest).
WebFairSpec ==
    WebSpec /\ WF_webVars(Tick) /\ \A p \in Prompts : WF_webVars(Handler(p)) /\ WF_webVars(Task(p))

-----------------------------------------------------------------------------
(* Properties *)

Places ==
    {"new", "received", "stage", "check", "insert", "busy", "open", "joined", "homeless", "opened",
     "asleep", "release", "running", "ending", "accepted", "refused", "done", "dropped", "leaked"}

\* Every variable has its type.
WebTypeOK ==
    /\ clock \in Nat /\ exists \in BOOLEAN /\ reserved \in BOOLEAN /\ webFaults \in 0..MaxWebFaults
    /\ batch # NoBatch =>
          /\ batch.owner \in Range(TurnId) /\ batch.opened \in 0..clock
          /\ batch.items \in Seq(Prompts) /\ exists
    /\ pc \in [Prompts -> Places]
    /\ \A p \in Prompts : received[p] \in 0..clock /\ time[p] \in 0..(clock + Window)
    /\ turns \in Seq(Seq(Prompts))

\* Whoever joins a batch joins one that a leader will drain, however leaders
\* displace each other and give back each other's reservations; only a leader
\* whose connection broke before its task was spawned leaves one behind
\* (append_if_present, drain).
BatchHasLeader ==
    batch # NoBatch => \E p \in Prompts :
        TurnId[p] = batch.owner /\ pc[p] \in {"opened", "asleep", "leaked"}

\* A prompt is part of one turn at most, and a turn has its prompts in the order
\* they were received, a repeated one once, in whatever order their handlers got
\* the sessions lock (drain's clear, resolve's sort and its seen keys).
MergedOnceInOrder ==
    /\ \A i, j \in DOMAIN turns : i # j => ToSet(turns[i]) \cap ToSet(turns[j]) = {}
    /\ \A i \in DOMAIN turns : \A k, l \in DOMAIN turns[i] : k < l =>
          /\ Before(turns[i][k], turns[i][l])
          /\ TurnId[turns[i][k]] # TurnId[turns[i][l]]

\* The batches and what becomes of them.
IngressSound == WebTypeOK /\ BatchHasLeader /\ MergedOnceInOrder

\* The session is free again and again: every way out of stage and of the
\* leader's task gives the reservation back, if the handler was not dropped.
SessionFrees == []<>(~ reserved \/ \E p \in Prompts : pc[p] = "leaked")

-----------------------------------------------------------------------------
(* What the code does not promise *)

\* Test live_web_ingress_batch_merges_parts_and_uses_stabilized_ingress: "batch
\* should drain".  A prompt that was answered "accepted" is run, it or the one it
\* repeats, when the session is at rest.
AcceptedIsRun ==
    webFaults = 0 /\ (\A p \in Prompts : pc[p] \in {"new", "accepted", "refused", "done"}) =>
        \A p \in Prompts : pc[p] \in {"accepted", "done"} =>
            \E i \in DOMAIN turns : TurnId[p] \in {TurnId[q] : q \in ToSet(turns[i])}

\* The same test: "batch should resolve to one turn".  What was drained is run.
DrainedIsRun ==
    [][\A p \in Prompts : pc[p] = "asleep" /\ pc'[p] = "release" => batch' = batch]_webVars

\* A deleted session stays deleted.
DeletedStaysDeleted == [][~ exists => ~ exists']_webVars
=============================================================================
