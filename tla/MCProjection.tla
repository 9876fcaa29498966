---------------------------- MODULE MCProjection ----------------------------
(***************************************************************************)
(* ProjectionSync on small instances, and what two comments say of it.     *)
(***************************************************************************)
EXTENDS ProjectionSync

\* Not so.  SessionRuntimeSnapshot.last_event_sequence: "the snapshot contains
\* all events up to this sequence".  The snapshots the server builds keep the
\* projection faithful.
WatermarkIsExact == Now = 1 => Faithful

\* Not so.  StreamEpoch: "keeps a server restart, after which sequence numbers
\* start again, from mixing things up".
EpochSeparatesLives == builder = "contract" => Faithful
=============================================================================
