------------------------ MODULE MCStreamContinuity -------------------------
(* Instances of StreamContinuity for TLC. *)
EXTENDS StreamContinuity, TLC

Event(n, kind, key, body) == [seq |-> n, kind |-> kind, key |-> key, body |-> body]

(* Sequences 0 to 3; sequence 1 also comes with other content under the    *)
(* same key, as a snapshot, and under the key of sequence 2.               *)
MCEvents ==
  {Event(0, "SNAPSHOT", "k0", "x"),
   Event(1, "DELTA", "k1", "x"), Event(1, "DELTA", "k1", "y"),
   Event(1, "SNAPSHOT", "k1", "x"),
   Event(1, "DELTA", "k2", "x"),
   Event(2, "DELTA", "k2", "x"), Event(2, "SNAPSHOT", "k2", "y"),
   Event(3, "SNAPSHOT", "k3", "x")}

Lists(n) == UNION {[1 .. k -> MCEvents] : k \in 0 .. n}

MCPages == {p \in Lists(2) : p # <<>>}
MCBursts == {b \in Lists(3) : Len(b) > 1 => b[1] # b[2]}

MCCapabilities ==
  {{}, {"ORDERED_EVENTS", "AUTHORITATIVE_SNAPSHOT"},
   {"ORDERED_EVENTS", "AUTHORITATIVE_SNAPSHOT", "DELTA_EVENTS"}}
=============================================================================
