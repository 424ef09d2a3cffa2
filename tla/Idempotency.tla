---------------------------- MODULE Idempotency ----------------------------
(***************************************************************************)
(* The idempotency library of the Python services: the record that Redis    *)
(* holds for an Idempotency-Key, and the marker that a bus consumer claims  *)
(* for an event.  A service keeps one record per key in a variable of its   *)
(* own; these operators give the record's next value.  Two reservations are *)
(* atomic with respect to each other (SET NX).                              *)
(***************************************************************************)

FreeKey == [state |-> "free"]

PendingKey(fp) == [state |-> "pending", fp |-> fp]

(* What complete stores: the response that a retry replays. *)
CompletedKey(fp, body) == [state |-> "completed", fp |-> fp, body |-> body]

(* Mutant: a pending record does not stop a second request. *)
BeginTakesOver(record, fp) ==
    IF record.state \in {"free", "pending"} THEN "owner"
    ELSE IF record.fp # fp THEN "body_mismatch" ELSE "replay"

(* begin: what a request with fingerprint fp is told about the key.  A      *)
(* record that expires between SET NX and GET makes it a fresh owner, which *)
(* is the reservation of a free key.                                        *)
BeginKey(record, fp) ==
    IF record.state = "free" THEN "owner"
    ELSE IF record.fp # fp THEN "body_mismatch"
    ELSE IF record.state = "completed" THEN "replay"
    ELSE "in_flight"

(* Mutant: an exception leaves the record. *)
NeverReleased(record) == record

(* release deletes the record whatever it holds. *)
ReleasedKey(record) == FreeKey

(* Mutant: the marker is not looked at. *)
AlwaysClaims(markers, event) == TRUE

(* RedisDedupe.run_once: the consumers that claim a marker run their        *)
(* action, the others skip it; an exception removes the marker again.       *)
ClaimsMarker(markers, event) == event \notin markers

MarkersAfter(markers, event, raised) ==
    IF raised THEN markers \ {event} ELSE markers \cup {event}
=============================================================================
