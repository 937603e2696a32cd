----------------------------- MODULE MeshPackets -----------------------------
(***************************************************************************)
(* What the parts of the manager share: learned routes, the hash that      *)
(* recognises a packet, the hash an acknowledgement carries, and the       *)
(* bounded first-in first-out tables that forget their oldest entry.       *)
(*                                                                         *)
(* A text, a timestamp, a contact and a route are members of small sets.   *)
(* A hash is modelled by the tuple of the fields that are hashed: two      *)
(* hashes are equal exactly when everything that is hashed is equal.       *)
(***************************************************************************)
EXTENDS Integers, SequencesExt

CONSTANTS
  Routes,   \* the non-empty repeater paths a packet can travel
  NoPath,   \* no route: contact["path"] is None or b"" (both are falsy)
  Absent    \* the pubkey is not in _contacts

ASSUME PathAssumption == NoPath \notin Routes /\ Absent \notin Routes \cup {NoPath}

\* What a packet's path field holds: nothing, or hops.
Paths == Routes \cup {NoPath}

\* One entry of _contacts, reduced to its learned path.
ContactEntries == Paths \cup {Absent}

HasRoute(entry) == entry \in Routes

\* _route: direct along the learned path, a flood otherwise. It is given
\* contacts.get(...), so a removed contact is flooded to as well.
RouteFor(entry) == IF HasRoute(entry) THEN entry ELSE NoPath

\* _reset_path: forget the learned path, if there is a contact and a path.
ResetPath(entry) == IF HasRoute(entry) THEN NoPath ELSE entry

\* _learn_path: whatever the contact told us replaces the old path. An empty
\* path is stored as b"", which every reader treats like None.
LearnPath(entry, path) == IF entry = Absent THEN Absent ELSE path

\* dm_flags: the attempt number is two bits of the flags byte.
Flags(attempt) == attempt % 4

\* Mutant of AckHash: the text is not hashed.
AckHashTextless(text, stamp, attempt) == <<stamp, Flags(attempt)>>

\* dm_ack_hash: timestamp, flags and text (and the sender's own key, which is
\* the same for all we send). The recipient is not part of it.
AckHash(text, stamp, attempt) == <<text, stamp, Flags(attempt)>>

\* Append to a FIFO that keeps at most max entries: the oldest falls off.
Push(fifo, e, max) ==
  IF Len(fifo) < max THEN Append(fifo, e) ELSE Append(Tail(fifo), e)

\* History of such a table: for each entry, how many have come in since it did,
\* counted up to max. One that never came in, or fell off, has max.
Newer(since, e, max) ==
  [x \in DOMAIN since |-> IF x = e THEN 0 ELSE IF since[x] < max THEN since[x] + 1 ELSE max]

\* _remember: record a packet hash, unless it is known already. The list and
\* the set the code keeps side by side hold the same hashes: one sequence.
Remember(seen, h, max) == IF h \in ToSet(seen) THEN seen ELSE Push(seen, h, max)

\* The (at most one) position list.remove(e) deletes: the first of e.
FirstPositions(s, e) ==
  {i \in 1..Len(s) : s[i] = e /\ \A j \in 1..(i - 1) : s[j] # e}

\* What s may be after list.remove(e), a missing e being caught and ignored.
\* A set with one member, so that no proof depends on a choice.
WithoutFirst(s, e) ==
  IF e \in ToSet(s) THEN {RemoveAt(s, i) : i \in FirstPositions(s, e)} ELSE {s}
==============================================================================
