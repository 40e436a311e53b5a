--------------------------- MODULE AppendOnlyLog ---------------------------
(***************************************************************************)
(* What the attendance ledger promises to whoever reads it later: a list   *)
(* of entries that only ever grows at its end, in strictly increasing      *)
(* event_counter order, each new entry chained to the entry before it.     *)
(* No entry is changed, reordered or dropped once it is in the list; what  *)
(* an erasure redacts (the name, the key that opens the payload) is not    *)
(* part of an entry.                                                       *)
(***************************************************************************)
EXTENDS Integers, Sequences

CONSTANT Hash       \* the values a current_hash column can hold

VARIABLE log        \* the entries, oldest first

Entry == [counter : Nat, prev : Hash, hash : Hash]

\* An entry may follow the last one only if it has a larger counter and
\* names the last entry's hash as its predecessor.
Follows(e) ==
  log # <<>> => /\ e.counter > log[Len(log)].counter
                /\ e.prev = log[Len(log)].hash

Init == log \in Seq(Entry)

Extend ==
  /\ Len(log') = Len(log) + 1
  /\ \A i \in 1 .. Len(log) : log'[i] = log[i]
  /\ log' \in Seq(Entry)
  /\ Follows(log'[Len(log')])

Next == Extend

Spec == Init /\ [][Next]_log
=============================================================================
