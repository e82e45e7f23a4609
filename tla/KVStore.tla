------------------------------- MODULE KVStore -------------------------------
(***************************************************************************)
(* What the engine promises its writers: a durable map.  A write takes     *)
(* effect at one moment between its call and its return; a process that    *)
(* ends may or may not have let the pending writes take effect; nothing    *)
(* else changes the map.                                                   *)
(***************************************************************************)
CONSTANTS Keys, Values, Tombstone, Writers

VARIABLES store,   \* the value of each key, Tombstone if it has none
          status,  \* per writer: "idle", "pending" or "done"
          op       \* per writer: the pending write <<key, value>>, or <<>>

Init == /\ store = [k \in Keys |-> Tombstone]
        /\ status = [w \in Writers |-> "idle"]
        /\ op = [w \in Writers |-> <<>>]

Invoke(w) ==
  /\ status[w] = "idle"
  /\ status' = [status EXCEPT ![w] = "pending"]
  /\ \E k \in Keys, v \in Values \cup {Tombstone} : op' = [op EXCEPT ![w] = <<k, v>>]
  /\ UNCHANGED store

TakeEffect(w) ==
  /\ status[w] = "pending"
  /\ status' = [status EXCEPT ![w] = "done"]
  /\ op' = [op EXCEPT ![w] = <<>>]
  /\ store' = [store EXCEPT ![op[w][1]] = op[w][2]]

\* A write that did not take effect returns an error.
Return(w) ==
  /\ status[w] # "idle"
  /\ status' = [status EXCEPT ![w] = "idle"]
  /\ op' = [op EXCEPT ![w] = <<>>]
  /\ UNCHANGED store

\* The process ends during some calls, with some of the pending writes done, in
\* some order.
Crash ==
  LET Pending(k) == {w \in Writers : status[w] = "pending" /\ op[w][1] = k}
  IN  /\ \E w \in Writers : status[w] # "idle"
      /\ status' = [w \in Writers |-> "idle"]
      /\ op' = [w \in Writers |-> <<>>]
      /\ DOMAIN store' = Keys
      /\ \A k \in Keys : store'[k] \in {store[k]} \cup {op[w][2] : w \in Pending(k)}

Next == (\E w \in Writers : Invoke(w) \/ TakeEffect(w) \/ Return(w)) \/ Crash

Spec == Init /\ [][Next]_<<store, status, op>>
=============================================================================
