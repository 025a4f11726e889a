--------------------------- MODULE KeyValueStore ---------------------------
(***************************************************************************)
(* What the cell store of genie_flash.c promises to its callers: a map     *)
(* from indices to values in which one call at a time, and nothing else,   *)
(* changes one index in one step.  It survives power cuts, and keeps the   *)
(* old value when a write is cut short.  A reset empties it and brings the *)
(* tri tuple back as a write does.                                         *)
(*                                                                         *)
(* The promise has one hole, and it is stated here rather than assumed     *)
(* away: the value of a write that was cut short may stay hidden under the *)
(* old one, and come up at a later write or deletion of its index.         *)
(***************************************************************************)
CONSTANTS Index, Tri, Value, None

VARIABLES
  store,    \* what a read of each index returns, None if there is nothing
  hidden,   \* the values that lie under the one that is read
  req       \* the call under way: what it is, its index, its value

vars == <<store, hidden, req>>

Plain(op) == <<op, None, None>>

Init ==
  /\ store \in [Index -> Value \cup {None}]
  /\ hidden = [i \in Index |-> {}]
  /\ req = Plain("down")

AskWrite(i, v) ==
  /\ req = Plain("idle")
  /\ req' = <<"write", i, v>>
  /\ UNCHANGED <<store, hidden>>

AskReset ==
  /\ req = Plain("idle")
  /\ req' = <<"reset", Tri, store[Tri]>>
  /\ UNCHANGED <<store, hidden>>

(***************************************************************************)
(* The value v is stored, and nothing is left under it; or, with values    *)
(* under the old one, one of these comes up and v goes under it.           *)
(***************************************************************************)
Put(i, v) ==
  \/ /\ store' = [store EXCEPT ![i] = v]
     /\ hidden' = [hidden EXCEPT ![i] = {}]
  \/ \E w \in hidden[i] : \E H \in {hidden[i], hidden[i] \ {w}} :
       /\ store' = [store EXCEPT ![i] = w]
       /\ hidden' = [hidden EXCEPT ![i] = H \cup {v}]

\* The one step in which a write takes effect; it may still have to tidy up.
DoWrite(i, v) ==
  /\ req = <<"write", i, v>>
  /\ Put(i, v)
  /\ req' \in {Plain("idle"), Plain("tidy")}

\* The value that is read goes, and one that lies under it comes up.
Remove(i) ==
  \/ /\ hidden[i] = {}
     /\ store' = [store EXCEPT ![i] = None]
     /\ UNCHANGED hidden
  \/ \E w \in hidden[i] : \E H \in {hidden[i], hidden[i] \ {w}} :
       /\ store' = [store EXCEPT ![i] = w]
       /\ hidden' = [hidden EXCEPT ![i] = H]

\* A call that deletes: one step from the call to its return.
Delete(i) ==
  /\ req = Plain("idle")
  /\ Remove(i)
  /\ UNCHANGED req

Clear ==
  /\ store' = [i \in Index |-> None]
  /\ hidden' = [i \in Index |-> {}]

DoReset(v) ==
  /\ req = <<"reset", Tri, v>>
  /\ Clear
  /\ req' = IF v = None THEN Plain("tidy") ELSE <<"write", Tri, v>>

Return ==
  /\ req = Plain("tidy")
  /\ req' = Plain("idle")
  /\ UNCHANGED <<store, hidden>>

\* A write of i that is cut short leaves its value under the old one.
Leave(i, v) ==
  /\ store[i] # None
  /\ hidden' = [hidden EXCEPT ![i] = @ \cup {v}]
  /\ UNCHANGED store

PowerCut ==
  /\ req # Plain("down")
  /\ req' = Plain("down")
  /\ \/ UNCHANGED <<store, hidden>>
     \/ \E i \in Index, v \in Value : req = <<"write", i, v>> /\ Leave(i, v)

PowerOn ==
  /\ req = Plain("down")
  /\ req' = Plain("idle")
  /\ UNCHANGED <<store, hidden>>

Next ==
  \/ \E i \in Index, v \in Value : AskWrite(i, v) \/ DoWrite(i, v)
  \/ AskReset \/ \E v \in Value \cup {None} : DoReset(v)
  \/ \E i \in Index \ {Tri} : Delete(i)
  \/ Return \/ PowerCut \/ PowerOn

Spec == Init /\ [][Next]_vars
=============================================================================
