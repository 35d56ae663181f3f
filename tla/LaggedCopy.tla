------------------------------ MODULE LaggedCopy ------------------------------
(***************************************************************************)
(* What a table that is derived key by key from a source promises.         *)
(*                                                                         *)
(* A worker looks at some keys of the source and later publishes what it   *)
(* saw of them: whole values, each a value the source had at the moment of *)
(* its look, and nothing for a key it saw empty.  A publication that is cut*)
(* short covers part of its keys and may lose one.                         *)
(***************************************************************************)
CONSTANTS Keys, Workers, Values, None

VARIABLES
    source, \* the value of each key, None while it has none
    held,   \* what each worker saw when it looked
    table   \* what is published of each key

copyVars == <<source, held, table>>

Blank == [k \in Keys |-> None]

Init ==
    /\ source = Blank
    /\ held = [w \in Workers |-> Blank]
    /\ table = Blank

Change(k) ==
    /\ \E v \in Values : source' = [source EXCEPT ![k] = v]
    /\ UNCHANGED <<held, table>>

Look(w) ==
    /\ \E ks \in SUBSET Keys :
           held' = [held EXCEPT ![w] = [k \in Keys |-> IF k \in ks THEN source[k] ELSE None]]
    /\ UNCHANGED <<source, table>>

\* What the table shows once w has published the keys ks.
Published(w, ks) ==
    [k \in Keys |-> IF k \in ks /\ held[w][k] # None THEN held[w][k] ELSE table[k]]

Publish(w) ==
    /\ table' = Published(w, Keys)
    /\ UNCHANGED <<source, held>>

PublishInPart(w) ==
    /\ \E ks, lost \in SUBSET Keys :
           table' = [k \in Keys |-> IF k \in lost /\ held[w][k] # None
                                       THEN None ELSE Published(w, ks)[k]]
    /\ UNCHANGED <<source, held>>

Next ==
    \/ \E k \in Keys : Change(k)
    \/ \E w \in Workers : Look(w) \/ Publish(w) \/ PublishInPart(w)

Spec == Init /\ [][Next]_copyVars
=============================================================================
