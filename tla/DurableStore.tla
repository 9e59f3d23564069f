---------------------------- MODULE DurableStore ----------------------------
(***************************************************************************)
(* What likhadb-persist promises its callers, with no log and no snapshot: *)
(* a store that may crash, and that comes back with every committed        *)
(* operation (docs/ARCHITECTURE.md: "no committed operation is lost if the *)
(* process crashes").                                                      *)
(*                                                                         *)
(* An operation whose call returned an I/O error, or that was in flight    *)
(* when the process died, may or may not take effect, and a batch may take *)
(* effect up to some row.  `worlds` is the set of stores a restart may     *)
(* come back with.                                                         *)
(***************************************************************************)
EXTENDS CollectionStore

VARIABLES up, mem, worlds

vars == <<up, mem, worlds>>

\* A request that did not complete leaves some prefix of itself, or nothing.
Uncertain(ws, ops) ==
    ws \cup {Upto(w, ops, k) : w \in ws, k \in 1 .. Len(ops)}

Init == up = FALSE /\ mem = EmptyStore /\ worlds = {EmptyStore}

\* One acknowledged operation (or one the manager rejected: no effect).
Commit(op) == /\ up
              /\ mem' = ApplyLive(mem, op)
              /\ worlds' = {ApplyLive(w, op) : w \in worlds}
              /\ UNCHANGED up

CommitBatch(ops) == /\ up
                    /\ mem' = ApplyBatch(mem, ops[1].c, ops, Len(ops))
                    /\ worlds' = {ApplyBatch(w, ops[1].c, ops, Len(ops)) : w \in worlds}
                    /\ UNCHANGED up

\* The call returned an I/O error.
Fail(ops) == /\ up
             /\ worlds' = Uncertain(worlds, ops)
             /\ UNCHANGED <<up, mem>>

\* A checkpoint settles what failed calls left open.
Settle == /\ up
          /\ worlds' = {mem}
          /\ UNCHANGED <<up, mem>>

\* The process dies, possibly inside a request.
Die == /\ up' = FALSE
       /\ mem' = EmptyStore
       /\ \/ UNCHANGED worlds
          \/ \E ops \in Singles \cup Batches :
                worlds' = Uncertain(worlds, ops)

Restart == /\ ~up
           /\ up' = TRUE
           /\ mem' \in worlds
           /\ worlds' = {mem'}

Next ==
    \/ \E op \in Ops : Commit(op)
    \/ \E ops \in Batches : CommitBatch(ops)
    \/ \E ops \in Singles \cup Batches : Fail(ops)
    \/ Settle
    \/ Die
    \/ Restart

Spec == Init /\ [][Next]_vars
============================================================================
