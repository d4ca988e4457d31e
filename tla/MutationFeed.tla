---------------------------- MODULE MutationFeed ---------------------------
(***************************************************************************)
(* What the checkpoints of a vbucket promise their readers, the flusher    *)
(* and the replication streams, whatever the checkpoints look like inside. *)
(* A reader that has registered is handed every later mutation, in seqno   *)
(* order, except that a mutation may be left out once a newer one of the   *)
(* same key has been queued: that one is then still to come.               *)
(***************************************************************************)
EXTENDS Naturals

CONSTANTS Keys, Readers

VARIABLES
  latest,      \* latest[k]: seqno of the newest mutation of k, 0 if there is none
  registered,  \* the readers that are registered
  seen         \* seen[r][k]: seqno of the mutation of k that r was handed last

vars == <<latest, registered, seen>>

\* The keys of which r has not been handed the newest mutation.
Pending(r) == {k \in Keys : seen[r][k] # latest[k]}

Init ==
  /\ latest = [k \in Keys |-> 0]
  /\ registered \subseteq Readers
  /\ seen = [r \in Readers |-> [k \in Keys |-> 0]]

Write(k) ==
  /\ latest'[k] # latest[k]
  /\ \A j \in Keys : latest'[k] > latest[j] /\ (j # k => latest'[j] = latest[j])
  /\ UNCHANGED <<registered, seen>>

\* r is handed a batch: the newest mutations of some of the pending keys, all of
\* them older than the newest of any key that stays pending, and older mutations
\* of keys that stay pending.
Deliver(r) ==
  /\ UNCHANGED <<latest, registered>>
  /\ \A q \in Readers \ {r} : seen'[q] = seen[q]
  /\ \A k \in Keys : seen'[r][k] \in seen[r][k] .. latest[k]
  /\ \A k \in Pending(r) \ Pending(r)', j \in Pending(r)' : latest[k] < latest[j]

\* r will be handed everything from seqno first on.
Register(r, first) ==
  /\ registered' = registered \union {r}
  /\ seen' = [seen EXCEPT ![r] = [k \in Keys |-> IF latest[k] < first THEN latest[k] ELSE 0]]
  /\ UNCHANGED latest

Unregister(r) ==
  /\ r \in registered
  /\ registered' = registered \ {r}
  /\ seen' = [seen EXCEPT ![r] = [k \in Keys |-> 0]]
  /\ UNCHANGED latest

Next ==
  \/ \E k \in Keys : Write(k)
  \/ \E r \in registered : Deliver(r)
  \/ \E r \in Readers :
       \/ \E k \in Keys : \E first \in {latest[k], latest[k] + 1} : Register(r, first)
       \/ Unregister(r)

Spec == Init /\ [][Next]_vars
=============================================================================
