--------------------------- MODULE AppendOnlyLog ---------------------------
(***************************************************************************)
(* What ChainDB promises a tenant, with hashes, keys and storage left out  *)
(* (spec.md sections 1 and 4.C8): a chain id names either no chain or a    *)
(* sequence of payloads; a chain is created empty, grows only at its end   *)
(* by one payload at a time, and disappears as a whole when removed.       *)
(***************************************************************************)
EXTENDS Sequences

CONSTANTS ChainIds, Payloads, Absent

VARIABLE logs

TypeOK == logs \in [ChainIds -> {Absent} \cup Seq(Payloads)]

Init == logs = [c \in ChainIds |-> Absent]

Create(c) ==
    /\ logs[c] = Absent
    /\ logs' = [logs EXCEPT ![c] = <<>>]

AppendPayload(c, d) ==
    /\ logs[c] # Absent
    /\ logs' = [logs EXCEPT ![c] = Append(@, d)]

Remove(c) ==
    /\ logs[c] # Absent
    /\ logs' = [logs EXCEPT ![c] = Absent]

Next == \E c \in ChainIds :
            \/ Create(c)
            \/ \E d \in Payloads : AppendPayload(c, d)
            \/ Remove(c)

Spec == Init /\ [][Next]_logs

=============================================================================
