----------------------------- MODULE FactStore -----------------------------
(* What writing facts promises, without ids, batches, caches or a network.   *)
(* A client defines facts; the database stores facts that clients have       *)
(* defined and never loses one; a client that has flushed finds everything   *)
(* it has defined in the database.                                           *)
CONSTANTS Clients, Terms

VARIABLES
    defined,   \* [Clients -> SUBSET Terms]
    stored,    \* SUBSET Terms
    ended      \* the clients that have flushed

vars == <<defined, stored, ended>>

Init == defined = [c \in Clients |-> {}] /\ stored = {} /\ ended = {}

DefineSome(c) ==
    /\ c \notin ended
    /\ defined[c] \subseteq defined'[c]
    /\ \A d \in Clients \ {c} : defined'[d] = defined[d]
    /\ UNCHANGED <<stored, ended>>

Store ==
    /\ stored \subseteq stored'
    /\ stored' \ stored \subseteq UNION {defined[c] : c \in Clients}
    /\ UNCHANGED <<defined, ended>>

Flush(c) ==
    /\ defined[c] \subseteq stored
    /\ ended' = ended \cup {c}
    /\ UNCHANGED <<defined, stored>>

Next == Store \/ \E c \in Clients : DefineSome(c) \/ Flush(c)

Spec == Init /\ [][Next]_vars
=============================================================================
