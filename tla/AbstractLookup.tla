--------------------------- MODULE AbstractLookup ---------------------------
(***************************************************************************)
(* What a Lookup promises to the threads that call idByKey, typeById and   *)
(* factById (glean/rts/lookup.h): a call for a fact is answered, some time *)
(* between the call and its return, by that fact if it exists and by       *)
(* nothing otherwise.  Facts are added while the calls are made, and never *)
(* change.                                                                 *)
(***************************************************************************)
CONSTANTS
    Threads,
    Ids,          \* the facts, by their ids
    Ops,          \* the lookup functions
    NoCall, NoAnswer, Missing

VARIABLES
    known,        \* the facts that exist
    call,         \* what each thread has asked for
    answer        \* what it has been told

Init ==
    /\ known \in SUBSET Ids
    /\ call = [t \in Threads |-> NoCall]
    /\ answer = [t \in Threads |-> NoAnswer]

Add(i) ==
    /\ known' = known \cup {i}
    /\ UNCHANGED <<call, answer>>

Call(t, op, i) ==
    /\ call[t] = NoCall
    /\ call' = [call EXCEPT ![t] = <<op, i>>]
    /\ UNCHANGED <<known, answer>>

Answer(t) ==
    /\ call[t] # NoCall
    /\ answer[t] = NoAnswer
    /\ answer' = [answer EXCEPT ![t] = IF call[t][2] \in known THEN call[t][2] ELSE Missing]
    /\ UNCHANGED <<known, call>>

Return(t) ==
    /\ answer[t] # NoAnswer
    /\ call' = [call EXCEPT ![t] = NoCall]
    /\ answer' = [answer EXCEPT ![t] = NoAnswer]
    /\ UNCHANGED known

Next ==
    \/ \E i \in Ids : Add(i)
    \/ \E t \in Threads : Answer(t) \/ Return(t)
    \/ \E t \in Threads, op \in Ops, i \in Ids : Call(t, op, i)

Spec == Init /\ [][Next]_<<known, call, answer>>

=============================================================================
