----------------------------- MODULE EventStore -----------------------------
(***************************************************************************)
(* What the ledger promises to its callers, with no connections, locks or  *)
(* transactions: a log of events to which every accepted batch is appended *)
(* in one step, between the call and its answer.                           *)
(*                                                                         *)
(* The outcome of a batch is defined on the whole batch and the whole log  *)
(* (Compatible, Fresh and AnswerOf in CanonicalEvents); the loop that      *)
(* computes it one event at a time is in Ledger.                           *)
(***************************************************************************)
EXTENDS CanonicalEvents

CONSTANTS Clients, Batches

VARIABLES
    log,            \* the committed events, in ordinal order
    phase,          \* [Clients -> {"idle", "pending", "done"}]
    request,        \* [Clients -> Batches]: the batch last submitted
    reply           \* [Clients -> [outcome, results]]: the answer to it

vars == <<log, phase, request, reply>>

NoReply == [outcome |-> "none", results |-> <<>>]
Failed(o) == [outcome |-> o, results |-> <<>>]

-----------------------------------------------------------------------------
Init ==
    /\ log = <<>>
    /\ phase = [c \in Clients |-> "idle"]
    /\ request = [c \in Clients |-> <<>>]
    /\ reply = [c \in Clients |-> NoReply]

Submit(c, b) ==
    /\ phase[c] = "idle"
    /\ b # <<>> /\ ~Contains(b, Invalid)
    /\ phase' = [phase EXCEPT ![c] = "pending"]
    /\ request' = [request EXCEPT ![c] = b]
    /\ reply' = [reply EXCEPT ![c] = NoReply]
    /\ UNCHANGED log

(* The batch becomes part of the log; the answer is still on its way.      *)
Apply(c) ==
    /\ phase[c] = "pending"
    /\ Compatible(log, request[c])
    /\ log' = log \o Fresh(log, request[c])
    /\ phase' = [phase EXCEPT ![c] = "done"]
    /\ reply' = [reply EXCEPT ![c] =
                    [outcome |-> "none", results |-> AnswerOf(log, request[c])]]
    /\ UNCHANGED request

Deliver(c) ==
    /\ phase[c] = "done"
    /\ phase' = [phase EXCEPT ![c] = "idle"]
    /\ reply' = [reply EXCEPT ![c].outcome = "ok"]
    /\ UNCHANGED <<log, request>>

(* An empty batch is answered at once.                                     *)
Nothing(c) ==
    /\ phase[c] = "idle"
    /\ request' = [request EXCEPT ![c] = <<>>]
    /\ reply' = [reply EXCEPT ![c] = [outcome |-> "ok", results |-> <<>>]]
    /\ UNCHANGED <<log, phase>>

(* A malformed batch is refused as a whole.                                *)
Malformed(c, b) ==
    /\ phase[c] = "idle"
    /\ Contains(b, Invalid)
    /\ request' = [request EXCEPT ![c] = b]
    /\ reply' = [reply EXCEPT ![c] = Failed("invalid")]
    /\ UNCHANGED <<log, phase>>

(* A batch is refused when it conflicts with the log of that moment.       *)
Conflict(c) ==
    /\ phase[c] = "pending"
    /\ ~Compatible(log, request[c])
    /\ phase' = [phase EXCEPT ![c] = "idle"]
    /\ reply' = [reply EXCEPT ![c] = Failed("conflict")]
    /\ UNCHANGED <<log, request>>

(* The call fails; if it does so after Apply, the batch stays in the log.  *)
Fail(c, o) ==
    /\ \/ phase[c] = "pending" /\ o \in {"busy", "closed", "error"}
       \/ phase[c] = "done" /\ o = "error"
    /\ phase' = [phase EXCEPT ![c] = "idle"]
    /\ reply' = [reply EXCEPT ![c] = Failed(o)]
    /\ UNCHANGED <<log, request>>

(* A process dies: its clients never hear the answer, whether or not their *)
(* batch has been applied.                                                 *)
Lose(C) ==
    /\ phase' = [c \in Clients |-> IF c \in C THEN "idle" ELSE phase[c]]
    /\ reply' = [c \in Clients |->
                    IF c \in C /\ phase[c] # "idle" THEN Failed("lost") ELSE reply[c]]
    /\ UNCHANGED <<log, request>>

Next ==
    \/ \E c \in Clients :
        \/ \E b \in Batches : Submit(c, b) \/ Malformed(c, b)
        \/ Apply(c)
        \/ Deliver(c)
        \/ Nothing(c)
        \/ Conflict(c)
        \/ \E o \in {"busy", "closed", "error"} : Fail(c, o)
    \/ \E C \in SUBSET Clients : Lose(C)

Spec == Init /\ [][Next]_vars
=============================================================================
