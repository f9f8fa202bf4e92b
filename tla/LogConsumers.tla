---------------------------- MODULE LogConsumers ----------------------------
(***************************************************************************)
(* What a store may rely on, whatever becomes of the processes between it and  *)
(* the topic: it is the consumer of a log that is trimmed at its beginning.     *)
(* A consumer attaches once, at the end of the log.  From its confirmed offset  *)
(* it takes what is still there, as often as need be and never anything before   *)
(* it, and it confirms no offset unless it has all that is still there up to it. *)
(***************************************************************************)
EXTENDS Integers

CONSTANT Consumers

VARIABLES
    end,        \* the log's last offset
    low,        \* the last offset that was trimmed
    attached,   \* the consumers with a confirmed offset
    done,       \* that offset
    held        \* the offsets whose entries a consumer has

consumers == <<attached, done, held>>
logVars == <<end, low, consumers>>

\* What the log still has after offset a, up to b.
Left(a, b) == {o \in (a + 1)..b : o > low}

LogInit ==
    /\ end = 0 /\ low = 0
    /\ attached = {}
    /\ done = [c \in Consumers |-> 0]
    /\ held = [c \in Consumers |-> {}]

Append == end' = end + 1 /\ UNCHANGED <<low, consumers>>

Trim ==
    /\ low < end
    /\ low' = low + 1
    /\ UNCHANGED <<end, consumers>>

Attach(c) ==
    /\ c \notin attached
    /\ attached' = attached \cup {c}
    /\ done' = [done EXCEPT ![c] = end]
    /\ UNCHANGED <<end, low, held>>

Take(c, k) ==
    /\ c \in attached
    /\ held' = [held EXCEPT ![c] = @ \cup Left(done[c], k)]
    /\ UNCHANGED <<end, low, attached, done>>

Confirm(c, k) ==
    /\ c \in attached
    /\ Left(done[c], k) \subseteq held[c]
    /\ done' = [done EXCEPT ![c] = k]
    /\ UNCHANGED <<end, low, attached, held>>

LogNext ==
    \/ Append \/ Trim
    \/ \E c \in Consumers :
          \/ Attach(c)
          \/ \E k \in done[c]..end : Take(c, k) \/ Confirm(c, k)

LogSpec == LogInit /\ [][LogNext]_logVars

=============================================================================
