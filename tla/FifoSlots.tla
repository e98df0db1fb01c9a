----------------------------- MODULE FifoSlots -----------------------------
(***************************************************************************)
(* What the capacity coordinator promises, with no counter, channel or     *)
(* map: each account owns at most Limit slots, a slot has an owner, and    *)
(* callers that find no free slot are served in the order they arrived.    *)
(* Capacity.tla is shown to implement this module.                         *)
(***************************************************************************)
EXTENDS Naturals, Sequences, FiniteSets

CONSTANTS Accounts,   \* upstream accounts
          Callers,    \* request goroutines
          Limit       \* slots of one account

VARIABLES open,       \* FALSE once the service has been shut
          owners,     \* owners[a]: the callers that own a slot of account a
          queue       \* queue[a]: the callers waiting for a slot of a, oldest first

vars == <<open, owners, queue>>

Absent(c) == \A a \in Accounts :
                /\ c \notin owners[a]
                /\ \A i \in 1..Len(queue[a]) : queue[a][i] # c

Init == /\ open = TRUE
        /\ owners = [a \in Accounts |-> {}]
        /\ queue = [a \in Accounts |-> <<>>]

\* A free slot is taken at once only when nobody is waiting for one.
Enter(c, a) == /\ open
               /\ Absent(c)
               /\ queue[a] = <<>>
               /\ Cardinality(owners[a]) < Limit
               /\ owners' = [owners EXCEPT ![a] = @ \union {c}]
               /\ UNCHANGED <<open, queue>>

\* A caller queues only behind a fully used account.
Join(c, a) == /\ open
              /\ Absent(c)
              /\ Cardinality(owners[a]) = Limit
              /\ queue' = [queue EXCEPT ![a] = Append(@, c)]
              /\ UNCHANGED <<open, owners>>

\* The i-th waiter gives up; the others keep their order.
Leave(a, i) == /\ i \in 1..Len(queue[a])
               /\ queue' = [queue EXCEPT ![a] =
                              [j \in 1..(Len(@) - 1) |-> IF j < i THEN @[j] ELSE @[j + 1]]]
               /\ UNCHANGED <<open, owners>>

\* A slot is given back; while the service is open it passes to the oldest
\* waiter in the same step.
Free(c, a) == /\ c \in owners[a]
              /\ \/ /\ queue[a] # <<>>
                    /\ owners' = [owners EXCEPT ![a] = (@ \ {c}) \union {Head(queue[a])}]
                    /\ queue' = [queue EXCEPT ![a] = Tail(@)]
                 \/ /\ queue[a] = <<>>
                    /\ owners' = [owners EXCEPT ![a] = @ \ {c}]
                    /\ UNCHANGED queue
              /\ UNCHANGED open

\* Shutting turns every waiter away and takes no slot from its owner.
Shut == /\ open
        /\ open' = FALSE
        /\ queue' = [a \in Accounts |-> <<>>]
        /\ UNCHANGED owners

Next == \/ \E c \in Callers, a \in Accounts : Enter(c, a) \/ Join(c, a) \/ Free(c, a)
        \/ \E a \in Accounts : \E i \in 1..Len(queue[a]) : Leave(a, i)
        \/ Shut

Spec == Init /\ [][Next]_vars
=============================================================================
