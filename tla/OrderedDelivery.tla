--------------------------- MODULE OrderedDelivery ---------------------------
(***************************************************************************)
(* What an ordered stream promises its two users: messages are read in the *)
(* order they were submitted, each at most once, and one that is passed    *)
(* over has been given up by its sender.                                   *)
(***************************************************************************)
EXTENDS Integers, Sequences, FiniteSetsExt

CONSTANT MaxMsgs       \* bound: messages submitted

VARIABLES
    submitted,         \* number of messages submitted
    lost,              \* messages the sender has given up
    received           \* messages read, in order

vars == <<submitted, lost, received>>

Messages == 1 .. submitted
LastRead == IF received = <<>> THEN 0 ELSE received[Len(received)]

Init == submitted = 0 /\ lost = {} /\ received = <<>>

Submit == /\ submitted < MaxMsgs
          /\ submitted' = submitted + 1
          /\ UNCHANGED <<lost, received>>

GiveUp == /\ \E S \in SUBSET Messages : lost' = lost \cup S
          /\ UNCHANGED <<submitted, received>>

\* A message that was given up may still arrive in time to be read.
Deliver(m) == /\ m > LastRead
              /\ (LastRead + 1) .. (m - 1) \subseteq lost
              /\ received' = Append(received, m)
              /\ UNCHANGED <<submitted, lost>>

Next == \/ Submit
        \/ GiveUp
        \/ \E m \in Messages : Deliver(m)

\* While some message is neither read nor given up, reading goes on.
Fairness == WF_vars(\E m \in Messages \ lost : Deliver(m))

Spec == Init /\ [][Next]_vars
FairSpec == Spec /\ Fairness
==============================================================================
