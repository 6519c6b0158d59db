------------------------------ MODULE Delivery ------------------------------
(***************************************************************************)
(* What the checkpointer promises its clients, and nothing of how it keeps *)
(* the promise: a mailbox for each client, in front of a feed of numbered  *)
(* messages.                                                               *)
(*                                                                         *)
(* A message is put in the mailbox when it is read, or skipped for good.   *)
(* What is in the mailbox may be lost, and is handed out at most once:     *)
(* what leaves the mailbox never comes back to it.  A step may concern     *)
(* several clients at once, each in a way of its own.                      *)
(***************************************************************************)
EXTENDS Naturals, Sequences, Functions

CONSTANT Clients

VARIABLES
  position,  \* position[c]: the next message that c will read or skip
  mailbox,   \* mailbox[c]: the set of messages that wait for c
  handed     \* handed[c]: the messages handed out to c, in order

mailboxVars == <<position, mailbox, handed>>

Init ==
  /\ position = [c \in Clients |-> 1]
  /\ mailbox = [c \in Clients |-> {}]
  /\ handed = [c \in Clients |-> <<>>]

Reads(c) ==
  /\ position'[c] = position[c] + 1
  /\ mailbox'[c] = mailbox[c] \cup {position[c]}
  /\ handed'[c] = handed[c]

Skips(c) ==
  /\ position'[c] \in Nat /\ position[c] <= position'[c]
  /\ mailbox'[c] = mailbox[c]
  /\ handed'[c] = handed[c]

Loses(c) ==
  /\ position'[c] = position[c]
  /\ mailbox'[c] \subseteq mailbox[c]
  /\ handed'[c] = handed[c]

(* The messages that the step adds to handed[c]. *)
Parcel(c) == SubSeq(handed'[c], Len(handed[c]) + 1, Len(handed'[c]))

HandsOut(c) ==
  /\ position'[c] = position[c]
  /\ handed'[c] = handed[c] \o Parcel(c)
  /\ IsInjective(Parcel(c))
  /\ Range(Parcel(c)) \subseteq mailbox[c]
  /\ mailbox'[c] \subseteq mailbox[c] \ Range(Parcel(c))

Next == \A c \in Clients : Reads(c) \/ Skips(c) \/ Loses(c) \/ HandsOut(c)

Spec == Init /\ [][Next]_mailboxVars

=============================================================================
