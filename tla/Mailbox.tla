------------------------------ MODULE Mailbox ------------------------------
(***************************************************************************)
(* What a Friend promises its Low Power Node: a mailbox.  While it is open *)
(* messages come in and are taken out in order, each once.  A message is   *)
(* lost only for want of room, after a fault, or because the friendship    *)
(* ends.                                                                   *)
(***************************************************************************)
EXTENDS Integers, Sequences

VARIABLES
  box,    \* the messages kept, oldest first
  open,   \* the friendship lasts
  full,   \* there is no room
  faulty, \* the two sides may have lost track of each other
  put,    \* the number of messages that came in, and the last one's name
  got     \* the messages taken out

\* full and faulty are inputs: they may change at any time.
vars == <<box, open, put, got>>

Init == box = <<>> /\ open = FALSE /\ put = 0 /\ got = <<>>

\* Box b without its n-th message, and what may be left with one message less.
Without(b, n) == SubSeq(b, 1, n - 1) \o SubSeq(b, n + 1, Len(b))

Fewer(b) == {Without(b, n) : n \in 1..Len(b)}

Open == ~open /\ box = <<>> /\ open' = TRUE /\ UNCHANGED <<box, put, got>>

\* A message comes in; it may take the place of an old one: without a fault
\* the oldest, or the next if that one is being sent.
Put ==
  /\ open /\ put' = put + 1
  /\ \/ box' = Append(box, put')
     \/ full /\ \E n \in {1, 2} \cap 1..Len(box) : box' = Append(Without(box, n), put')
     \/ full /\ faulty /\ \E b \in Fewer(box) : box' = Append(b, put')
  /\ UNCHANGED <<open, got>>

\* Room is made: the oldest message goes.  After a fault one goes, or two.
Discard ==
  /\ open
  /\ \/ full /\ box # <<>> /\ box' = Tail(box)
     \/ faulty /\ box' \in Fewer(box) \cup UNION {Fewer(b) : b \in Fewer(box)}
  /\ UNCHANGED <<open, put, got>>

Take ==
  /\ box # <<>>
  /\ got' = Append(got, Head(box)) /\ box' = Tail(box)
  /\ UNCHANGED <<open, put>>

\* The friendship ends; at most the message being sent can still be taken.
Close ==
  /\ open /\ open' = FALSE
  /\ box' = <<>> \/ (box # <<>> /\ box' = <<Head(box)>>)
  /\ UNCHANGED <<put, got>>

Lose == ~open /\ box' = <<>> /\ UNCHANGED <<open, put, got>>

Next == Open \/ Put \/ Discard \/ Take \/ Close \/ Lose

Spec == Init /\ [][Next]_vars
=============================================================================
