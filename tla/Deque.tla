-------------------------------- MODULE Deque --------------------------------
(***************************************************************************)
(* What a header table asks of its ring buffer: a list that grows at the    *)
(* front, shrinks at the back, and tells what is at any place of it.        *)
(***************************************************************************)
EXTENDS Sequences, Naturals

CONSTANT Entries

VARIABLE list

Init == list = <<>>

PushFront(e) == list' = <<e>> \o list
PopBack == list # <<>> /\ list' = SubSeq(list, 1, Len(list) - 1)

Next == (\E e \in Entries : PushFront(e)) \/ PopBack

Spec == Init /\ [][Next]_list
=============================================================================
