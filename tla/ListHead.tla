------------------------------- MODULE ListHead -------------------------------
(***************************************************************************)
(* include/list.h on pointers: the circular doubly linked lists that       *)
(* Server.tla takes for sequences, with the functions the server calls.    *)
(*                                                                         *)
(* A heap h gives each list_head its two pointers.  An operator that has   *)
(* the name of a function of list.h returns the heap after the call; its   *)
(* assignments are made one after the other, as the nodes they are made to *)
(* may be the same.                                                        *)
(***************************************************************************)
EXTENDS Naturals, Sequences

CONSTANTS
  Node,   \* the list_heads, heads of lists and members of structures alike
  Null

Heap == [Node -> [next : Node \cup {Null}, prev : Node \cup {Null}]]

-----------------------------------------------------------------------------
(* What it is to be a list.                                                *)

(* Position 0, and the one after the last, are the head's. *)
At(head, s, i) == IF i \in 1..Len(s) THEN s[i] ELSE head

(* In h, head is the head of a list whose entries are s, in this order. *)
IsList(h, head, s) ==
  /\ \A i \in 1..Len(s) : s[i] # head /\ \A j \in 1..Len(s) : i # j => s[i] # s[j]
  /\ \A i \in 0..Len(s) :
       /\ h[At(head, s, i)].next = At(head, s, i + 1)
       /\ h[At(head, s, i + 1)].prev = At(head, s, i)

-----------------------------------------------------------------------------
INIT_LIST_HEAD(h, list) == [h EXCEPT ![list] = [next |-> list, prev |-> list]]

__list_add(h, new, prev, next) ==
  LET h1 == [h EXCEPT ![next].prev = new]
      h2 == [h1 EXCEPT ![new] = [next |-> next, prev |-> prev]]
  IN  [h2 EXCEPT ![prev].next = new]

list_add_tail(h, new, head) == __list_add(h, new, h[head].prev, head)

__list_del(h, prev, next) ==
  LET h1 == [h EXCEPT ![next].prev = prev] IN [h1 EXCEPT ![prev].next = next]

(* LIST_POISON1 and LIST_POISON2 are NULL here. *)
list_del(h, entry) ==
  [__list_del(h, h[entry].prev, h[entry].next) EXCEPT
    ![entry] = [next |-> Null, prev |-> Null]]

(* list_for_each_entry(): the loop starts at First(h, head), goes from pos to
   Succ(h, pos) when its body is done, and ends at the head.               *)
First(h, head) == h[head].next

Succ(h, pos) == h[pos].next

=============================================================================
