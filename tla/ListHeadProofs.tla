---------------------------- MODULE ListHeadProofs ----------------------------
(***************************************************************************)
(* The pointer code of include/list.h implements the operations on         *)
(* sequences that Server.tla has in its place, for lists of any length.    *)
(***************************************************************************)
EXTENDS ListHead, TLAPS

(* At() is a node, and never the same one twice except for the head. *)
LEMMA AtNode ==
  ASSUME NEW head \in Node, NEW s \in Seq(Node), NEW i \in 0..(Len(s) + 1)
  PROVE  At(head, s, i) \in Node
BY DEF At

(* INIT_LIST_HEAD() makes an empty list. *)
THEOREM InitIsEmptyList ==
  ASSUME NEW h \in Heap, NEW head \in Node
  PROVE  IsList(INIT_LIST_HEAD(h, head), head, <<>>)
BY DEF IsList, INIT_LIST_HEAD, At, Heap

(* list_add_tail() appends: the list that was s is s with new at its end. *)
THEOREM AddTailAppends ==
  ASSUME NEW h \in Heap, NEW head \in Node, NEW s \in Seq(Node), IsList(h, head, s),
         NEW new \in Node, new # head, \A i \in 1..Len(s) : s[i] # new
  PROVE  IsList(list_add_tail(h, new, head), head, Append(s, new))
<1> DEFINE n == Len(s)
           t == Append(s, new)
           last == At(head, s, n)
           g == list_add_tail(h, new, head)
<1>1. /\ t \in Seq(Node) /\ Len(t) = n + 1 /\ t[n + 1] = new
      /\ \A i \in 1..n : t[i] = s[i]
  OBVIOUS
<1>2. n \in Nat
  OBVIOUS
<1>3. \A i \in 1..n : s[i] # head /\ \A j \in 1..n : i # j => s[i] # s[j]
  BY DEF IsList
<1>4. \A i \in 0..n : /\ h[At(head, s, i)].next = At(head, s, i + 1)
                      /\ h[At(head, s, i + 1)].prev = At(head, s, i)
  BY DEF IsList
<1>5. h[head].prev = last /\ last \in Node
  <2>1. At(head, s, n + 1) = head
    BY <1>2 DEF At
  <2> QED BY <1>2, <1>4, <2>1, AtNode
<1>6. last # new /\ (n = 0 => last = head) /\ (n > 0 => last = s[n] /\ last # head)
  BY <1>2, <1>3 DEF At
<1>7. /\ g[head].prev = new /\ g[last].next = new
      /\ g[new].next = head /\ g[new].prev = last
      /\ \A x \in Node \ {new} : /\ x # head => g[x].prev = h[x].prev
                                 /\ x # last => g[x].next = h[x].next
  BY <1>5, <1>6 DEF list_add_tail, __list_add, Heap
<1>8. \A i \in 0..n : At(head, t, i) = At(head, s, i)
  BY <1>1, <1>2 DEF At
<1>9. At(head, t, n + 1) = new /\ At(head, t, n + 2) = head
  BY <1>1, <1>2 DEF At
<1> HIDE DEF g, t
<1>10. \A i \in 1..Len(t) : t[i] # head /\ \A j \in 1..Len(t) : i # j => t[i] # t[j]
  BY <1>1, <1>2, <1>3
<1>11. ASSUME NEW i \in 0..Len(t)
       PROVE  /\ g[At(head, t, i)].next = At(head, t, i + 1)
              /\ g[At(head, t, i + 1)].prev = At(head, t, i)
  <2>1. CASE i < n
    <3>1. /\ i \in 0..n /\ i + 1 \in 0..n /\ i + 1 \in 1..n
      BY <1>2, <2>1, <1>1
    <3>2. At(head, s, i + 1) = s[i + 1] /\ s[i + 1] # head /\ s[i + 1] # new /\ s[i + 1] \in Node
      BY <3>1, <1>3 DEF At
    <3>3. At(head, s, i) # last /\ At(head, s, i) # new /\ At(head, s, i) \in Node
      <4>1. CASE i = 0
        BY <4>1, <1>2, <1>6, <2>1 DEF At
      <4>2. CASE i # 0
        <5>1. i \in 1..n /\ n \in 1..n /\ i # n
          BY <4>2, <2>1, <3>1, <1>2
        <5>2. At(head, s, i) = s[i] /\ last = s[n]
          BY <5>1 DEF At
        <5> QED BY <5>1, <5>2, <1>3
      <4> QED BY <4>1, <4>2
    <3> QED BY <3>1, <3>2, <3>3, <1>4, <1>7, <1>8
  <2>2. CASE i = n
    BY <2>2, <1>2, <1>7, <1>8, <1>9
  <2>3. CASE i = n + 1
    BY <2>3, <1>2, <1>7, <1>9
  <2> QED BY <2>1, <2>2, <2>3, <1>1, <1>2
<1> QED BY <1>10, <1>11 DEF IsList, g, t

(* list_del() takes out the entry it is given and keeps the others in their
   order: the list that was s is s without its entry at k.                 *)
THEOREM DelRemoves ==
  ASSUME NEW h \in Heap, NEW head \in Node, NEW s \in Seq(Node), IsList(h, head, s),
         NEW k \in 1..Len(s), NEW t \in Seq(Node), Len(t) = Len(s) - 1,
         \A j \in 1..(Len(s) - 1) : t[j] = IF j < k THEN s[j] ELSE s[j + 1]
  PROVE  IsList(list_del(h, s[k]), head, t)
<1> DEFINE n == Len(s)
           p == At(head, s, k - 1)
           x == At(head, s, k + 1)
           g == list_del(h, s[k])
<1>1. n \in Nat /\ n >= 1 /\ Len(t) = n - 1 /\ s[k] \in Node
  OBVIOUS
<1>2. \A i \in 1..n : s[i] # head /\ \A j \in 1..n : i # j => s[i] # s[j]
  BY DEF IsList
<1>3. \A i \in 0..n : /\ h[At(head, s, i)].next = At(head, s, i + 1)
                      /\ h[At(head, s, i + 1)].prev = At(head, s, i)
  BY DEF IsList
<1>4. /\ p \in Node /\ x \in Node
      /\ p # s[k] /\ x # s[k]
  <2>1. k - 1 \in 0..(n + 1) /\ k + 1 \in 0..(n + 1)
    BY <1>1
  <2>2. p \in Node /\ x \in Node
    BY <2>1, AtNode
  <2>3. p # s[k] /\ x # s[k]
    BY <1>1, <1>2 DEF At
  <2> QED BY <2>2, <2>3
<1>5. h[s[k]].prev = p /\ h[s[k]].next = x
  <2>1. At(head, s, k) = s[k]
    BY DEF At
  <2>2. k \in 0..n /\ k - 1 \in 0..n /\ (k - 1) + 1 = k
    BY <1>1
  <2> QED BY <2>1, <2>2, <1>3
<1>6. /\ g[p].next = x /\ g[x].prev = p
      /\ \A y \in Node \ {s[k]} : /\ y # p => g[y].next = h[y].next
                                  /\ y # x => g[y].prev = h[y].prev
  BY <1>1, <1>4, <1>5 DEF list_del, __list_del, Heap
<1> HIDE DEF g
<1>7. \A i \in 0..(k - 1) : At(head, t, i) = At(head, s, i)
  BY <1>1 DEF At
<1>8. \A i \in k..n : At(head, t, i) = At(head, s, i + 1)
  BY <1>1 DEF At
<1>9. \A i \in 1..Len(t) : t[i] # head /\ \A j \in 1..Len(t) : i # j => t[i] # t[j]
  BY <1>1, <1>2
<1>10. \A i, j \in 0..n : i # j => At(head, s, i) # At(head, s, j)
  BY <1>1, <1>2 DEF At
<1>11. ASSUME NEW i \in 0..Len(t)
       PROVE  /\ g[At(head, t, i)].next = At(head, t, i + 1)
              /\ g[At(head, t, i + 1)].prev = At(head, t, i)
  <2> DEFINE a == At(head, t, i)
             b == At(head, t, i + 1)
  <2>1. CASE i = k - 1
    <3>1. a = p /\ b = x
      BY <2>1, <1>1, <1>7, <1>8
    <3> QED BY <3>1, <1>6
  <2>2. CASE i < k - 1
    <3>1. a = At(head, s, i) /\ b = At(head, s, i + 1) /\ i \in 0..n /\ i + 1 \in 0..n
      BY <2>2, <1>1, <1>7
    <3>2. a \in Node /\ b \in Node /\ h[a].next = b /\ h[b].prev = a
      BY <3>1, <1>1, <1>3, AtNode
    <3>3. a # p /\ a # s[k] /\ b # s[k]
      <4>1. s[k] = At(head, s, k)
        BY DEF At
      <4>2. k \in 0..n /\ k - 1 \in 0..n /\ i # k - 1 /\ i # k /\ i + 1 # k
        BY <2>2, <1>1
      <4> QED BY <4>1, <4>2, <3>1, <1>10
    <3>4. b # x
      <4>1. CASE k = n
        BY <4>1, <2>2, <3>1, <1>1, <1>2 DEF At
      <4>2. CASE k # n
        <5>1. k + 1 \in 0..n /\ i + 1 # k + 1
          BY <4>2, <2>2, <1>1
        <5> QED BY <5>1, <3>1, <1>10
      <4> QED BY <4>1, <4>2
    <3> QED BY <3>2, <3>3, <3>4, <1>6
  <2>3. CASE i > k - 1
    <3>1. /\ a = At(head, s, i + 1) /\ b = At(head, s, i + 2)
          /\ i + 1 \in 0..n /\ i + 2 \in 0..(n + 1) /\ i + 1 > k
      BY <2>3, <1>1, <1>8
    <3>2. a \in Node /\ b \in Node /\ h[a].next = b /\ h[b].prev = a
      <4>1. (i + 1) + 1 = i + 2
        BY <1>1
      <4> QED BY <3>1, <4>1, <1>1, <1>3, AtNode
    <3>3. a # p /\ a # s[k]
      <4>1. s[k] = At(head, s, k)
        BY DEF At
      <4>2. k \in 0..n /\ k - 1 \in 0..n /\ i + 1 # k - 1 /\ i + 1 # k
        BY <3>1, <1>1
      <4> QED BY <4>1, <4>2, <3>1, <1>10
    <3>4. b # x /\ b # s[k]
      <4>1. i + 2 # k + 1 /\ k + 1 \in 0..n /\ i + 2 # k /\ k \in 1..n
        BY <3>1, <1>1
      <4>2. CASE i + 2 = n + 1
        BY <4>2, <4>1, <3>1, <1>1, <1>2 DEF At
      <4>3. CASE i + 2 # n + 1
        <5>1. i + 2 \in 0..n /\ k \in 0..n /\ s[k] = At(head, s, k)
          BY <4>3, <3>1, <1>1 DEF At
        <5> QED BY <5>1, <4>1, <3>1, <1>10
      <4> QED BY <4>2, <4>3
    <3> QED BY <3>2, <3>3, <3>4, <1>6
  <2> QED BY <2>1, <2>2, <2>3, <1>1
<1> QED BY <1>9, <1>11 DEF IsList, g

=============================================================================
