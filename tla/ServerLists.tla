----------------------------- MODULE ServerLists -----------------------------
(***************************************************************************)
(* What the operators of Server.tla that stand for list.h return: lemmas   *)
(* for ServerProofs.tla, which cites them by name.                         *)
(***************************************************************************)
EXTENDS Server, SequenceTheorems, TLAPS

(* Where the operators of Server.tla find x. *)
Position(s, x) == CHOOSE i \in DOMAIN s : s[i] = x

(* x is at its position. *)
LEMMA PositionOf ==
  ASSUME NEW S, NEW s \in Seq(S), NEW x \in ToSet(s)
  PROVE  Position(s, x) \in 1..Len(s) /\ s[Position(s, x)] = x
BY DEF Position, ToSet

(* RemoveAt() closes the gap and keeps everything else in order. *)
LEMMA RemoveAtEntries ==
  ASSUME NEW S, NEW s \in Seq(S), NEW i \in 1..Len(s)
  PROVE  /\ RemoveAt(s, i) \in Seq(S)
         /\ Len(RemoveAt(s, i)) = Len(s) - 1
         /\ \A j \in 1..(Len(s) - 1) : RemoveAt(s, i)[j] = IF j < i THEN s[j] ELSE s[j + 1]
<1> DEFINE a == SubSeq(s, 1, i - 1)
           b == SubSeq(s, i + 1, Len(s))
<1>1. a \in Seq(S) /\ Len(a) = i - 1 /\ \A j \in 1..(i - 1) : a[j] = s[j]
  <2>1. 1 \in 1..(Len(s) + 1) /\ i - 1 \in 0..Len(s)
    OBVIOUS
  <2>2. /\ a \in Seq(S)
        /\ Len(a) = IF 1 <= i - 1 THEN (i - 1) - 1 + 1 ELSE 0
        /\ \A j \in 1..((i - 1) - 1 + 1) : a[j] = s[1 + j - 1]
    BY <2>1, SubSeqProperties
  <2> QED BY <2>2
<1>2. b \in Seq(S) /\ Len(b) = Len(s) - i /\ \A j \in 1..(Len(s) - i) : b[j] = s[i + j]
  <2>1. i + 1 \in 1..(Len(s) + 1) /\ Len(s) \in 0..Len(s)
    OBVIOUS
  <2>2. /\ b \in Seq(S)
        /\ Len(b) = IF i + 1 <= Len(s) THEN Len(s) - (i + 1) + 1 ELSE 0
        /\ \A j \in 1..(Len(s) - (i + 1) + 1) : b[j] = s[(i + 1) + j - 1]
    BY <2>1, SubSeqProperties
  <2> QED BY <2>2
<1>3. a \o b \in Seq(S) /\ Len(a \o b) = Len(a) + Len(b)
      /\ \A j \in 1..(Len(a) + Len(b)) : (a \o b)[j] = IF j <= Len(a) THEN a[j] ELSE b[j - Len(a)]
  BY <1>1, <1>2, ConcatProperties
<1>4. RemoveAt(s, i) = a \o b
  BY DEF RemoveAt
<1> HIDE DEF a, b
<1>5. Len(a \o b) = Len(s) - 1
  BY <1>1, <1>2, <1>3
<1>6. ASSUME NEW j \in 1..(Len(s) - 1)
      PROVE  (a \o b)[j] = IF j < i THEN s[j] ELSE s[j + 1]
  <2>1. j \in 1..(Len(a) + Len(b))
    BY <1>1, <1>2
  <2>2. CASE j < i
    BY <1>1, <1>3, <2>1, <2>2
  <2>3. CASE ~(j < i)
    <3>1. j - (i - 1) \in 1..(Len(s) - i) /\ i + (j - (i - 1)) = j + 1
      BY <2>3
    <3>2. (a \o b)[j] = b[j - (i - 1)]
      BY <1>1, <1>3, <2>1, <2>3
    <3>3. b[j - (i - 1)] = s[i + (j - (i - 1))]
      BY <1>2, <3>1
    <3> QED BY <2>3, <3>1, <3>2, <3>3
  <2> QED BY <2>2, <2>3
<1> QED BY <1>3, <1>4, <1>5, <1>6

(* list_del() takes out exactly the entry it is given. *)
LEMMA ListDel ==
  ASSUME NEW S, NEW s \in Seq(S), IsInjective(s), NEW x \in ToSet(s)
  PROVE  /\ list_del(s, x) \in Seq(S)
         /\ Len(list_del(s, x)) = Len(s) - 1
         /\ Len(s) >= 1
         /\ ToSet(list_del(s, x)) = ToSet(s) \ {x}
         /\ IsInjective(list_del(s, x))
<1> DEFINE i == Position(s, x)
           t == RemoveAt(s, i)
<1>1. i \in 1..Len(s) /\ s[i] = x
  BY PositionOf
<1>2. list_del(s, x) = t
  BY DEF list_del, Position
<1> HIDE DEF i
<1>3. /\ t \in Seq(S) /\ Len(t) = Len(s) - 1
      /\ \A j \in 1..(Len(s) - 1) : t[j] = IF j < i THEN s[j] ELSE s[j + 1]
  BY <1>1, RemoveAtEntries
<1> HIDE DEF t
<1>4. /\ \A j, k \in 1..Len(s) : s[j] = s[k] => j = k
      /\ \A j \in 1..Len(s) : s[j] \in ToSet(s)
  BY DEF IsInjective, ToSet
<1>5. IsInjective(t)
  BY <1>1, <1>3, <1>4 DEF IsInjective
<1>6. ToSet(t) \subseteq ToSet(s) \ {x}
  <2> SUFFICES ASSUME NEW j \in 1..(Len(s) - 1) PROVE t[j] \in ToSet(s) /\ t[j] # x
    BY <1>3 DEF ToSet
  <2>1. CASE j < i
    <3>1. j \in 1..Len(s) /\ j # i /\ t[j] = s[j]
      BY <1>1, <1>3, <2>1
    <3> QED BY <1>1, <1>4, <3>1
  <2>2. CASE ~(j < i)
    <3>1. j + 1 \in 1..Len(s) /\ j + 1 # i /\ t[j] = s[j + 1]
      BY <1>1, <1>3, <2>2
    <3> QED BY <1>1, <1>4, <3>1
  <2> QED BY <2>1, <2>2
<1>7. ToSet(s) \ {x} \subseteq ToSet(t)
  <2> SUFFICES ASSUME NEW y \in ToSet(s), y # x PROVE y \in ToSet(t)
    OBVIOUS
  <2>1. PICK j \in 1..Len(s) : s[j] = y
    BY DEF ToSet
  <2>2. CASE j < i
    <3>1. j \in 1..(Len(s) - 1) /\ t[j] = y
      BY <1>1, <1>3, <2>1, <2>2
    <3> QED BY <3>1, <1>3 DEF ToSet
  <2>3. CASE j > i
    <3>1. j - 1 \in 1..(Len(s) - 1) /\ t[j - 1] = y
      BY <1>1, <1>3, <2>1, <2>3
    <3> QED BY <3>1, <1>3 DEF ToSet
  <2>4. j # i
    BY <1>1, <2>1
  <2> QED BY <1>1, <2>1, <2>2, <2>3, <2>4
<1> QED BY <1>1, <1>2, <1>3, <1>5, <1>6, <1>7

(* list_add_tail() adds exactly the entry it is given, and no duplicate if
   it is new.                                                              *)
LEMMA ListAddTail ==
  ASSUME NEW S, NEW s \in Seq(S), NEW x \in S
  PROVE  /\ list_add_tail(s, x) \in Seq(S)
         /\ Len(list_add_tail(s, x)) = Len(s) + 1
         /\ ToSet(list_add_tail(s, x)) = ToSet(s) \cup {x}
         /\ IsInjective(s) /\ x \notin ToSet(s) => IsInjective(list_add_tail(s, x))
<1> DEFINE t == Append(s, x)
<1>1. /\ t \in Seq(S) /\ Len(t) = Len(s) + 1
      /\ \A i \in 1..Len(s) : t[i] = s[i]
      /\ t[Len(s) + 1] = x
  BY AppendProperties
<1>2. list_add_tail(s, x) = t
  BY DEF list_add_tail
<1> HIDE DEF t
<1>3. ToSet(t) = ToSet(s) \cup {x}
  BY <1>1 DEF ToSet
<1>4. IsInjective(s) /\ x \notin ToSet(s) => IsInjective(t)
  BY <1>1 DEF IsInjective, ToSet
<1> QED BY <1>1, <1>2, <1>3, <1>4

(* A list after INIT_LIST_HEAD(). *)
LEMMA EmptyList == ToSet(<<>>) = {} /\ Len(<<>>) = 0 /\ IsInjective(<<>>)
BY DEF ToSet, IsInjective

(* Only the empty list has no entry. *)
LEMMA LenZero ==
  ASSUME NEW S, NEW s \in Seq(S)
  PROVE  (Len(s) = 0) <=> (s = <<>>)
OBVIOUS

(* list_for_each_entry() goes from an entry of the list to an entry of the
   list or to its end.                                                     *)
LEMMA WalkEntries ==
  ASSUME NEW S, NEW s \in Seq(S)
  PROVE  /\ FirstEntry(s) \in ToSet(s) \cup {Nil}
         /\ \A x \in ToSet(s) : NextEntry(s, x) \in ToSet(s) \cup {Nil}
<1>1. FirstEntry(s) \in ToSet(s) \cup {Nil}
  BY DEF FirstEntry, ToSet
<1>2. ASSUME NEW x \in ToSet(s) PROVE NextEntry(s, x) \in ToSet(s) \cup {Nil}
  <2> DEFINE i == Position(s, x)
  <2>1. i \in 1..Len(s)
    BY PositionOf
  <2>2. NextEntry(s, x) = IF i = Len(s) THEN Nil ELSE s[i + 1]
    BY DEF NextEntry, Position
  <2> HIDE DEF i
  <2> QED BY <2>1, <2>2 DEF ToSet
<1> QED BY <1>1, <1>2

(* The entries of a list are of its type. *)
LEMMA InToSet ==
  ASSUME NEW S, NEW s \in Seq(S)
  PROVE  /\ ToSet(s) \subseteq S
         /\ \A x \in ToSet(s) : Len(s) >= 1
         /\ Len(s) = 0 => ToSet(s) = {}
BY DEF ToSet
=============================================================================
