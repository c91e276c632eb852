------------------------------ MODULE FlowProofs ------------------------------
(***************************************************************************)
(* Safety of Flow.tla, the commands and output under way, for any number   *)
(* of clients and commands and any size of the sockets' buffers.           *)
(*                                                                         *)
(* The console's walk stays on the list because the epoll thread unlinks   *)
(* clients only while classlock is free, and because it unlinks each of    *)
(* them once, though a batch of events may tell of it later (EventInv).    *)
(* The record of a command precedes its output in the log file because     *)
(* whatever is on the way to or from a client, or under way in it, has     *)
(* been recorded (TraceInv).                                               *)
(***************************************************************************)
EXTENDS Flow, FiniteSetTheorems, TLAPS

(* Where the commands are, each is one the operator has typed. *)
CmdInv ==
  /\ mpc \notin {"menu", "dead"} => ncmd >= 1
  /\ epc = "log" => ecli \in Client /\ erec >= 1
  /\ \A c \in Client : run[c] # Idle => run[c].cmd >= 1 /\ run[c].left >= 1

(* The events are those of clients that are linked, one of each; the client
   that is being freed has none left.                                      *)
EventInv ==
  /\ \A e \in ev : e[1] \in Members
  /\ \A e, f \in ev : e[1] = f[1] => e = f
  /\ epc = "free" => ecli \in Members /\ \A e \in ev : e[1] # ecli

(* Whatever a client has got, runs, or has written, has been recorded. *)
TraceInv ==
  /\ mpc = "write" => pos \in Client /\ Cmd(ncmd) \in wrote[pos]
  /\ \A c \in Client :
       /\ \A i \in 1..Len(down[c]) : Cmd(down[c][i]) \in wrote[c]
       /\ \A i \in 1..Len(up[c]) : Cmd(up[c][i]) \in wrote[c]
       /\ run[c] # Idle => Cmd(run[c].cmd) \in wrote[c]
       /\ epc = "log" /\ ecli = c => Cmd(erec) \in wrote[c]
       /\ \A k \in 1..MaxCmd : Out(k) \in wrote[c] => Cmd(k) \in wrote[c]

FlowInv == TypeOK /\ OnList /\ CmdInv /\ EventInv /\ TraceInv

USE FlowAssumption

(* What ListHeadProofs.tla proves of list.h. *)
LP == INSTANCE ListHeadProofs WITH Node <- Client \cup {clilist}, Null <- Nil

(* A list without its k-th entry. *)
Without(s, k) == [j \in 1..(Len(s) - 1) |-> IF j < k THEN s[j] ELSE s[j + 1]]

(* It is a list of the other entries. *)
LEMMA WithoutFacts ==
  ASSUME NEW n \in Nat, NEW s \in [1..n -> Client], NEW k \in 1..n,
         \A i, j \in 1..n : i # j => s[i] # s[j]
  PROVE  /\ Without(s, k) \in [1..(n - 1) -> Client]
         /\ Len(s) = n /\ Len(Without(s, k)) = n - 1
         /\ Range(Without(s, k)) = Range(s) \ {s[k]}
<1> DEFINE t == Without(s, k)
<1>1. Len(s) = n
  OBVIOUS
<1>2. t = [j \in 1..(n - 1) |-> IF j < k THEN s[j] ELSE s[j + 1]]
  BY <1>1 DEF Without
<1> HIDE DEF t
<1>3. t \in [1..(n - 1) -> Client] /\ Len(t) = n - 1
  BY <1>1, <1>2
<1>4. \A c : c \in Range(t) <=> \E j \in 1..(n - 1) : t[j] = c
  BY <1>3 DEF Range
<1>5. \A c : c \in Range(s) <=> \E i \in 1..n : s[i] = c
  BY DEF Range
<1>6. ASSUME NEW c \in Range(t) PROVE c \in Range(s) \ {s[k]}
  <2>1. PICK j \in 1..(n - 1) : t[j] = c
    BY <1>4, <1>6
  <2>2. PICK i \in 1..n : i # k /\ s[i] = c
    <3>1. CASE j < k
      BY <1>2, <2>1, <3>1
    <3>2. CASE ~(j < k)
      <4>1. j + 1 \in 1..n /\ j + 1 # k
        BY <3>2
      <4> QED BY <1>2, <2>1, <3>2, <4>1
    <3> QED BY <3>1, <3>2
  <2> QED BY <1>5, <2>2
<1>7. ASSUME NEW c \in Range(s), c # s[k] PROVE c \in Range(t)
  <2>1. PICK i \in 1..n : s[i] = c /\ i # k
    BY <1>5, <1>7
  <2>2. CASE i < k
    <3>1. i \in 1..(n - 1)
      BY <2>2
    <3> QED BY <1>2, <1>4, <2>1, <2>2, <3>1
  <2>3. CASE ~(i < k)
    <3>1. i - 1 \in 1..(n - 1) /\ ~(i - 1 < k) /\ (i - 1) + 1 = i
      BY <2>1, <2>3
    <3>2. t[i - 1] = s[i]
      BY <1>2, <3>1
    <3> QED BY <1>4, <2>1, <3>1, <3>2
  <2> QED BY <2>2, <2>3
<1>8. Range(t) = Range(s) \ {s[k]}
  BY <1>6, <1>7
<1> QED BY <1>1, <1>3, <1>8 DEF t

(* list_del() in the terms of Flow.tla. *)
LEMMA DelOnList ==
  ASSUME NEW h \in L!Heap, NEW s \in Seq(Client), L!IsList(h, clilist, s), NEW k \in 1..Len(s),
         Without(s, k) \in Seq(Client), Len(Without(s, k)) = Len(s) - 1
  PROVE  L!IsList(L!list_del(h, s[k]), clilist, Without(s, k))
<1> DEFINE N == Client \cup {clilist}
<1>1. h \in LP!Heap /\ LP!IsList(h, clilist, s)
  BY DEF L!Heap, LP!Heap, L!IsList, LP!IsList, L!At, LP!At
<1>2. clilist \in N /\ s \in Seq(N) /\ Without(s, k) \in Seq(N)
  OBVIOUS
<1>3. \A j \in 1..(Len(s) - 1) : Without(s, k)[j] = IF j < k THEN s[j] ELSE s[j + 1]
  BY DEF Without
<1>4. LP!IsList(LP!list_del(h, s[k]), clilist, Without(s, k))
  BY <1>1, <1>2, <1>3, LP!DelRemoves
<1>5. LP!list_del(h, s[k]) = L!list_del(h, s[k])
  BY DEF LP!list_del, L!list_del, LP!__list_del, L!__list_del
<1> QED BY <1>4, <1>5 DEF L!IsList, LP!IsList, L!At, LP!At

(* The walk of list_for_each_entry() stays on the list. *)
LEMMA WalkOnList ==
  ASSUME NEW h, NEW s \in Seq(Client), L!IsList(h, clilist, s)
  PROVE  \A c \in Range(s) \cup {clilist} : L!Succ(h, c) \in Range(s) \cup {clilist}
<1> DEFINE at(i) == L!At(clilist, s, i)
<1>1. \A i \in 0..Len(s) : h[at(i)].next = at(i + 1)
  BY DEF L!IsList
<1>2. \A i \in 1..Len(s) : at(i) = s[i] /\ s[i] \in Range(s)
  BY DEF L!At, Range
<1>3. at(0) = clilist /\ \A i \in 0..Len(s) : at(i + 1) \in Range(s) \cup {clilist}
  BY <1>2 DEF L!At
<1>4. ASSUME NEW c \in Range(s) \cup {clilist} PROVE h[c].next \in Range(s) \cup {clilist}
  <2>1. CASE c = clilist
    BY <1>1, <1>3, <2>1
  <2>2. CASE c # clilist
    <3>1. PICK i \in 1..Len(s) : s[i] = c
      BY <2>2 DEF Range
    <3> HIDE DEF at
    <3>2. at(i) = c /\ i \in 0..Len(s)
      BY <1>2, <3>1
    <3> QED BY <1>1, <1>3, <3>2
  <2> QED BY <2>1, <2>2
<1> QED BY <1>4 DEF L!Succ

(* list_del() takes its entry off, and touches nobody who is not on the list. *)
LEMMA DelTouches ==
  ASSUME NEW h \in L!Heap, NEW s \in Seq(Client), L!IsList(h, clilist, s), NEW k \in 1..Len(s)
  PROVE  /\ L!list_del(h, s[k]) \in L!Heap
         /\ L!list_del(h, s[k])[s[k]].next = Nil
         /\ \A c \in Client : c \notin Range(s) => L!list_del(h, s[k])[c] = h[c]
<1> DEFINE N == Client \cup {clilist}
           p == h[s[k]].prev
           x == h[s[k]].next
           h1 == [h EXCEPT ![x].prev = p]
           h2 == [h1 EXCEPT ![p].next = x]
           g == [h2 EXCEPT ![s[k]] = [next |-> Nil, prev |-> Nil]]
<1>1. L!list_del(h, s[k]) = g
  BY DEF L!list_del, L!__list_del
<1>2. p \in Range(s) \cup {clilist} /\ x \in Range(s) \cup {clilist}
  <2>1. /\ h[L!At(clilist, s, k)].next = L!At(clilist, s, k + 1)
        /\ h[L!At(clilist, s, (k - 1) + 1)].prev = L!At(clilist, s, k - 1)
    BY DEF L!IsList
  <2>2. (k - 1) + 1 = k /\ L!At(clilist, s, k) = s[k]
    BY DEF L!At
  <2>3. \A i \in 0..(Len(s) + 1) : L!At(clilist, s, i) \in Range(s) \cup {clilist}
    BY DEF L!At, Range
  <2> QED BY <2>1, <2>2, <2>3
<1>3. s[k] \in Range(s) /\ Range(s) \subseteq Client
  BY DEF Range
<1>4. p \in N /\ x \in N /\ s[k] \in N /\ h \in [N -> [next : N \cup {Nil}, prev : N \cup {Nil}]]
  BY <1>2, <1>3 DEF L!Heap
<1> HIDE DEF p, x, N
<1>5. h1 \in [N -> [next : N \cup {Nil}, prev : N \cup {Nil}]]
      /\ \A c \in N : c # x => h1[c] = h[c]
  BY <1>4
<1> HIDE DEF h1
<1>6. h2 \in [N -> [next : N \cup {Nil}, prev : N \cup {Nil}]]
      /\ \A c \in N : c # p => h2[c] = h1[c]
  BY <1>4, <1>5
<1> HIDE DEF h2
<1>7. g \in [N -> [next : N \cup {Nil}, prev : N \cup {Nil}]]
      /\ g[s[k]].next = Nil /\ \A c \in N : c # s[k] => g[c] = h2[c]
  BY <1>4, <1>6
<1> HIDE DEF g
<1>8. ASSUME NEW c \in Client, c \notin Range(s) PROVE g[c] = h[c]
  <2>1. c \in N /\ c # x /\ c # p /\ c # s[k]
    BY <1>2, <1>3, <1>8 DEF N
  <2> QED BY <1>5, <1>6, <1>7, <2>1
<1> QED BY <1>1, <1>7, <1>8 DEF L!Heap, N

(* Whoever is on the list of clients has pointers. *)
LEMMA OnListLinked ==
  ASSUME NEW h, NEW s \in Seq(Client), L!IsList(h, clilist, s), NEW c \in Range(s)
  PROVE  h[c].next # Nil
<1>1. L!Succ(h, c) \in Range(s) \cup {clilist}
  BY WalkOnList
<1>2. Range(s) \subseteq Client
  BY DEF Range
<1> QED BY <1>1, <1>2 DEF L!Succ

(* cli_free() takes one client off class->clilist, and the others stay. *)
LEMMA FreeTakesOne ==
  ASSUME heap \in L!Heap, OnList, ecli \in Members, heap' = L!list_del(heap, ecli)
  PROVE  /\ heap' \in L!Heap
         /\ Members' = Members \ {ecli}
         /\ \E s \in SeqOf(Client, Cardinality(Client)) :
              L!IsList(heap', clilist, s) /\ Range(s) = Members'
<1> DEFINE m == Cardinality(Client)
<1>1. PICK s \in SeqOf(Client, m) : L!IsList(heap, clilist, s) /\ Range(s) = Members
  BY DEF OnList
<1>2. m \in Nat
  BY FS_CardinalityType
<1> HIDE DEF m
<1>3. PICK n \in 0..m : s \in [1..n -> Client]
  BY <1>1 DEF SeqOf
<1>4. n \in Nat /\ s \in Seq(Client) /\ Len(s) = n
  BY <1>2, <1>3
<1>5. PICK k \in 1..n : s[k] = ecli
  BY <1>1, <1>3 DEF Range
<1>6. \A i, j \in 1..n : i # j => s[i] # s[j]
  BY <1>1, <1>4 DEF L!IsList
<1> DEFINE t == Without(s, k)
<1>7. /\ t \in [1..(n - 1) -> Client] /\ n - 1 \in 0..m /\ Len(t) = n - 1
      /\ Range(t) = Range(s) \ {ecli}
  <2>1. Without(s, k) \in [1..(n - 1) -> Client] /\ Len(Without(s, k)) = n - 1
    BY <1>3, <1>4, <1>6, WithoutFacts
  <2>2. Range(Without(s, k)) = Range(s) \ {s[k]}
    <3>1. n \in Nat /\ s \in [1..n -> Client] /\ k \in 1..n
      BY <1>3, <1>4
    <3> QED BY <3>1, <1>6, WithoutFacts
  <2>3. n - 1 \in 0..m
    BY <1>2, <1>5
  <2> QED BY <1>5, <2>1, <2>2, <2>3
<1>8. t \in Seq(Client) /\ t \in SeqOf(Client, m)
  <2>1. t \in Seq(Client)
    BY <1>4, <1>7
  <2>2. t \in SeqOf(Client, m)
    BY <1>7 DEF SeqOf
  <2> QED BY <2>1, <2>2
<1>9. L!IsList(heap', clilist, t)
  BY <1>1, <1>4, <1>5, <1>7, <1>8, DelOnList
<1> HIDE DEF t
<1>10. /\ heap' \in L!Heap /\ heap'[ecli].next = Nil
       /\ \A c \in Client : c \notin Range(s) => heap'[c] = heap[c]
  BY <1>1, <1>4, <1>5, DelTouches
<1>11. \A c \in Range(t) : heap'[c].next # Nil
  BY <1>8, <1>9, OnListLinked
<1>12. Members' = Members \ {ecli}
  <2>1. ASSUME NEW c \in Client PROVE heap'[c].next # Nil <=> c \in Members \ {ecli}
    <3>1. CASE c \in Range(t)
      BY <1>1, <1>7, <1>11, <3>1
    <3>2. CASE c = ecli
      BY <1>10, <3>2
    <3>3. CASE c \notin Range(s)
      BY <1>1, <1>10, <3>3 DEF Members
    <3> QED BY <1>7, <3>1, <3>2, <3>3
  <2> QED BY <2>1 DEF Members
<1> QED BY <1>1, <1>7, <1>8, <1>9, <1>10, <1>12 DEF m

(* It holds when the server and its clients start. *)
LEMMA InitFlowInv == Init => FlowInv
<1> SUFFICES ASSUME Init PROVE FlowInv
  OBVIOUS
<1>1. PICK s \in SeqOf(Client, Cardinality(Client)) :
        heap \in L!Heap /\ L!IsList(heap, clilist, s) /\ Range(s) = Client
  BY DEF Init, Registered
<1>2. Members = Client
  <2>1. s \in Seq(Client)
    BY <1>1, FS_CardinalityType DEF SeqOf
  <2>2. \A c \in Client : heap[c].next # Nil
    BY <1>1, <2>1, OnListLinked
  <2> QED BY <2>2 DEF Members
<1>3. OnList
  BY <1>1, <1>2 DEF Init, OnList
<1>4. TypeOK
  BY <1>1 DEF Init, TypeOK, Idle
<1>5. CmdInv /\ EventInv /\ TraceInv
  BY DEF Init, CmdInv, EventInv, TraceInv, Idle
<1> QED BY <1>3, <1>4, <1>5 DEF FlowInv

(* The walk goes from a client of the class to one, or to the head. *)
LEMMA ListWalk ==
  ASSUME OnList
  PROVE  \A c \in Members \cup {clilist} : L!Succ(heap, c) \in Members \cup {clilist}
<1>1. PICK s \in SeqOf(Client, Cardinality(Client)) :
        L!IsList(heap, clilist, s) /\ Range(s) = Members
  BY DEF OnList
<1>2. s \in Seq(Client)
  BY <1>1, FS_CardinalityType DEF SeqOf
<1> QED BY <1>1, <1>2, WalkOnList

(* A queue of records: what is read first, what is added last. *)
LEMMA HeadTail ==
  ASSUME NEW S, NEW q \in Seq(S), q # <<>>
  PROVE  /\ Head(q) \in S /\ Head(q) = q[1] /\ 1 \in 1..Len(q)
         /\ Tail(q) \in Seq(S) /\ Len(Tail(q)) = Len(q) - 1
         /\ \A i \in 1..(Len(q) - 1) : i + 1 \in 1..Len(q) /\ Tail(q)[i] = q[i + 1]
OBVIOUS

(* What a queue holds when a record is added. *)
LEMMA Appended ==
  ASSUME NEW S, NEW q \in Seq(S), NEW x \in S
  PROVE  /\ Append(q, x) \in Seq(S) /\ Len(Append(q, x)) = Len(q) + 1
         /\ \A i \in 1..(Len(q) + 1) : Append(q, x)[i] = IF i <= Len(q) THEN q[i] ELSE x
OBVIOUS

(* An empty queue fits. *)
LEMMA EmptyQueue ==
  <<>> \in Seq(1..MaxCmd) /\ Len(<<>>) = 0 /\ 0 <= Cap /\ \A S : \A q \in Seq(S) : Len(q) \in Nat
OBVIOUS

(* One of the queues is set to r. *)
LEMMA QueueSet ==
  ASSUME NEW q \in [Client -> Seq(1..MaxCmd)], \A d \in Client : Len(q[d]) <= Cap,
         NEW c \in Client, NEW r \in Seq(1..MaxCmd), Len(r) <= Cap
  PROVE  /\ [q EXCEPT ![c] = r] \in [Client -> Seq(1..MaxCmd)]
         /\ \A d \in Client : Len([q EXCEPT ![c] = r][d]) <= Cap
OBVIOUS

(* What CWrite() makes of the command that c runs. *)
LEMMA WriteRuns ==
  ASSUME FlowInv, NEW c \in Client, CWrite(c)
  PROVE  /\ run[c] \in [cmd : 1..MaxCmd, left : 1..MaxOut]
         /\ run' \in [Client -> [cmd : 0..MaxCmd, left : 0..MaxOut]]
         /\ \A d \in Client : d # c => run'[d] = run[d]
         /\ run'[c] = Idle \/ (run'[c].cmd = run[c].cmd /\ run'[c].left >= 1)
<1> DEFINE r == run[c]
           less == [cmd |-> r.cmd, left |-> r.left - 1]
<1>1. r \in [cmd : 1..MaxCmd, left : 1..MaxOut]
  BY DEF CWrite, FlowInv, TypeOK, CmdInv
<1>2. /\ less \in [cmd : 0..MaxCmd, left : 0..MaxOut]
      /\ less.cmd = r.cmd /\ less.left = r.left - 1
  BY <1>1
<1>3. Idle \in [cmd : 0..MaxCmd, left : 0..MaxOut]
  BY DEF Idle
<1>4. run' = [run EXCEPT ![c] = IF r.left = 1 THEN Idle ELSE less]
  BY DEF CWrite
<1> HIDE DEF less
<1>5. run \in [Client -> [cmd : 0..MaxCmd, left : 0..MaxOut]]
  BY DEF FlowInv, TypeOK
<1>6. /\ run' \in [Client -> [cmd : 0..MaxCmd, left : 0..MaxOut]]
      /\ run'[c] = IF r.left = 1 THEN Idle ELSE less
      /\ \A d \in Client : d # c => run'[d] = run[d]
  BY <1>2, <1>3, <1>4, <1>5
<1>7. r.left # 1 => less.left >= 1
  BY <1>1, <1>2
<1> QED BY <1>1, <1>2, <1>6, <1>7

(* Types; the sockets' buffers never hold more than fits. *)
LEMMA FlowTypeStep == ASSUME FlowInv, Next PROVE TypeOK'
<1> USE DEF FlowInv, TypeOK, CmdInv, Idle, Cmd, Out, console, epoll, client
<1>1. CASE MAsk
  BY <1>1 DEF MAsk
<1>2. CASE MLock
  <2>1. L!First(heap, clilist) \in Client \cup {clilist}
    BY ListWalk DEF L!First, L!Succ, Members
  <2>2. pos' \in Client \cup {clilist} /\ lock' = "console" /\ mpc' = "record"
        /\ UNCHANGED <<heap, ncmd, epoll, client, wrote>>
    BY <1>2, <2>1 DEF MLock
  <2> QED BY <2>2
<1>3. CASE MRecord
  <2>1. pos \in Client /\ Cmd(ncmd) \in [kind : {"cmd", "out"}, cmd : 1..MaxCmd]
    BY <1>3 DEF MRecord
  <2>2. wrote' = [wrote EXCEPT ![pos] = @ \cup {Cmd(ncmd)}] /\ mpc' = "write"
        /\ UNCHANGED <<heap, lock, pos, ncmd, epoll, client>>
    BY <1>3 DEF MRecord
  <2> HIDE DEF Cmd
  <2>3. wrote' \in [Client -> SUBSET [kind : {"cmd", "out"}, cmd : 1..MaxCmd]]
    BY <2>1, <2>2
  <2> QED BY <1>3, <2>2, <2>3 DEF MRecord
<1>4. CASE MWrite
  <2>1. pos \in Client /\ pos \in Members \cup {clilist} /\ ncmd \in 1..MaxCmd
    BY <1>4 DEF MWrite, OnList, TraceInv
  <2>2. L!Succ(heap, pos) \in Client \cup {clilist}
    BY <2>1, ListWalk DEF Members
  <2>3. /\ down' = down \/ (Len(down[pos]) < Cap /\ down' = [down EXCEPT ![pos] = Append(@, ncmd)])
        /\ pos' = L!Succ(heap, pos) /\ mpc' = "record" /\ lock = "console"
        /\ UNCHANGED <<heap, lock, ncmd, epoll, net, up, run, wrote>>
    BY <1>4 DEF MWrite
  <2>4. down' \in [Client -> Seq(1..MaxCmd)] /\ \A c \in Client : Len(down'[c]) <= Cap
    <3>1. CASE down' = down
      BY <3>1
    <3>2. CASE Len(down[pos]) < Cap /\ down' = [down EXCEPT ![pos] = Append(@, ncmd)]
      <4>1. Append(down[pos], ncmd) \in Seq(1..MaxCmd) /\ Len(Append(down[pos], ncmd)) <= Cap
        BY <2>1, <3>2, Appended, EmptyQueue
      <4> QED BY <2>1, <3>2, <4>1, QueueSet
    <3> QED BY <2>3, <3>1, <3>2
  <2> QED BY <2>2, <2>3, <2>4
<1>5. CASE MUnlock
  BY <1>5 DEF MUnlock
<1>6. CASE EWait
  <2>1. ev' \subseteq Client \X BOOLEAN
    BY <1>6 DEF EWait, Members
  <2>2. UNCHANGED <<heap, lock, mpc, pos, ncmd, epc, ecli, erec, net, down, up, run, wrote>>
    BY <1>6 DEF EWait
  <2> QED BY <2>1, <2>2
<1>7. ASSUME NEW c \in Client, ERead(c) PROVE TypeOK'
  <2>1. ev' \subseteq Client \X BOOLEAN /\ ecli' = c /\ epc' \in {"log", "free"}
        /\ UNCHANGED <<heap, lock, mpc, pos, ncmd, net, down, run, wrote>>
    BY <1>7 DEF ERead
  <2>2. CASE up[c] # <<>>
    <3>1. erec' = Head(up[c]) /\ up' = [up EXCEPT ![c] = Tail(@)]
      BY <1>7, <2>2 DEF ERead
    <3>2. /\ up[c] \in Seq(1..MaxCmd) /\ Tail(up[c]) \in Seq(1..MaxCmd)
          /\ Head(up[c]) \in 1..MaxCmd /\ Len(Tail(up[c])) <= Cap
      <4>1. up[c] \in Seq(1..MaxCmd) /\ Len(up[c]) <= Cap /\ Len(up[c]) \in Nat
        OBVIOUS
      <4>2. /\ Tail(up[c]) \in Seq(1..MaxCmd) /\ Head(up[c]) \in 1..MaxCmd
            /\ Len(Tail(up[c])) = Len(up[c]) - 1
        BY <2>2, <4>1, HeadTail
      <4> QED BY <4>1, <4>2
    <3>3. up' \in [Client -> Seq(1..MaxCmd)] /\ \A d \in Client : Len(up'[d]) <= Cap
      BY <3>1, <3>2, QueueSet
    <3>4. erec' \in 0..MaxCmd
      BY <3>1, <3>2
    <3> QED BY <2>1, <3>3, <3>4
  <2>3. CASE up[c] = <<>>
    <3>1. UNCHANGED <<erec, up>>
      BY <1>7, <2>3 DEF ERead
    <3> QED BY <2>1, <3>1
  <2> QED BY <2>2, <2>3
<1>8. CASE ELog
  BY <1>8 DEF ELog
<1>9. ASSUME NEW c \in Client, EHangUp(c) PROVE TypeOK'
  BY <1>9 DEF EHangUp
<1>10. CASE EFree
  <2>1. heap' \in L!Heap
    BY <1>10, FreeTakesOne DEF EFree, EventInv
  <2>2. /\ up' = [up EXCEPT ![ecli] = <<>>] /\ epc' = "wait" /\ ecli' = Nil
        /\ UNCHANGED <<lock, mpc, pos, ncmd, ev, erec, net, down, run, wrote>>
    BY <1>10 DEF EFree
  <2>3. up' \in [Client -> Seq(1..MaxCmd)] /\ \A c \in Client : Len(up'[c]) <= Cap
    <3>1. ecli \in Client
      BY <1>10 DEF EFree, EventInv, Members
    <3> QED BY <2>2, <3>1, EmptyQueue, QueueSet
  <2> QED BY <2>1, <2>2, <2>3
<1>11. ASSUME NEW c \in Client, NEW n \in 1..MaxOut, CRead(c, n) PROVE TypeOK'
  <2>1. /\ down[c] # <<>> /\ down' = [down EXCEPT ![c] = Tail(@)]
        /\ run' = [run EXCEPT ![c] = [cmd |-> Head(down[c]), left |-> n]]
        /\ UNCHANGED <<heap, lock, mpc, pos, ncmd, epc, ev, ecli, erec, net, up, wrote>>
    BY <1>11 DEF CRead
  <2>2. /\ down[c] \in Seq(1..MaxCmd) /\ Len(down[c]) <= Cap /\ Len(down[c]) \in Nat
    OBVIOUS
  <2>3. /\ Head(down[c]) \in 1..MaxCmd /\ Tail(down[c]) \in Seq(1..MaxCmd)
        /\ Len(Tail(down[c])) <= Cap
    <3> HIDE DEF FlowInv, TypeOK, CmdInv
    <3>1. /\ Head(down[c]) \in 1..MaxCmd /\ Tail(down[c]) \in Seq(1..MaxCmd)
          /\ Len(Tail(down[c])) = Len(down[c]) - 1
      BY <2>1, <2>2, HeadTail
    <3> QED BY <2>2, <3>1
  <2>4. down' \in [Client -> Seq(1..MaxCmd)] /\ \A d \in Client : Len(down'[d]) <= Cap
    BY <2>1, <2>3, QueueSet
  <2>5. [cmd |-> Head(down[c]), left |-> n] \in [cmd : 0..MaxCmd, left : 0..MaxOut]
    BY <2>3
  <2>6. run' \in [Client -> [cmd : 0..MaxCmd, left : 0..MaxOut]]
    BY <2>1, <2>5
  <2> QED BY <2>1, <2>4, <2>6
<1>12. ASSUME NEW c \in Client, CWrite(c) PROVE TypeOK'
  <2>1. /\ run[c] \in [cmd : 1..MaxCmd, left : 1..MaxOut] /\ Len(up[c]) < Cap
        /\ up' = [up EXCEPT ![c] = Append(@, run[c].cmd)]
        /\ UNCHANGED <<heap, lock, mpc, pos, ncmd, epc, ev, ecli, erec, net, down, wrote>>
    BY <1>12 DEF CWrite
  <2>2. up' \in [Client -> Seq(1..MaxCmd)] /\ \A d \in Client : Len(up'[d]) <= Cap
    BY <2>1, Appended
  <2>3. run' \in [Client -> [cmd : 0..MaxCmd, left : 0..MaxOut]]
    BY <1>12, WriteRuns
  <2> QED BY <2>1, <2>2, <2>3
<1>13. ASSUME NEW c \in Client, CEnds(c) PROVE TypeOK'
  <2>1. /\ net' = [net EXCEPT ![c] = "gone"] /\ run' = [run EXCEPT ![c] = Idle]
        /\ down' = [down EXCEPT ![c] = <<>>]
        /\ UNCHANGED <<heap, lock, mpc, pos, ncmd, epc, ev, ecli, erec, wrote>>
    BY <1>13 DEF CEnds
  <2>2. up' = up \/ up' = [up EXCEPT ![c] = <<>>]
    BY <1>13 DEF CEnds
  <2>3. up' \in [Client -> Seq(1..MaxCmd)] /\ \A d \in Client : Len(up'[d]) <= Cap
    <3>1. CASE up' = up
      BY <3>1
    <3>2. CASE up' = [up EXCEPT ![c] = <<>>]
      BY <3>2, EmptyQueue, QueueSet
    <3> QED BY <2>2, <3>1, <3>2
  <2>4. down' \in [Client -> Seq(1..MaxCmd)] /\ \A d \in Client : Len(down'[d]) <= Cap
    BY <2>1
  <2>5. run' \in [Client -> [cmd : 0..MaxCmd, left : 0..MaxOut]]
        /\ net' \in [Client -> {"up", "gone"}]
    <3>1. run \in [Client -> [cmd : 0..MaxCmd, left : 0..MaxOut]]
          /\ net \in [Client -> {"up", "gone"}] /\ Idle \in [cmd : 0..MaxCmd, left : 0..MaxOut]
      OBVIOUS
    <3> HIDE DEF FlowInv, TypeOK, CmdInv, Idle
    <3> QED BY <2>1, <3>1
  <2>6. UNCHANGED <<heap, lock, mpc, pos, ncmd, epc, ev, ecli, erec, wrote>>
    BY <2>1
  <2> QED BY <2>3, <2>4, <2>5, <2>6
<1>14. CASE ELogFails
  BY <1>14, EmptyQueue DEF ELogFails
<1> QED BY <1>1, <1>2, <1>3, <1>4, <1>5, <1>6, <1>7,
       <1>8, <1>9, <1>10, <1>11, <1>12, <1>13, <1>14
       DEF Next, MStep, EStep, CStep

(* Steps that leave the pointers alone leave the list as it is. *)
LEMMA SameList ==
  ASSUME OnList, heap' = heap
  PROVE  /\ Members' = Members
         /\ \E s \in SeqOf(Client, Cardinality(Client)) :
              L!IsList(heap', clilist, s) /\ Range(s) = Members'
BY DEF OnList, Members

(* The list, and the walk on it. *)
LEMMA OnListStep == ASSUME FlowInv, Next PROVE OnList'
<1>1. CASE MLock
  <2>1. L!First(heap, clilist) \in Members \cup {clilist}
    BY ListWalk DEF FlowInv, L!First, L!Succ
  <2>2. heap' = heap /\ pos' = L!First(heap, clilist)
    BY <1>1 DEF MLock
  <2> QED BY <2>1, <2>2, SameList DEF FlowInv, OnList
<1>2. CASE MWrite
  <2>1. pos \in Members \cup {clilist}
    BY <1>2 DEF MWrite, FlowInv, OnList
  <2>2. L!Succ(heap, pos) \in Members \cup {clilist}
    BY <2>1, ListWalk DEF FlowInv
  <2>3. heap' = heap /\ pos' = L!Succ(heap, pos)
    BY <1>2 DEF MWrite
  <2> QED BY <2>2, <2>3, SameList DEF FlowInv, OnList
<1>3. CASE EFree
  <2>1. \E s \in SeqOf(Client, Cardinality(Client)) :
          L!IsList(heap', clilist, s) /\ Range(s) = Members'
    BY <1>3, FreeTakesOne DEF EFree, EventInv, TypeOK, FlowInv
  <2>2. mpc' \notin {"record", "write"}
    BY <1>3 DEF EFree, TypeOK, FlowInv, console
  <2> QED BY <2>1, <2>2 DEF OnList
<1>4. CASE heap' = heap /\ (mpc' \in {"record", "write"} => pos' = pos /\ mpc \in {"record", "write"})
  BY <1>4, SameList DEF FlowInv, OnList
<1>5. \/ MLock \/ MWrite \/ EFree
      \/ heap' = heap /\ (mpc' \in {"record", "write"} => pos' = pos /\ mpc \in {"record", "write"})
  BY DEF Next, MStep, EStep, CStep, MAsk, MRecord, MUnlock, EWait, ERead, ELog, ELogFails,
     EHangUp, CRead, CWrite, CEnds, console, epoll, client
<1> QED BY <1>1, <1>2, <1>3, <1>4, <1>5

(* The commands under way. *)
LEMMA CmdStep == ASSUME FlowInv, Next PROVE CmdInv'
<1> USE DEF FlowInv, TypeOK, CmdInv, Idle, console, epoll, client
<1>1. CASE MAsk
  BY <1>1 DEF MAsk
<1>2. CASE MLock
  BY <1>2 DEF MLock
<1>3. CASE MRecord
  BY <1>3 DEF MRecord
<1>4. CASE MWrite
  BY <1>4 DEF MWrite
<1>5. CASE MUnlock
  BY <1>5 DEF MUnlock
<1>6. CASE EWait
  BY <1>6 DEF EWait
<1>7. ASSUME NEW c \in Client, ERead(c) PROVE CmdInv'
  <2>1. CASE up[c] # <<>>
    <3>1. erec' = Head(up[c]) /\ ecli' = c /\ UNCHANGED <<mpc, ncmd, run>>
      BY <1>7, <2>1 DEF ERead
    <3>2. Head(up[c]) \in 1..MaxCmd
      BY <2>1, HeadTail
    <3> QED BY <3>1, <3>2
  <2>2. CASE up[c] = <<>>
    BY <1>7, <2>2 DEF ERead
  <2> QED BY <2>1, <2>2
<1>8. CASE ELog
  BY <1>8 DEF ELog
<1>9. ASSUME NEW c \in Client, EHangUp(c) PROVE CmdInv'
  BY <1>9 DEF EHangUp
<1>10. CASE EFree
  BY <1>10 DEF EFree
<1>11. ASSUME NEW c \in Client, NEW n \in 1..MaxOut, CRead(c, n) PROVE CmdInv'
  <2>1. /\ down[c] # <<>> /\ run' = [run EXCEPT ![c] = [cmd |-> Head(down[c]), left |-> n]]
        /\ UNCHANGED <<mpc, ncmd, epc, ecli, erec>>
    BY <1>11 DEF CRead
  <2>2. Head(down[c]) \in 1..MaxCmd
    BY <2>1, HeadTail
  <2>3. /\ run'[c].cmd >= 1 /\ run'[c].left >= 1
        /\ \A d \in Client : d # c => run'[d] = run[d]
    BY <2>1, <2>2
  <2> QED BY <2>1, <2>3
<1>12. ASSUME NEW c \in Client, CWrite(c) PROVE CmdInv'
  <2>1. UNCHANGED <<mpc, ncmd, epc, ecli, erec>>
    BY <1>12 DEF CWrite
  <2>2. /\ run[c].cmd >= 1 /\ \A d \in Client : d # c => run'[d] = run[d]
        /\ run'[c] = Idle \/ (run'[c].cmd = run[c].cmd /\ run'[c].left >= 1)
    <3> HIDE DEF TypeOK, CmdInv, Idle
    <3>1. /\ run[c] \in [cmd : 1..MaxCmd, left : 1..MaxOut]
          /\ \A d \in Client : d # c => run'[d] = run[d]
          /\ run'[c] = Idle \/ (run'[c].cmd = run[c].cmd /\ run'[c].left >= 1)
      BY <1>12, WriteRuns
    <3> QED BY <3>1
  <2> HIDE DEF Idle
  <2>3. \A d \in Client : run'[d] # Idle => run'[d].cmd >= 1 /\ run'[d].left >= 1
    BY <2>2
  <2> QED BY <2>1, <2>3
<1>13. ASSUME NEW c \in Client, CEnds(c) PROVE CmdInv'
  BY <1>13 DEF CEnds
<1>14. CASE ELogFails
  BY <1>14, EmptyQueue DEF ELogFails
<1> QED BY <1>1, <1>2, <1>3, <1>4, <1>5, <1>6, <1>7,
       <1>8, <1>9, <1>10, <1>11, <1>12, <1>13, <1>14
       DEF Next, MStep, EStep, CStep

(* The events: every client has one, and loses it when it is freed. *)
LEMMA EventStep == ASSUME FlowInv, Next PROVE EventInv'
<1> USE DEF FlowInv, EventInv
<1>1. CASE EWait
  <2>1. ev' = {e \in Members \X BOOLEAN :
                /\ e[2] = (net[e[1]] = "gone")
                /\ e[2] \/ up[e[1]] # <<>>}
        /\ epc' = "wait" /\ Members' = Members
    BY <1>1, SameList DEF EWait
  <2>2. ASSUME NEW e \in ev', NEW f \in ev', e[1] = f[1] PROVE e = f
    BY <2>1, <2>2
  <2>3. \A e \in ev' : e[1] \in Members
    BY <2>1
  <2> QED BY <2>1, <2>2, <2>3
<1>2. ASSUME NEW c \in Client, ERead(c) PROVE EventInv'
  <2>1. /\ <<c, FALSE>> \in ev /\ ev' = ev \ {<<c, FALSE>>} /\ ecli' = c
        /\ Members' = Members
    BY <1>2, SameList DEF ERead
  <2>2. c \in Members /\ \A e \in ev' : e[1] # c
    BY <2>1
  <2> QED BY <2>1, <2>2
<1>3. ASSUME NEW c \in Client, EHangUp(c) PROVE EventInv'
  <2>1. /\ <<c, TRUE>> \in ev /\ ev' = {} /\ ecli' = c /\ Members' = Members
    BY <1>3, SameList DEF EHangUp
  <2> QED BY <2>1
<1>4. CASE EFree
  <2>1. /\ epc = "free" /\ ev' = ev /\ epc' = "wait" /\ Members' = Members \ {ecli}
    BY <1>4, FreeTakesOne DEF EFree, TypeOK
  <2> QED BY <2>1
<1>5. CASE heap' = heap /\ ev' \subseteq ev /\ (epc' = "free" => epc = "free" /\ ecli' = ecli)
  BY <1>5, SameList
<1>6. \/ EWait \/ EFree \/ \E c \in Client : ERead(c) \/ EHangUp(c)
      \/ heap' = heap /\ ev' \subseteq ev /\ (epc' = "free" => epc = "free" /\ ecli' = ecli)
  BY DEF Next, MStep, EStep, CStep, MAsk, MLock, MRecord, MWrite, MUnlock, ELog, ELogFails,
     CRead, CWrite, CEnds, console, epoll, client
<1> QED BY <1>1, <1>2, <1>3, <1>4, <1>5, <1>6

(* The records of commands: one is made before the command is sent. *)
LEMMA TraceStep == ASSUME FlowInv, Next PROVE TraceInv'
<1> USE DEF FlowInv, TypeOK, CmdInv, TraceInv, Cmd, Out, Idle, console, epoll, client
<1>1. CASE MAsk
  BY <1>1 DEF MAsk
<1>2. CASE MLock
  BY <1>2 DEF MLock
<1>3. CASE MRecord
  BY <1>3 DEF MRecord
<1>4. CASE MWrite
  <2>1. pos \in Client /\ Cmd(ncmd) \in wrote[pos] /\ ncmd \in 1..MaxCmd
    BY <1>4 DEF MWrite
  <2>2. /\ down' = down \/ down' = [down EXCEPT ![pos] = Append(@, ncmd)]
        /\ mpc' = "record" /\ UNCHANGED <<up, run, wrote, epc, ecli, erec>>
    BY <1>4 DEF MWrite
  <2> HIDE DEF Cmd
  <2>3. ASSUME NEW c \in Client, NEW i \in 1..Len(down'[c]) PROVE Cmd(down'[c][i]) \in wrote[c]
    <3>1. CASE down' = down \/ c # pos
      BY <2>1, <2>2, <3>1
    <3>2. CASE down' # down /\ c = pos
      <4>1. down'[c] = Append(down[c], ncmd)
        BY <2>1, <2>2, <3>2
      <4>2. down'[c][i] = ncmd \/ (i \in 1..Len(down[c]) /\ down'[c][i] = down[c][i])
        <5>1. down[c] \in Seq(1..MaxCmd) /\ Len(down[c]) \in Nat
          OBVIOUS
        <5> HIDE DEF FlowInv, TypeOK, TraceInv
        <5> QED BY <2>1, <4>1, <5>1, Appended
      <4> QED BY <2>1, <3>2, <4>2
    <3> QED BY <3>1, <3>2
  <2> QED BY <2>2, <2>3
<1>5. CASE MUnlock
  BY <1>5 DEF MUnlock
<1>6. CASE EWait
  BY <1>6 DEF EWait
<1>7. ASSUME NEW c \in Client, ERead(c) PROVE TraceInv'
  <2>1. UNCHANGED <<mpc, ncmd, pos, down, run, wrote>> /\ ecli' = c
    BY <1>7 DEF ERead
  <2>2. CASE up[c] # <<>>
    <3>1. erec' = Head(up[c]) /\ up' = [up EXCEPT ![c] = Tail(@)]
      BY <1>7, <2>2 DEF ERead
    <3> HIDE DEF Cmd
    <3>2. Cmd(erec') \in wrote[c]
      BY <2>2, <3>1, HeadTail
    <3>3. ASSUME NEW d \in Client, NEW i \in 1..Len(up'[d]) PROVE Cmd(up'[d][i]) \in wrote[d]
      <4>1. CASE d = c
        <5>1. up'[d] = Tail(up[c])
          BY <3>1, <4>1
        <5>2. i + 1 \in 1..Len(up[c]) /\ up'[d][i] = up[c][i + 1]
          BY <2>2, <5>1, HeadTail
        <5> QED BY <4>1, <5>2
      <4>2. CASE d # c
        BY <3>1, <4>2
      <4> QED BY <4>1, <4>2
    <3> QED BY <2>1, <3>2, <3>3
  <2>3. CASE up[c] = <<>>
    BY <1>7, <2>1, <2>3 DEF ERead
  <2> QED BY <2>2, <2>3
<1>8. CASE ELog
  BY <1>8 DEF ELog
<1>9. ASSUME NEW c \in Client, EHangUp(c) PROVE TraceInv'
  BY <1>9 DEF EHangUp
<1>10. CASE EFree
  BY <1>10 DEF EFree
<1>11. ASSUME NEW c \in Client, NEW n \in 1..MaxOut, CRead(c, n) PROVE TraceInv'
  <2>1. /\ down[c] # <<>> /\ down' = [down EXCEPT ![c] = Tail(@)]
        /\ run' = [run EXCEPT ![c] = [cmd |-> Head(down[c]), left |-> n]]
        /\ UNCHANGED <<mpc, ncmd, pos, epc, ecli, erec, up, wrote>>
    BY <1>11 DEF CRead
  <2> HIDE DEF Cmd
  <2>2. run'[c].cmd = Head(down[c]) /\ Cmd(run'[c].cmd) \in wrote[c]
        /\ \A d \in Client : d # c => run'[d] = run[d]
    BY <2>1, HeadTail
  <2>3. ASSUME NEW d \in Client, NEW i \in 1..Len(down'[d]) PROVE Cmd(down'[d][i]) \in wrote[d]
    <3>1. CASE d = c
      <4>1. down'[d] = Tail(down[c])
        BY <2>1, <3>1
      <4>2. i + 1 \in 1..Len(down[c]) /\ down'[d][i] = down[c][i + 1]
        <5>1. down[c] \in Seq(1..MaxCmd) /\ down[c] # <<>> /\ i \in 1..Len(Tail(down[c]))
          BY <2>1, <3>1, <4>1
        <5> QED BY <4>1, <5>1, HeadTail
      <4> QED BY <3>1, <4>2
    <3>2. CASE d # c
      BY <2>1, <3>2
    <3> QED BY <3>1, <3>2
  <2> QED BY <2>1, <2>2, <2>3
<1>12. ASSUME NEW c \in Client, CWrite(c) PROVE TraceInv'
  <2>1. /\ run[c] # Idle /\ up' = [up EXCEPT ![c] = Append(@, run[c].cmd)]
        /\ UNCHANGED <<mpc, ncmd, pos, epc, ecli, erec, down, wrote>>
    BY <1>12 DEF CWrite
  <2>2. /\ run[c].cmd \in 1..MaxCmd /\ \A d \in Client : d # c => run'[d] = run[d]
        /\ run'[c] = Idle \/ run'[c].cmd = run[c].cmd
    BY <1>12, WriteRuns
  <2> HIDE DEF Cmd, Idle
  <2>3. ASSUME NEW d \in Client, NEW i \in 1..Len(up'[d]) PROVE Cmd(up'[d][i]) \in wrote[d]
    <3>1. CASE d = c
      <4>1. up'[d] = Append(up[c], run[c].cmd)
        BY <2>1, <3>1
      <4>2. up'[d][i] = run[c].cmd \/ (i \in 1..Len(up[c]) /\ up'[d][i] = up[c][i])
        <5>1. up[c] \in Seq(1..MaxCmd) /\ Len(up[c]) \in Nat
          OBVIOUS
        <5> HIDE DEF FlowInv, TypeOK, TraceInv
        <5> QED BY <2>2, <3>1, <4>1, <5>1, Appended
      <4> QED BY <2>1, <3>1, <4>2
    <3>2. CASE d # c
      BY <2>1, <3>2
    <3> QED BY <3>1, <3>2
  <2> QED BY <2>1, <2>2, <2>3
<1>13. ASSUME NEW c \in Client, CEnds(c) PROVE TraceInv'
  <2>1. /\ run' = [run EXCEPT ![c] = Idle] /\ down' = [down EXCEPT ![c] = <<>>]
        /\ up' = up \/ up' = [up EXCEPT ![c] = <<>>]
        /\ UNCHANGED <<mpc, ncmd, pos, epc, ecli, erec, wrote>>
    BY <1>13 DEF CEnds
  <2> HIDE DEF Cmd, Idle
  <2>2. ASSUME NEW d \in Client
        PROVE  /\ run'[d] = Idle \/ run'[d] = run[d]
               /\ down'[d] = <<>> \/ down'[d] = down[d]
               /\ up'[d] = <<>> \/ up'[d] = up[d]
    BY <2>1
  <2>3. 1..Len(<<>>) = {}
    OBVIOUS
  <2> QED BY <2>1, <2>2, <2>3
<1>14. CASE ELogFails
  <2>1. mpc' = "dead" /\ epc' = "dead" /\ wrote' = wrote
    BY <1>14 DEF ELogFails
  <2>2. \A c \in Client : run'[c] = Idle /\ down'[c] = <<>> /\ up'[c] = <<>>
    BY <1>14 DEF ELogFails
  <2>3. 1..Len(<<>>) = {}
    OBVIOUS
  <2> HIDE DEF Cmd, Out, Idle
  <2> QED BY <2>1, <2>2, <2>3
<1> QED BY <1>1, <1>2, <1>3, <1>4, <1>5, <1>6, <1>7,
       <1>8, <1>9, <1>10, <1>11, <1>12, <1>13, <1>14
       DEF Next, MStep, EStep, CStep

(* FlowInv is inductive. *)
LEMMA FlowInvStep == FlowInv /\ [Next]_vars => FlowInv'
<1> SUFFICES ASSUME FlowInv, [Next]_vars PROVE FlowInv'
  OBVIOUS
<1>1. CASE Next
  BY <1>1, FlowTypeStep, OnListStep, CmdStep, EventStep, TraceStep DEF FlowInv
<1>2. CASE UNCHANGED vars
  <2>1. OnList'
    BY <1>2, SameList DEF FlowInv, OnList, vars, console
  <2>2. TypeOK' /\ CmdInv' /\ EventInv' /\ TraceInv'
    BY <1>2
    DEF vars, console, epoll, client, FlowInv, TypeOK, CmdInv, EventInv, TraceInv, Members
  <2> QED BY <2>1, <2>2 DEF FlowInv
<1> QED BY <1>1, <1>2

(* In every reachable state the list is well formed, the console's walk is on
   it, and what is under way has been recorded.                            *)
THEOREM FlowInvariance == Spec => []FlowInv
<1>1. Init => FlowInv
  BY InitFlowInv
<1>2. FlowInv /\ [Next]_vars => FlowInv'
  BY FlowInvStep
<1> QED BY <1>1, <1>2, PTL DEF Spec

(* The sockets' buffers never hold more than fits, and classlock is held
   exactly while cmd_sendcmd() walks.                                      *)
THEOREM FlowTypeCorrect == Spec => []TypeOK
<1>1. FlowInv => TypeOK
  BY DEF FlowInv
<1> QED BY <1>1, FlowInvariance, PTL

(* cmd_sendcmd() never stands on a client that the epoll thread has taken off
   class->clilist, and that list holds exactly the registered clients.     *)
THEOREM WalkKeepsToList == Spec => []OnList
<1>1. FlowInv => OnList
  BY DEF FlowInv
<1> QED BY <1>1, FlowInvariance, PTL

(* The record of a command is never made after output of that command, whoever
   of the console and the epoll thread gets to the log file first.         *)
THEOREM RecordPrecedesOutput == Spec => RecordFirst
<1> DEFINE First == \A c \in Client, k \in 1..MaxCmd :
                      Cmd(k) \in wrote'[c] \ wrote[c] => Out(k) \notin wrote[c]
<1>1. FlowInv => First
  BY DEF FlowInv, TraceInv
<1> HIDE DEF First
<1>2. FlowInv /\ [Next]_vars => [First]_vars
  BY <1>1
<1>3. Spec => [][First]_vars
  BY <1>2, FlowInvariance, PTL DEF Spec
<1> QED BY <1>3 DEF First, RecordFirst

=============================================================================
