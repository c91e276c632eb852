------------------------------ MODULE BashProofs ------------------------------
(***************************************************************************)
(* Safety of the remote shell, Bash.tla, for any number of machines and    *)
(* processes and any bounds.                                               *)
(*                                                                         *)
(* That the lock of one_instance() lets one daemon at a time onto a        *)
(* machine is inductive because the processes that have the lock are in    *)
(* no set when they have ended, and a child that inherits it is no daemon  *)
(* (DaemonInv).  That the operator gets a shell at the address of the      *)
(* machine he asked for rests on what the child he accepted may do between *)
(* accept() and the end of the session (PeerInv).                          *)
(***************************************************************************)
EXTENDS Bash, FiniteSetTheorems, SequenceTheorems, WellFoundedInduction, TLAPS

(* No two daemons with the lock run on a machine; no daemon, and nobody who
   has the lock, has ended.                                                *)
DaemonInv ==
  /\ \A p, q \in daemon \cap holds : dev[p] = dev[q] => p = q
  /\ \A p \in daemon \cup holds : ppc[p] # "none"

(* The child bashfd() has accepted waits for the handshake, and then has, or is
   about to fork, the shell of the session.  From the check of its address on
   it is known to have the address of the machine that was asked.          *)
PeerInv ==
  /\ mpc \in {"check", "handshake"} => peer \in Proc /\ ppc[peer] = "handshake"
  /\ mpc = "session" /\ peer # Nil => ppc[peer] \in {"spawn", "forked", "relay", "left"}
  /\ mpc \in {"handshake", "session"} /\ peer # Nil => Addr[dev[peer]] = Addr[asked]

(* The machine asked is the one whose MAC cmd_bashto() has read from what the
   operator typed.                                                         *)
Names(d) == \E old \in Range(Mac) : macstr_to_mac(typed, old) = Mac[d]

AskedInv == asked # Nil => Names(asked)

BashInv == TypeOK /\ DaemonInv /\ PeerInv /\ AskedInv

-----------------------------------------------------------------------------
(* The texts of MACs, and what is read from them. *)

(* A set of numbers has a least element. *)
LEMMA LeastNumber ==
  ASSUME NEW T, T \subseteq Nat, T # {}
  PROVE  \E x \in T : \A y \in T : x <= y
<1> DEFINE R == OpToRel(<, Nat)
<1>1. \A x, y \in Nat : y < x => <<y, x>> \in R
  BY Zenon DEF OpToRel
<1>2. IsWellFoundedOn(R, Nat)
  BY NatLessThanWellFounded, Zenon
<1> HIDE DEF R
<1>3. PICK x \in T : \A y \in T : ~(<<y, x>> \in R)
  BY <1>2, WFMin
<1>4. \A y \in T : ~(y < x)
  BY <1>1, <1>3
<1> QED BY <1>3, <1>4

(* The text of the first n bytes of m, and where its i-th byte begins. *)
TextOf(m, n) == SubSeq(getmacstr(m), 1, 3 * n - 1)
At(i)        == 3 * i - 2

(* At p, t has the two digits of b. *)
Hex(t, p, b) == t[p] = b \div 16 /\ t[p + 1] = b % 16

(* The two digits of a byte. *)
LEMMA Digits ==
  ASSUME NEW b \in 0..255
  PROVE  b \div 16 \in 0..15 /\ b % 16 \in 0..15 /\ (16 * (b \div 16) + (b % 16)) % 256 = b
<1>1. b \div 16 \in 0..15
  OBVIOUS
<1>2. b % 16 \in 0..15 /\ 16 * (b \div 16) + (b % 16) = b
  OBVIOUS
<1>3. b \in Nat /\ b < 256
  OBVIOUS
<1>4. b % 256 = b
  BY <1>3
<1> QED BY <1>1, <1>2, <1>4

(* A byte and its colon are three characters. *)
LEMMA Threes ==
  ASSUME NEW i \in Nat \ {0}
  PROVE  /\ At(i) \in Nat \ {0} /\ At(i) % 3 = 1 /\ (At(i) + 2) \div 3 = i
         /\ (At(i) + 1) % 3 = 2 /\ (At(i) + 1 + 2) \div 3 = i
         /\ (At(i) + 2) % 3 = 0
         /\ At(i + 1) = At(i) + 3
BY DEF At

(* Which of the first n bytes a character is of. *)
LEMMA ByteOf ==
  ASSUME NEW n \in Nat \ {0}, NEW j \in 1..(3 * n - 1)
  PROVE  \E i \in 1..n : j = At(i) \/ j = At(i) + 1 \/ (i < n /\ j = At(i) + 2)
<1> DEFINE i == (j + 2) \div 3
<1>1. i \in 1..n /\ (j = 3 * i - 2 \/ j = 3 * i - 2 + 1 \/ (i < n /\ j = 3 * i - 2 + 2))
  OBVIOUS
<1> HIDE DEF i
<1> QED BY <1>1 DEF At

(* Where the characters of a byte are in a text of n. *)
LEMMA InText ==
  ASSUME NEW n \in Nat \ {0}, NEW i \in 1..n
  PROVE  /\ At(i) \in 1..(3 * n - 1) /\ At(i) + 1 \in 1..(3 * n - 1)
         /\ i < n => At(i) + 2 \in 1..(3 * n - 1)
         /\ i = n => At(i) + 2 = 3 * n
BY DEF At

(* The characters getmacstr() makes of a byte: two digits, and a colon before
   the next.                                                               *)
LEMMA MacText ==
  ASSUME ETH_ALEN \in Nat \ {0}, NEW m \in [1..ETH_ALEN -> 0..255]
  PROVE  /\ getmacstr(m) \in Seq(0..Colon) /\ Len(getmacstr(m)) = 3 * ETH_ALEN - 1
         /\ \A i \in 1..ETH_ALEN : /\ Hex(getmacstr(m), At(i), m[i])
                                   /\ i < ETH_ALEN => getmacstr(m)[At(i) + 2] = Colon
<1> DEFINE N == 3 * ETH_ALEN - 1
           ch(i) == LET byte == m[(i + 2) \div 3] IN
                    CASE i % 3 = 1 -> byte \div 16 [] i % 3 = 2 -> byte % 16 [] OTHER -> Colon
           t == getmacstr(m)
<1>1. Len(m) = ETH_ALEN /\ N \in Nat
  OBVIOUS
<1>2. t = [i \in 1..N |-> ch(i)]
  BY <1>1 DEF getmacstr
<1>3. ASSUME NEW i \in 1..N PROVE ch(i) \in 0..Colon
  <2> DEFINE b == m[(i + 2) \div 3]
  <2>1. (i + 2) \div 3 \in 1..ETH_ALEN
    OBVIOUS
  <2>2. b \in 0..255
    BY <2>1
  <2> HIDE DEF b
  <2>3. b \div 16 \in 0..16 /\ b % 16 \in 0..16 /\ Colon \in 0..Colon /\ Colon = 16
    BY <2>2, Digits DEF Colon
  <2>4. ch(i) = CASE i % 3 = 1 -> b \div 16 [] i % 3 = 2 -> b % 16 [] OTHER -> Colon
    BY DEF b
  <2> HIDE DEF ch
  <2> QED BY <2>3, <2>4
<1>4. \A j : /\ j % 3 = 1 => ch(j) = m[(j + 2) \div 3] \div 16
             /\ j % 3 = 2 => ch(j) = m[(j + 2) \div 3] % 16
             /\ j % 3 = 0 => ch(j) = Colon
  OBVIOUS
<1> HIDE DEF ch, t
<1>5. t \in Seq(0..Colon) /\ Len(t) = N
  BY <1>1, <1>2, <1>3
<1>6. ASSUME NEW i \in 1..ETH_ALEN
      PROVE  Hex(t, At(i), m[i]) /\ (i < ETH_ALEN => t[At(i) + 2] = Colon)
  <2> DEFINE p == At(i)
  <2>1. /\ p % 3 = 1 /\ (p + 2) \div 3 = i
        /\ (p + 1) % 3 = 2 /\ (p + 1 + 2) \div 3 = i
        /\ (p + 2) % 3 = 0
    <3>1. i \in Nat \ {0}
      OBVIOUS
    <3> QED BY <3>1, Threes, Zenon
  <2>2. p \in 1..N /\ p + 1 \in 1..N /\ (i < ETH_ALEN => p + 2 \in 1..N)
    BY InText
  <2> HIDE DEF p, N
  <2>3. t[p] = m[i] \div 16
    BY <1>2, <1>4, <2>1, <2>2
  <2>4. t[p + 1] = m[i] % 16
    BY <1>2, <1>4, <2>1, <2>2
  <2>5. i < ETH_ALEN => t[p + 2] = Colon
    BY <1>2, <1>4, <2>1, <2>2
  <2> QED BY <2>3, <2>4, <2>5 DEF p, Hex
<1> QED BY <1>5, <1>6 DEF t

(* The same of a text that ends after n bytes. *)
LEMMA TextFacts ==
  ASSUME ETH_ALEN \in Nat \ {0}, NEW m \in [1..ETH_ALEN -> 0..255], NEW n \in 1..ETH_ALEN
  PROVE  /\ TextOf(m, n) \in Seq(0..Colon) /\ Len(TextOf(m, n)) = 3 * n - 1
         /\ \A i \in 1..n : /\ Hex(TextOf(m, n), At(i), m[i])
                            /\ i < n => TextOf(m, n)[At(i) + 2] = Colon
<1> DEFINE t == getmacstr(m)
           k == 3 * n - 1
           u == SubSeq(t, 1, k)
<1>1. t \in Seq(0..Colon) /\ Len(t) = 3 * ETH_ALEN - 1
  BY MacText
<1>2. k \in Nat /\ k <= 3 * ETH_ALEN - 1
  OBVIOUS
<1> HIDE DEF t, k
<1>3. u \in Seq(0..Colon) /\ Len(u) = k /\ \A j \in 1..k : u[j] = t[j]
  <2>1. \A j \in 1..k : t[j] \in 0..Colon
    <3>1. \A j \in 1..k : j \in 1..Len(t)
      BY <1>1, <1>2
    <3> QED BY <1>1, <3>1, ElementOfSeq
  <2>2. k \in Int /\ 1 \in Int
    BY <1>2
  <2> HIDE DEF u
  <2>3. /\ u \in Seq(0..Colon) /\ Len(u) = IF 1 <= k THEN k - 1 + 1 ELSE 0
        /\ \A j \in 1..(k - 1 + 1) : u[j] = t[1 + j - 1]
    BY <2>1, <2>2, SubSeqProperties DEF u
  <2>4. k - 1 + 1 = k /\ \A j \in 1..k : 1 + j - 1 = j
    BY <1>2
  <2> QED BY <1>2, <2>3, <2>4
<1> HIDE DEF u
<1>4. TextOf(m, n) = u
  BY DEF TextOf, u, t, k
<1>5. ASSUME NEW i \in 1..n
      PROVE  Hex(u, At(i), m[i]) /\ (i < n => u[At(i) + 2] = Colon)
  <2>1. At(i) \in 1..k /\ At(i) + 1 \in 1..k /\ (i < n => At(i) + 2 \in 1..k)
    <3>1. n \in Nat \ {0}
      OBVIOUS
    <3> QED BY <3>1, InText, Zenon DEF k
  <2>2. i \in 1..ETH_ALEN /\ (i < n => i < ETH_ALEN)
    OBVIOUS
  <2>3. Hex(t, At(i), m[i]) /\ (i < n => t[At(i) + 2] = Colon)
    BY <2>2, MacText DEF t
  <2> QED BY <1>3, <2>1, <2>3 DEF Hex
<1> QED BY <1>3, <1>4, <1>5 DEF k

(* strtol() stops at the colon after the byte, or at the end of the text. *)
LEMMA ByteEnds ==
  ASSUME ETH_ALEN \in Nat \ {0}, NEW m \in [1..ETH_ALEN -> 0..255],
         NEW n \in 1..ETH_ALEN, NEW i \in 1..n
  PROVE  DigitsEnd(TextOf(m, n), At(i)) = At(i) + 2
<1> DEFINE s == TextOf(m, n)
           p == At(i)
           End(q) == /\ \A k \in p..(q - 1) : s[k] # Colon
                     /\ q \in 1..Len(s) => s[q] = Colon
<1>1. Hex(s, p, m[i]) /\ (i < n => s[p + 2] = Colon) /\ Len(s) = 3 * n - 1
  BY TextFacts
<1>2. /\ p \in Nat \ {0} /\ Len(s) \in Nat /\ p + 1 <= Len(s)
      /\ p + 2 <= Len(s) => i < n
      /\ i < n \/ p + 2 = Len(s) + 1
  <2>1. n \in Nat \ {0} /\ i \in Nat \ {0}
    OBVIOUS
  <2>2. /\ p \in 1..(3 * n - 1) /\ p + 1 \in 1..(3 * n - 1)
        /\ i < n => p + 2 \in 1..(3 * n - 1)
        /\ i = n => p + 2 = 3 * n
    BY <2>1, InText, Zenon
  <2>3. Len(s) = 3 * n - 1
    BY <1>1
  <2> HIDE DEF p, s
  <2> QED BY <2>2, <2>3
<1>3. m[i] \div 16 \in 0..15 /\ m[i] % 16 \in 0..15
  <2> DEFINE b == m[i]
  <2>1. b \in 0..255
    OBVIOUS
  <2> HIDE DEF b
  <2>2. b \div 16 \in 0..15 /\ b % 16 \in 0..15
    BY <2>1, Digits
  <2> QED BY <2>2 DEF b
<1> HIDE DEF s, p
<1>4. s[p] \in 0..15 /\ s[p + 1] \in 0..15
  BY <1>1, <1>3 DEF Hex
<1>5. s[p] # Colon /\ s[p + 1] # Colon
  <2>1. \A d \in 0..15 : d # Colon
    BY DEF Colon
  <2> QED BY <1>4, <2>1
<1>6. p + 2 \in p..(Len(s) + 1) /\ End(p + 2)
  <2>1. \A k \in p..(p + 1) : k = p \/ k = p + 1
    BY <1>2
  <2> QED BY <1>1, <1>2, <1>5, <2>1
<1>7. ASSUME NEW q \in p..(Len(s) + 1), End(q) PROVE q = p + 2
  <2>1. q # p /\ q # p + 1
    BY <1>2, <1>5, <1>7
  <2>2. ~(q > p + 2)
    <3>1. SUFFICES ASSUME q > p + 2 PROVE FALSE
      OBVIOUS
    <3>2. p + 2 \in p..(q - 1) /\ p + 2 <= Len(s)
      BY <1>2, <3>1
    <3> QED BY <1>1, <1>2, <1>7, <3>2
  <2> QED BY <1>2, <2>1, <2>2
<1> HIDE DEF End
<1>8. DigitsEnd(s, p) = CHOOSE q \in p..(Len(s) + 1) : End(q)
  BY DEF DigitsEnd, End
<1>9. DigitsEnd(s, p) = p + 2
  BY <1>6, <1>7, <1>8
<1> QED BY <1>9 DEF s, p

(* strtol() reads the two digits as the byte they were made of. *)
LEMMA ByteRead ==
  ASSUME ETH_ALEN \in Nat \ {0}, NEW m \in [1..ETH_ALEN -> 0..255],
         NEW n \in 1..ETH_ALEN, NEW i \in 1..n
  PROVE  strtol(TextOf(m, n), At(i)) % 256 = m[i]
<1> DEFINE s == TextOf(m, n)
           p == At(i)
           D == (p - 1)..(p + 1)
           val(f) == [q \in D |-> IF q < p THEN 0 ELSE 16 * f[q - 1] + s[q]]
           b == m[i]
           hi == b \div 16
           lo == b % 16
           f0 == CHOOSE f : f = val(f)
           g == [q \in D |-> IF q < p THEN 0 ELSE IF q = p THEN hi ELSE 16 * hi + lo]
<1>1. DigitsEnd(s, p) = p + 2 /\ p \in Nat
  <2>1. i \in Nat \ {0}
    OBVIOUS
  <2>2. p \in Nat \ {0}
    BY <2>1, Threes, Zenon
  <2>3. DigitsEnd(s, p) = p + 2
    BY ByteEnds
  <2> HIDE DEF s, p
  <2> QED BY <2>2, <2>3
<1>2. b \in 0..255
  OBVIOUS
<1>3. s[p] = hi /\ s[p + 1] = lo
  <2>1. Hex(s, p, b)
    BY TextFacts
  <2> HIDE DEF s, p, b
  <2> QED BY <2>1 DEF Hex
<1> HIDE DEF s, p, b
<1>4. strtol(s, p) = f0[p + 1]
  <2>1. DigitsEnd(s, p) - 1 = p + 1
    BY <1>1
  <2> QED BY <2>1 DEF strtol
<1>5. hi \in 0..15 /\ lo \in 0..15 /\ (16 * hi + lo) % 256 = b
  BY <1>2, Digits
<1> HIDE DEF hi, lo
<1>6. \A q \in D : q = p - 1 \/ q = p \/ q = p + 1
  BY <1>1
<1>7. g = val(g)
  <2>1. ASSUME NEW q \in D PROVE g[q] = val(g)[q]
    <3>1. p - 1 \in D /\ p \in D
      BY <1>1
    <3>2. g[p - 1] = 0 /\ g[p] = hi
      BY <1>1, <3>1
    <3>3. g[q] = IF q < p THEN 0 ELSE IF q = p THEN hi ELSE 16 * hi + lo
      OBVIOUS
    <3>4. val(g)[q] = IF q < p THEN 0 ELSE 16 * g[q - 1] + s[q]
      OBVIOUS
    <3>5. q = p - 1 \/ q = p \/ q = p + 1
      BY <1>6
    <3>6. (p + 1) - 1 = p /\ 16 * 0 + hi = hi
      BY <1>1, <1>5
    <3> HIDE DEF g, val, D
    <3> QED BY <1>1, <1>3, <1>5, <3>2, <3>3, <3>4, <3>5, <3>6
  <2> QED BY <2>1
<1>8. f0 = val(f0)
  <2> HIDE DEF g, val
  <2> QED BY <1>7
<1> HIDE DEF f0
<1>9. f0[p - 1] = 0 /\ f0[p] = 16 * f0[p - 1] + s[p] /\ f0[p + 1] = 16 * f0[p] + s[p + 1]
  BY <1>1, <1>8
<1>10. f0[p + 1] = 16 * hi + lo
  BY <1>3, <1>5, <1>9
<1> QED BY <1>4, <1>5, <1>10 DEF s, p, b

(* The loop of macstr_to_mac() is at the characters of each byte that was
   typed, one after the other.                                             *)
LEMMA ByteBegins ==
  ASSUME ETH_ALEN \in Nat \ {0}, NEW m \in [1..ETH_ALEN -> 0..255],
         NEW n \in 1..ETH_ALEN, NEW i \in 1..n
  PROVE  Macstr(TextOf(m, n))[i - 1] = At(i)
<1> DEFINE s == TextOf(m, n)
           D == 0..(ETH_ALEN - 1)
           E(x) == DigitsEnd(s, x)
           at(f) == [j \in D |->
                      IF j = 0 THEN 1
                      ELSE IF f[j - 1] = 0 THEN 0
                      ELSE IF E(f[j - 1]) > Len(s) THEN 0 ELSE E(f[j - 1]) + 1]
           f0 == CHOOSE f : f = at(f)
           g == [j \in D |-> IF j < n THEN At(j + 1) ELSE 0]
<1>1. Macstr(s) = f0
  BY DEF Macstr
<1>2. ASSUME NEW j \in 1..n
      PROVE  /\ At(j) \in Nat \ {0} /\ E(At(j)) = At(j) + 2 /\ E(At(j)) + 1 = At(j + 1)
             /\ E(At(j)) > Len(s) <=> j = n
  <2>1. At(j) \in Nat \ {0} /\ At(j + 1) = At(j) + 3
    <3>1. j \in Nat \ {0}
      OBVIOUS
    <3> QED BY <3>1, Threes, Zenon
  <2>2. E(At(j)) = At(j) + 2
    BY ByteEnds
  <2>3. Len(s) = 3 * n - 1
    BY TextFacts
  <2>4. (j < n => At(j) + 2 \in 1..(3 * n - 1)) /\ (j = n => At(j) + 2 = 3 * n)
    BY InText
  <2> HIDE DEF E, s
  <2> QED BY <2>1, <2>2, <2>3, <2>4
<1>3. At(1) = 1
  BY DEF At
<1> HIDE DEF s, E
<1>4. g = at(g)
  <2>1. ASSUME NEW j \in D PROVE g[j] = at(g)[j]
    <3>1. CASE j = 0
      BY <1>3, <3>1
    <3>2. CASE j # 0 /\ j - 1 < n
      <4>1. j \in 1..n /\ j - 1 \in D /\ g[j - 1] = At(j)
        BY <3>2
      <4>2. g[j] = IF j < n THEN At(j + 1) ELSE 0
        OBVIOUS
      <4>3. at(g)[j] = IF g[j - 1] = 0 THEN 0
                       ELSE IF E(g[j - 1]) > Len(s) THEN 0 ELSE E(g[j - 1]) + 1
        BY <3>2
      <4> HIDE DEF g, at
      <4> QED BY <1>2, <4>1, <4>2, <4>3
    <3>3. CASE j # 0 /\ ~(j - 1 < n)
      <4>1. j - 1 \in D /\ g[j - 1] = 0 /\ g[j] = 0
        BY <3>3
      <4> HIDE DEF g
      <4> QED BY <3>3, <4>1
    <3> QED BY <3>1, <3>2, <3>3
  <2> QED BY <2>1
<1>5. f0 = at(f0)
  <2> HIDE DEF g, at
  <2> QED BY <1>4
<1> HIDE DEF f0
<1> DEFINE T == {j \in 0..(n - 1) : f0[j] # At(j + 1)}
<1>6. T = {}
  <2>1. SUFFICES ASSUME T # {} PROVE FALSE
    OBVIOUS
  <2>2. PICK j \in T : \A k \in T : j <= k
    <3>1. T \subseteq Nat
      OBVIOUS
    <3> HIDE DEF T
    <3> QED BY <2>1, <3>1, LeastNumber
  <2>3. j \in D /\ j # 0 /\ j \in 1..n /\ j < n
    BY <1>3, <1>5, <2>2
  <2>4. j - 1 \in 0..(n - 1) /\ j - 1 \notin T
    BY <2>2, <2>3
  <2>5. f0[j - 1] = At(j)
    BY <2>4
  <2>6. f0[j] = IF f0[j - 1] = 0 THEN 0
                ELSE IF E(f0[j - 1]) > Len(s) THEN 0 ELSE E(f0[j - 1]) + 1
    BY <1>5, <2>3
  <2>7. f0[j] = At(j + 1)
    <3> HIDE DEF T, at
    <3> QED BY <1>2, <2>3, <2>5, <2>6
  <2> QED BY <2>2, <2>7
<1>7. i - 1 \in 0..(n - 1) /\ (i - 1) + 1 = i
  OBVIOUS
<1>8. f0[i - 1] = At(i)
  BY <1>6, <1>7
<1> QED BY <1>1, <1>8 DEF s

(* What macstr_to_mac() reads begins with the bytes that were typed, whatever
   was in the memory it writes to.                                         *)
LEMMA TypedBytes ==
  ASSUME ETH_ALEN \in Nat \ {0}, NEW m \in [1..ETH_ALEN -> 0..255],
         NEW n \in 1..ETH_ALEN, NEW i \in 1..n, NEW old
  PROVE  macstr_to_mac(TextOf(m, n), old)[i] = m[i]
<1> DEFINE s == TextOf(m, n)
           k == Macstr(s)[i - 1]
<1>1. i \in 1..ETH_ALEN /\ At(i) # 0
  <2>1. i \in Nat \ {0} /\ i \in 1..ETH_ALEN
    OBVIOUS
  <2>2. At(i) \in Nat \ {0}
    BY <2>1, Threes, Zenon
  <2> QED BY <2>1, <2>2
<1>2. k = At(i)
  BY ByteBegins
<1>3. strtol(s, At(i)) % 256 = m[i]
  BY ByteRead
<1> HIDE DEF s
<1>4. macstr_to_mac(s, old)[i] = IF k = 0 THEN old[i] ELSE strtol(s, k) % 256
  BY <1>1 DEF macstr_to_mac
<1> HIDE DEF k
<1> QED BY <1>1, <1>2, <1>3, <1>4 DEF s

(* Machines whose first n bytes agree have the same text for them. *)
LEMMA SameText ==
  ASSUME ETH_ALEN \in Nat \ {0}, NEW m \in [1..ETH_ALEN -> 0..255],
         NEW mm \in [1..ETH_ALEN -> 0..255], NEW n \in 1..ETH_ALEN,
         \A i \in 1..n : mm[i] = m[i]
  PROVE  IsPrefix(TextOf(m, n), getmacstr(mm))
<1> DEFINE k == 3 * n - 1
           s == TextOf(m, n)
           t == TextOf(mm, n)
<1>1. /\ s \in Seq(0..Colon) /\ Len(s) = k
      /\ \A i \in 1..n : Hex(s, At(i), m[i]) /\ (i < n => s[At(i) + 2] = Colon)
  BY TextFacts
<1>2. /\ t \in Seq(0..Colon) /\ Len(t) = k
      /\ \A i \in 1..n : Hex(t, At(i), mm[i]) /\ (i < n => t[At(i) + 2] = Colon)
  BY TextFacts
<1>3. Len(getmacstr(mm)) = 3 * ETH_ALEN - 1 /\ k <= 3 * ETH_ALEN - 1 /\ k \in Nat
  BY MacText
<1>4. t = SubSeq(getmacstr(mm), 1, k)
  BY DEF TextOf
<1>5. \A j \in 1..k : \E i \in 1..n : j = At(i) \/ j = At(i) + 1 \/ (i < n /\ j = At(i) + 2)
  <2>1. n \in Nat \ {0}
    OBVIOUS
  <2> QED BY <2>1, ByteOf, Zenon
<1> HIDE DEF s, t, k
<1>6. ASSUME NEW j \in 1..k PROVE s[j] = t[j]
  <2>1. PICK i \in 1..n : j = At(i) \/ j = At(i) + 1 \/ (i < n /\ j = At(i) + 2)
    BY <1>5
  <2>2. Hex(s, At(i), m[i]) /\ Hex(t, At(i), m[i])
    BY <1>1, <1>2
  <2>3. i < n => s[At(i) + 2] = t[At(i) + 2]
    BY <1>1, <1>2
  <2> QED BY <2>1, <2>2, <2>3 DEF Hex
<1>7. SubSeq(s, 1, k) = s
  BY <1>1, <1>3
<1>8. s = t
  BY <1>1, <1>2, <1>6
<1> QED BY <1>1, <1>3, <1>4, <1>7, <1>8 DEF IsPrefix, s

-----------------------------------------------------------------------------
(* The invariant. *)

USE BashAssumption

(* fork() finds a process when one is free. *)
LEMMA FreshIsFree ==
  ASSUME Free # {}
  PROVE  Fresh \in Proc /\ ppc[Fresh] = "none"
BY Zenon DEF Free, Fresh

(* What the operator types is no empty text. *)
LEMMA TypedNotEmpty == <<>> \notin Typed
<1> DEFINE text(d, n) == SubSeq(getmacstr(Mac[d]), 1, 3 * n - 1)
<1>1. ASSUME NEW d \in Device, NEW n \in 1..ETH_ALEN PROVE text(d, n) # <<>>
  <2> DEFINE t == getmacstr(Mac[d])
             k == 3 * n - 1
             u == SubSeq(t, 1, k)
             S == {t[i] : i \in 1..k}
  <2>1. k \in Int /\ 1 <= k
    OBVIOUS
  <2>2. \A i \in 1..k : t[i] \in S
    OBVIOUS
  <2> HIDE DEF t, k, S
  <2>3. Len(u) = IF 1 <= k THEN k - 1 + 1 ELSE 0
    BY <2>1, <2>2, SubSeqProperties
  <2> HIDE DEF u
  <2>4. Len(<<>>) = 0
    OBVIOUS
  <2>5. u # <<>>
    BY <2>1, <2>3, <2>4
  <2> QED BY <2>5 DEF u, t, k
<1>2. Typed = {text(d, n) : d \in Device, n \in 1..ETH_ALEN}
  BY DEF Typed
<1> HIDE DEF text
<1> QED BY <1>1, <1>2

(* rctlcli runs once on each machine. *)
LEMMA InitialProcesses ==
  ASSUME Init
  PROVE  /\ dev \in [Proc -> Device \cup {Nil}]
         /\ \A d \in Device : \E p \in Proc : \A q \in Proc : dev[q] = d <=> q = p
<1> DEFINE Once(f) == \A d \in Device : \E p \in Proc : \A q \in Proc : f[q] = d <=> q = p
<1>1. PICK g \in [Device -> Proc] : IsInjective(g)
  OBVIOUS
<1> DEFINE h == [p \in Proc |-> IF \E d \in Device : g[d] = p
                                 THEN CHOOSE d \in Device : g[d] = p ELSE Nil]
<1>2. h \in [Proc -> Device \cup {Nil}]
  OBVIOUS
<1>3. ASSUME NEW d \in Device PROVE \A q \in Proc : h[q] = d <=> q = g[d]
  BY <1>1, <1>3 DEF IsInjective
<1>4. Once(h)
  BY <1>1, <1>3
<1> HIDE DEF h
<1>5. dev = CHOOSE f \in [Proc -> Device \cup {Nil}] : Once(f)
  BY DEF Init
<1> HIDE DEF Once
<1>6. dev \in [Proc -> Device \cup {Nil}] /\ Once(dev)
  BY <1>2, <1>4, <1>5
<1> QED BY <1>6 DEF Once

(* The invariant holds when the server and the clients start. *)
LEMMA InitBashInv == Init => BashInv
<1> SUFFICES ASSUME Init PROVE BashInv
  OBVIOUS
<1>1. TypeOK
  <2>1. /\ dev \in [Proc -> Device \cup {Nil}] /\ \A p \in Proc : dev[p] = Nil <=> ppc[p] = "none"
        /\ ppc \in [Proc -> {"none", "loop"}] /\ shell = [p \in Proc |-> "none"]
    BY InitialProcesses DEF Init
  <2>2. daemon \subseteq Proc /\ holds \subseteq Proc /\ unread \in [Device -> 0..MaxAsk] /\ faults \in 0..MaxFault
    BY DEF Init
  <2>3. /\ mpc = "menu" /\ asked = Nil /\ peer = Nil /\ typed = <<>> /\ listening = FALSE
        /\ paused = Device
    BY DEF Init
  <2>4. ppc \in [Proc -> {"none", "init", "loop", "child", "queued", "handshake", "reset",
                          "spawn", "forked", "relay", "left"}]
    BY <2>1
  <2>5. \A p \in Proc : shell[p] = "none" /\ ppc[p] \in {"none", "loop"}
    BY <2>1
  <2>6. shell \in [Proc -> {"none", "new", "tty", "ended", "failed"}]
    BY <2>1
  <2> HIDE DEF Init
  <2> QED BY <2>1, <2>2, <2>3, <2>4, <2>5, <2>6 DEF TypeOK
<1>2. DaemonInv
  <2>1. ASSUME NEW p \in daemon \cap holds, NEW q \in daemon \cap holds, dev[p] = dev[q]
        PROVE  p = q
    <3>1. p \in Proc /\ q \in Proc /\ dev[p] \in Device
      BY InitialProcesses DEF Init
    <3> QED BY <2>1, <3>1, InitialProcesses
  <2> QED BY <2>1 DEF Init, DaemonInv
<1>3. PeerInv
  BY DEF Init, PeerInv
<1>4. AskedInv
  BY DEF Init, AskedInv
<1> QED BY <1>1, <1>2, <1>3, <1>4 DEF BashInv

(* What a process ends with: its place in the tables. *)
LEMMA GoneFacts ==
  ASSUME TypeOK, Gone, NEW P, ppc' \in [Proc -> P],
         \A p \in Proc : ppc[p] = "none" => ppc'[p] = "none",
         \A p \in Proc : ppc'[p] # "none" =>
           (ppc[p] \in {"forked", "relay", "left"} <=> ppc'[p] \in {"forked", "relay", "left"})
  PROVE  /\ dev' \in [Proc -> Device \cup {Nil}]
         /\ \A p \in Proc : dev'[p] = Nil <=> ppc'[p] = "none"
         /\ shell' \in [Proc -> {"none", "new", "tty", "ended", "failed"}]
         /\ \A p \in Proc : shell'[p] # "none" <=> ppc'[p] \in {"forked", "relay", "left"}
         /\ daemon' \subseteq Proc /\ holds' \subseteq Proc
<1>1. \A p \in Proc : /\ dev'[p] = IF ppc'[p] = "none" THEN Nil ELSE dev[p]
                      /\ shell'[p] = IF ppc'[p] = "none" THEN "none" ELSE shell[p]
  BY DEF Gone
<1>2. /\ dev' = [p \in Proc |-> IF ppc'[p] = "none" THEN Nil ELSE dev[p]]
      /\ shell' = [p \in Proc |-> IF ppc'[p] = "none" THEN "none" ELSE shell[p]]
      /\ daemon' \subseteq daemon /\ holds' \subseteq holds
  BY DEF Gone
<1> QED BY <1>1, <1>2 DEF TypeOK

(* The end of a process keeps the types. *)
LEMMA EndsTypes == ASSUME TypeOK, NEW p \in Proc, Ends(p) PROVE TypeOK'
<1>1. /\ ppc' = [ppc EXCEPT ![p] = "none"] /\ Gone /\ peer' \in Proc \cup {Nil}
      /\ UNCHANGED <<mpc, asked, typed, listening, unread, paused, faults>>
  BY DEF Ends, TypeOK
<1>2. /\ ppc' \in [Proc -> {"none", "init", "loop", "child", "queued", "handshake", "reset",
                           "spawn", "forked", "relay", "left"}]
      /\ \A q \in Proc : ppc'[q] = IF q = p THEN "none" ELSE ppc[q]
  BY <1>1 DEF TypeOK
<1>3. \A q \in Proc : ppc[q] = "none" => ppc'[q] = "none"
  BY <1>2
<1>4. \A q \in Proc : ppc'[q] # "none" =>
        (ppc[q] \in {"forked", "relay", "left"} <=> ppc'[q] \in {"forked", "relay", "left"})
  BY <1>2
<1>5. /\ dev' \in [Proc -> Device \cup {Nil}]
      /\ \A q \in Proc : dev'[q] = Nil <=> ppc'[q] = "none"
      /\ shell' \in [Proc -> {"none", "new", "tty", "ended", "failed"}]
      /\ \A q \in Proc : shell'[q] # "none" <=> ppc'[q] \in {"forked", "relay", "left"}
      /\ daemon' \subseteq Proc /\ holds' \subseteq Proc
  BY <1>1, <1>2, <1>3, <1>4, GoneFacts
<1> QED BY <1>1, <1>2, <1>5 DEF TypeOK

(* close() of the listening socket resets those in its queue, and that of a
   connection its child; none of them has a shell.                         *)
LEMMA ResetFacts ==
  ASSUME TypeOK, NEW p \in Proc, ppc[p] \in {"queued", "handshake"},
         ppc' = Reset \/ ppc' = [Reset EXCEPT ![p] = "reset"]
  PROVE  /\ ppc' \in [Proc -> {"none", "init", "loop", "child", "queued", "handshake", "reset",
                               "spawn", "forked", "relay", "left"}]
         /\ \A q \in Proc : ppc'[q] = "none" <=> ppc[q] = "none"
         /\ \A q \in Proc : ppc'[q] \in {"forked", "relay", "left"}
                              <=> ppc[q] \in {"forked", "relay", "left"}
<1>1. Reset \in [Proc -> {"none", "init", "loop", "child", "queued", "handshake", "reset",
                          "spawn", "forked", "relay", "left"}]
  BY DEF TypeOK, Reset
<1>2. \A q \in Proc : Reset[q] = IF ppc[q] = "queued" THEN "reset" ELSE ppc[q]
  BY DEF Reset
<1> HIDE DEF Reset
<1>3. ppc' \in [Proc -> {"none", "init", "loop", "child", "queued", "handshake", "reset",
                         "spawn", "forked", "relay", "left"}]
  BY <1>1
<1>4. ASSUME NEW q \in Proc
      PROVE  ppc'[q] = ppc[q] \/ (ppc[q] \in {"queued", "handshake"} /\ ppc'[q] = "reset")
  BY <1>1, <1>2
<1> QED BY <1>3, <1>4

(* The types, and who has a machine, a shell, a listening socket. *)
LEMMA TypeStep == ASSUME BashInv, Next PROVE TypeOK'
<1> USE DEF BashInv, TypeOK, DaemonInv, PeerInv, server, machine
<1>1. CASE MListen
  BY <1>1 DEF MListen
<1>2. CASE MListenFails
  BY <1>2 DEF MListenFails
<1>3. CASE MCheckOk
  <2>1. /\ ppc' \in [Proc -> {"none", "init", "loop", "child", "queued", "handshake", "reset",
                              "spawn", "forked", "relay", "left"}]
        /\ \A q \in Proc : ppc'[q] = "none" <=> ppc[q] = "none"
        /\ \A q \in Proc : ppc'[q] \in {"forked", "relay", "left"}
                             <=> ppc[q] \in {"forked", "relay", "left"}
    BY <1>3, ResetFacts DEF MCheckOk
  <2>2. /\ mpc = "check" /\ mpc' = "handshake" /\ listening' = FALSE
        /\ UNCHANGED <<asked, typed, peer, unread, dev, shell, paused, daemon, holds, faults>>
    BY <1>3 DEF MCheckOk
  <2> QED BY <2>1, <2>2
<1>4. CASE MCheckFails
  <2>1. /\ ppc' \in [Proc -> {"none", "init", "loop", "child", "queued", "handshake", "reset",
                              "spawn", "forked", "relay", "left"}]
        /\ \A q \in Proc : ppc'[q] = "none" <=> ppc[q] = "none"
        /\ \A q \in Proc : ppc'[q] \in {"forked", "relay", "left"}
                             <=> ppc[q] \in {"forked", "relay", "left"}
    BY <1>4, ResetFacts DEF MCheckFails
  <2>2. /\ mpc' = "menu" /\ asked' = Nil /\ typed' = <<>> /\ peer' = Nil /\ listening' = FALSE
        /\ UNCHANGED <<unread, dev, shell, paused, daemon, holds, faults>>
    BY <1>4 DEF MCheckFails
  <2> QED BY <2>1, <2>2
<1>5. CASE HandshakeOk
  BY <1>5 DEF HandshakeOk
<1>6. CASE HandshakeFails
  BY <1>6 DEF HandshakeFails
<1>7. CASE MClosed
  BY <1>7 DEF MClosed, MEndSession
<1>8. ASSUME NEW p \in Proc, MAccept(p) PROVE TypeOK'
  BY <1>8 DEF MAccept, Queued
<1>9. CASE MAcceptFails
  <2>1. /\ ppc' \in [Proc -> {"none", "init", "loop", "child", "queued", "handshake", "reset",
                              "spawn", "forked", "relay", "left"}]
        /\ \A q \in Proc : ppc'[q] = "none" <=> ppc[q] = "none"
        /\ \A q \in Proc : ppc'[q] \in {"forked", "relay", "left"}
                             <=> ppc[q] \in {"forked", "relay", "left"}
    <3>1. ppc' = Reset
      BY <1>9 DEF MAcceptFails
    <3>2. \A q \in Proc : ppc'[q] = IF ppc[q] = "queued" THEN "reset" ELSE ppc[q]
      BY <3>1 DEF Reset
    <3>3. ppc' \in [Proc -> {"none", "init", "loop", "child", "queued", "handshake", "reset",
                             "spawn", "forked", "relay", "left"}]
      BY <3>1 DEF Reset
    <3> QED BY <3>2, <3>3
  <2>2. /\ mpc' = "menu" /\ asked' = Nil /\ typed' = <<>> /\ listening' = FALSE
        /\ UNCHANGED <<peer, unread, dev, shell, paused, daemon, holds, faults>>
    BY <1>9 DEF MAcceptFails
  <2> QED BY <2>1, <2>2
<1>10. CASE MLeaves
  BY <1>10 DEF MLeaves, MEndSession
<1>11. CASE Restart
  <2>1. ppc' = HungUp(Proc) /\ Gone
    BY <1>11 DEF Restart
  <2>2. /\ ppc' \in [Proc -> {"none", "init", "loop", "child", "queued", "handshake", "reset",
                             "spawn", "forked", "relay", "left"}]
        /\ \A p \in Proc : ppc[p] = "none" => ppc'[p] = "none"
        /\ \A p \in Proc : ppc'[p] # "none" =>
             (ppc[p] \in {"forked", "relay", "left"} <=> ppc'[p] \in {"forked", "relay", "left"})
    BY <2>1 DEF HungUp
  <2>3. /\ dev' \in [Proc -> Device \cup {Nil}]
        /\ \A p \in Proc : dev'[p] = Nil <=> ppc'[p] = "none"
        /\ shell' \in [Proc -> {"none", "new", "tty", "ended", "failed"}]
        /\ \A p \in Proc : shell'[p] # "none" <=> ppc'[p] \in {"forked", "relay", "left"}
        /\ daemon' \subseteq Proc /\ holds' \subseteq Proc
    BY <2>1, <2>2, GoneFacts
  <2>4. unread' \in [Device -> 0..MaxAsk] /\ mpc' = "menu" /\ asked' = Nil /\ typed' = <<>>
        /\ peer' = Nil /\ listening' = FALSE /\ UNCHANGED <<paused, faults>>
    BY <1>11 DEF Restart
  <2> QED BY <2>2, <2>3, <2>4
<1>12. ASSUME NEW d \in Device, MAsk(d) PROVE TypeOK'
  BY <1>12, TypedNotEmpty DEF MAsk
<1>13. ASSUME NEW d \in Device, MainKilled(d) PROVE TypeOK'
  BY <1>13 DEF MainKilled
<1>14. ASSUME NEW d \in Device, Start(d) PROVE TypeOK'
  <2>1. /\ Fresh \in Proc /\ ppc[Fresh] = "none"
        /\ ppc' = [ppc EXCEPT ![Fresh] = "init"] /\ dev' = [dev EXCEPT ![Fresh] = d]
        /\ paused' = paused \cup {d} /\ daemon' = daemon \cup {Fresh}
        /\ holds' = holds \cup {Fresh}
        /\ UNCHANGED <<server, unread, shell, faults>>
    BY <1>14, FreshIsFree DEF Start, NewDaemon
  <2>2. paused' \subseteq Device /\ daemon' \subseteq Proc /\ holds' \subseteq Proc
    BY <2>1
  <2> QED BY <2>1, <2>2
<1>15. ASSUME NEW p \in Proc, Fork(p) PROVE TypeOK'
  <2>1. /\ Fresh \in Proc /\ ppc[Fresh] = "none" /\ unread[dev[p]] > 0 /\ dev[p] \in Device
        /\ unread' = [unread EXCEPT ![dev[p]] = @ - 1]
        /\ ppc' = [ppc EXCEPT ![Fresh] = "child"] /\ dev' = [dev EXCEPT ![Fresh] = dev[p]]
        /\ UNCHANGED <<server, shell, paused, daemon, faults>>
    BY <1>15, FreshIsFree DEF Fork
  <2>2. holds' \subseteq Proc
    BY <1>15, <2>1 DEF Fork
  <2> QED BY <2>1, <2>2
<1>16. ASSUME NEW p \in Proc, Connect(p) PROVE TypeOK'
  BY <1>16 DEF Connect, Queued
<1>17. ASSUME NEW p \in Proc, ConnectFails(p) PROVE TypeOK'
  BY <1>17 DEF ConnectFails
<1>18. ASSUME NEW p \in Proc, Returns(p) PROVE TypeOK'
  BY <1>18 DEF Returns
<1>19. ASSUME NEW p \in Proc, Fails(p) PROVE TypeOK'
  BY <1>19, EndsTypes DEF Fails
<1>20. ASSUME NEW p \in Proc, SslInit(p) PROVE TypeOK'
  <2>1. CASE Ends(p)
    BY <2>1, EndsTypes
  <2>2. CASE ~Ends(p)
    <3>1. /\ ppc[p] = "init" /\ ppc' = [ppc EXCEPT ![p] = "loop"]
          /\ UNCHANGED <<server, unread, dev, machine>>
      BY <1>20, <2>2 DEF SslInit
    <3>2. shell[p] = "none"
      BY <3>1
    <3> QED BY <3>1, <3>2
  <2> QED BY <2>1, <2>2
<1>21. ASSUME NEW p \in Proc, Spawn(p) PROVE TypeOK'
  BY <1>21 DEF Spawn
<1>22. ASSUME NEW p \in Proc, Handlers(p) PROVE TypeOK'
  BY <1>22 DEF Handlers
<1>23. ASSUME NEW p \in Proc, TtyClosed(p) PROVE TypeOK'
  BY <1>23, EndsTypes DEF TtyClosed
<1>24. ASSUME NEW p \in Proc, ShellSteps(p) PROVE TypeOK'
  <2>1. CASE Ends(p)
    BY <2>1, EndsTypes
  <2>2. CASE ~Ends(p)
    <3>1. PICK to \in {"tty", "failed", "ended"} :
            /\ shell[p] # "none" /\ shell' = [shell EXCEPT ![p] = to]
            /\ UNCHANGED <<server, unread, ppc, dev, paused, daemon, holds, faults>>
      BY <1>24, <2>2 DEF ShellSteps
    <3> QED BY <3>1
  <2> QED BY <2>1, <2>2
<1>25. ASSUME NEW p \in Proc, Term(p) PROVE TypeOK'
  <2>1. CASE Ends(p)
    BY <2>1, EndsTypes
  <2>2. CASE ~Ends(p)
    <3>1. /\ ppc[p] = "forked" /\ ppc' = [ppc EXCEPT ![p] = "left"]
          /\ UNCHANGED <<server, unread, dev, machine>>
      BY <1>25, <2>2 DEF Term
    <3>2. shell[p] # "none"
      BY <3>1
    <3> QED BY <3>1, <3>2
  <2> QED BY <2>1, <2>2
<1>26. ASSUME NEW p \in Proc, Killed(p) PROVE TypeOK'
  <2>1. /\ ppc' = [ppc EXCEPT ![p] = "none"] /\ Gone /\ ppc[p] = "loop"
        /\ faults < MaxFault /\ faults' = faults + 1 /\ UNCHANGED <<server, paused>>
    BY <1>26 DEF Killed
  <2>2. unread' \in [Device -> 0..MaxAsk]
    <3>1. unread' = unread \/ unread' = [unread EXCEPT ![dev[p]] = 0]
      BY <1>26 DEF Killed
    <3>2. 0 \in 0..MaxAsk /\ unread \in [Device -> 0..MaxAsk]
      OBVIOUS
    <3> HIDE BashAssumption DEF BashInv, TypeOK
    <3> QED BY <3>1, <3>2
  <2>3. /\ ppc' \in [Proc -> {"none", "init", "loop", "child", "queued", "handshake", "reset",
                              "spawn", "forked", "relay", "left"}]
        /\ \A q \in Proc : ppc'[q] = IF q = p THEN "none" ELSE ppc[q]
    BY <2>1
  <2>4. /\ dev' \in [Proc -> Device \cup {Nil}]
        /\ \A q \in Proc : dev'[q] = Nil <=> ppc'[q] = "none"
        /\ shell' \in [Proc -> {"none", "new", "tty", "ended", "failed"}]
        /\ \A q \in Proc : shell'[q] # "none" <=> ppc'[q] \in {"forked", "relay", "left"}
        /\ daemon' \subseteq Proc /\ holds' \subseteq Proc
    <3>1. \A q \in Proc : ppc[q] = "none" => ppc'[q] = "none"
      BY <2>3
    <3>2. \A q \in Proc : ppc'[q] # "none" =>
            (ppc[q] \in {"forked", "relay", "left"} <=> ppc'[q] \in {"forked", "relay", "left"})
      BY <2>3
    <3>3. TypeOK /\ Gone
      BY <2>1
    <3> HIDE BashAssumption DEF BashInv, TypeOK, DaemonInv, PeerInv
    <3> QED BY <2>3, <3>1, <3>2, <3>3, GoneFacts
  <2>5. UNCHANGED <<mpc, asked, typed, peer, listening, paused>> /\ faults' \in 0..MaxFault
    BY <2>1
  <2> QED BY <2>2, <2>3, <2>4, <2>5
<1>27. ASSUME NEW d \in Device, StartUnlocked(d) PROVE TypeOK'
  <2>1. /\ Fresh \in Proc /\ ppc[Fresh] = "none"
        /\ ppc' = [ppc EXCEPT ![Fresh] = "init"] /\ dev' = [dev EXCEPT ![Fresh] = d]
        /\ daemon' = daemon \cup {Fresh} /\ faults < MaxFault /\ faults' = faults + 1
        /\ UNCHANGED <<server, unread, shell, paused, holds>>
    BY <1>27, FreshIsFree DEF StartUnlocked, NewDaemon
  <2>2. daemon' \subseteq Proc
    BY <2>1
  <2> QED BY <2>1, <2>2
<1> QED BY <1>1, <1>2, <1>3, <1>4, <1>5, <1>6, <1>7, <1>8, <1>9, <1>10, <1>11, <1>12, <1>13,
       <1>14, <1>15, <1>16, <1>17, <1>18, <1>19, <1>20, <1>21, <1>22, <1>23, <1>24, <1>25, <1>26, <1>27
    DEF Next, MStep, RelayStep

(* The daemons: one_instance() keeps a second one from getting the lock. *)
LEMMA DaemonStep == ASSUME BashInv, Next PROVE DaemonInv'
<1> USE DEF BashInv, TypeOK, DaemonInv, server, machine
<1>1. CASE MListen
  BY <1>1 DEF MListen
<1>2. CASE MListenFails
  BY <1>2 DEF MListenFails
<1>3. CASE MCheckOk
  BY <1>3 DEF MCheckOk, SameAddr, Reset
<1>4. CASE MCheckFails
  BY <1>4 DEF MCheckFails, SameAddr, Reset
<1>5. CASE HandshakeOk
  BY <1>5 DEF HandshakeOk
<1>6. CASE HandshakeFails
  BY <1>6 DEF HandshakeFails
<1>7. CASE MClosed
  BY <1>7 DEF MClosed, MEndSession
<1>8. ASSUME NEW p \in Proc, MAccept(p) PROVE DaemonInv'
  BY <1>8 DEF MAccept, Queued
<1>9. CASE MAcceptFails
  BY <1>9 DEF MAcceptFails, Reset
<1>10. CASE MLeaves
  BY <1>10 DEF MLeaves, MEndSession
<1>11. CASE Restart
  BY <1>11 DEF Restart, HungUp, Gone
<1>12. ASSUME NEW d \in Device, MAsk(d) PROVE DaemonInv'
  BY <1>12 DEF MAsk
<1>13. ASSUME NEW d \in Device, MainKilled(d) PROVE DaemonInv'
  BY <1>13 DEF MainKilled
<1>14. ASSUME NEW d \in Device, Start(d) PROVE DaemonInv'
  BY <1>14, FreshIsFree DEF Start, NewDaemon, Locked
<1>15. ASSUME NEW p \in Proc, Fork(p) PROVE DaemonInv'
  BY <1>15, FreshIsFree DEF Fork
<1>16. ASSUME NEW p \in Proc, Connect(p) PROVE DaemonInv'
  BY <1>16 DEF Connect, Queued
<1>17. ASSUME NEW p \in Proc, ConnectFails(p) PROVE DaemonInv'
  BY <1>17 DEF ConnectFails
<1>18. ASSUME NEW p \in Proc, Returns(p) PROVE DaemonInv'
  BY <1>18 DEF Returns
<1>19. ASSUME NEW p \in Proc, Fails(p) PROVE DaemonInv'
  BY <1>19 DEF Fails, Ends, Gone
<1>20. ASSUME NEW p \in Proc, SslInit(p) PROVE DaemonInv'
  BY <1>20 DEF SslInit, Ends, Gone
<1>21. ASSUME NEW p \in Proc, Spawn(p) PROVE DaemonInv'
  BY <1>21 DEF Spawn
<1>22. ASSUME NEW p \in Proc, Handlers(p) PROVE DaemonInv'
  BY <1>22 DEF Handlers
<1>23. ASSUME NEW p \in Proc, TtyClosed(p) PROVE DaemonInv'
  BY <1>23 DEF TtyClosed, Ends, Gone
<1>24. ASSUME NEW p \in Proc, ShellSteps(p) PROVE DaemonInv'
  BY <1>24 DEF ShellSteps, Ends, Gone
<1>25. ASSUME NEW p \in Proc, Term(p) PROVE DaemonInv'
  BY <1>25 DEF Term, Ends, Gone
<1>26. ASSUME NEW p \in Proc, Killed(p) PROVE DaemonInv'
  BY <1>26 DEF Killed, Gone
<1>27. ASSUME NEW d \in Device, StartUnlocked(d) PROVE DaemonInv'
  BY <1>27, FreshIsFree DEF StartUnlocked, NewDaemon
<1> QED BY <1>1, <1>2, <1>3, <1>4, <1>5, <1>6, <1>7, <1>8, <1>9, <1>10, <1>11, <1>12, <1>13,
       <1>14, <1>15, <1>16, <1>17, <1>18, <1>19, <1>20, <1>21, <1>22, <1>23, <1>24, <1>25, <1>26, <1>27
    DEF Next, MStep, RelayStep

(* The child the server has accepted. *)
LEMMA PeerStep == ASSUME BashInv, Next PROVE PeerInv'
<1> USE DEF BashInv, TypeOK, PeerInv, server, machine
<1>1. CASE MListen
  BY <1>1 DEF MListen
<1>2. CASE MListenFails
  BY <1>2 DEF MListenFails
<1>3. CASE MCheckOk
  BY <1>3 DEF MCheckOk, SameAddr, Reset
<1>4. CASE MCheckFails
  BY <1>4 DEF MCheckFails, SameAddr, Reset
<1>5. CASE HandshakeOk
  BY <1>5 DEF HandshakeOk
<1>6. CASE HandshakeFails
  BY <1>6 DEF HandshakeFails
<1>7. CASE MClosed
  BY <1>7 DEF MClosed, MEndSession
<1>8. ASSUME NEW p \in Proc, MAccept(p) PROVE PeerInv'
  BY <1>8 DEF MAccept, Queued
<1>9. CASE MAcceptFails
  BY <1>9 DEF MAcceptFails, Reset
<1>10. CASE MLeaves
  BY <1>10 DEF MLeaves, MEndSession
<1>11. CASE Restart
  BY <1>11 DEF Restart, HungUp, Gone
<1>12. ASSUME NEW d \in Device, MAsk(d) PROVE PeerInv'
  BY <1>12 DEF MAsk
<1>13. ASSUME NEW d \in Device, MainKilled(d) PROVE PeerInv'
  BY <1>13 DEF MainKilled
<1>14. ASSUME NEW d \in Device, Start(d) PROVE PeerInv'
  BY <1>14, FreshIsFree DEF Start, NewDaemon, Locked
<1>15. ASSUME NEW p \in Proc, Fork(p) PROVE PeerInv'
  BY <1>15, FreshIsFree DEF Fork
<1>16. ASSUME NEW p \in Proc, Connect(p) PROVE PeerInv'
  BY <1>16 DEF Connect, Queued
<1>17. ASSUME NEW p \in Proc, ConnectFails(p) PROVE PeerInv'
  BY <1>17 DEF ConnectFails
<1>18. ASSUME NEW p \in Proc, Returns(p) PROVE PeerInv'
  BY <1>18 DEF Returns
<1>19. ASSUME NEW p \in Proc, Fails(p) PROVE PeerInv'
  BY <1>19 DEF Fails, Ends, Gone
<1>20. ASSUME NEW p \in Proc, SslInit(p) PROVE PeerInv'
  BY <1>20 DEF SslInit, Ends, Gone
<1>21. ASSUME NEW p \in Proc, Spawn(p) PROVE PeerInv'
  BY <1>21 DEF Spawn
<1>22. ASSUME NEW p \in Proc, Handlers(p) PROVE PeerInv'
  BY <1>22 DEF Handlers
<1>23. ASSUME NEW p \in Proc, TtyClosed(p) PROVE PeerInv'
  BY <1>23 DEF TtyClosed, Ends, Gone
<1>24. ASSUME NEW p \in Proc, ShellSteps(p) PROVE PeerInv'
  BY <1>24 DEF ShellSteps, Ends, Gone
<1>25. ASSUME NEW p \in Proc, Term(p) PROVE PeerInv'
  BY <1>25 DEF Term, Ends, Gone
<1>26. ASSUME NEW p \in Proc, Killed(p) PROVE PeerInv'
  BY <1>26 DEF Killed, Gone
<1>27. ASSUME NEW d \in Device, StartUnlocked(d) PROVE PeerInv'
  BY <1>27, FreshIsFree DEF StartUnlocked, NewDaemon
<1> QED BY <1>1, <1>2, <1>3, <1>4, <1>5, <1>6, <1>7, <1>8, <1>9, <1>10, <1>11, <1>12, <1>13,
       <1>14, <1>15, <1>16, <1>17, <1>18, <1>19, <1>20, <1>21, <1>22, <1>23, <1>24, <1>25, <1>26, <1>27
    DEF Next, MStep, RelayStep

(* What is asked changes together with what is typed. *)
LEMMA AskedStep == ASSUME BashInv, Next PROVE AskedInv'
<1>1. ASSUME NEW d \in Device, MAsk(d) PROVE AskedInv'
  BY <1>1 DEF MAsk, AskedInv, Names
<1>2. CASE asked' = Nil
  BY <1>2 DEF AskedInv
<1>3. CASE asked' = asked /\ typed' = typed
  BY <1>3 DEF BashInv, AskedInv, Names
<1>4. \/ \E d \in Device : MAsk(d)
      \/ asked' = Nil
      \/ asked' = asked /\ typed' = typed
  BY DEF Next, MStep, RelayStep, MListen, MListenFails, MCheckOk, MCheckFails, HandshakeOk,
     HandshakeFails, MClosed, MEndSession, MAccept, MAcceptFails, MLeaves, Restart, MainKilled,
     Start, StartUnlocked, NewDaemon, Fork, Connect, ConnectFails, Returns, Fails, SslInit, Spawn, Handlers, TtyClosed,
     ShellSteps, Term, Killed, Ends, server, machine
<1> QED BY <1>1, <1>2, <1>3, <1>4

(* BashInv is inductive. *)
LEMMA BashInvStep == BashInv /\ [Next]_vars => BashInv'
<1>1. ASSUME BashInv, Next PROVE BashInv'
  BY <1>1, TypeStep, DaemonStep, PeerStep, AskedStep DEF BashInv
<1>2. ASSUME BashInv, UNCHANGED vars PROVE BashInv'
  BY <1>2 DEF BashInv, TypeOK, DaemonInv, PeerInv, AskedInv, Names, vars, server, machine
<1> QED BY <1>1, <1>2

(* The inductive invariant holds in every reachable state. *)
THEOREM BashInvariance == Spec => []BashInv
BY InitBashInv, BashInvStep, PTL DEF Spec

(* Every variable keeps its type: a process has a machine as long as it runs,
   a relay has a shell, and the server listens exactly while it waits for the
   child.                                                                  *)
THEOREM BashTypeCorrect == Spec => []TypeOK
<1>1. BashInv => TypeOK
  BY DEF BashInv
<1> QED BY <1>1, BashInvariance, PTL

(* However its processes are killed in part and rctlcli is started again, with
   the lock or, since the file cannot be opened, without, at most one of the
   daemons that got the lock is on a machine (client/rctl.c: one_instance()).  *)
THEOREM LockKeepsOne == Spec => []OneLockHolder
<1>1. BashInv => OneLockHolder
  <2> SUFFICES ASSUME BashInv, NEW d \in Device
               PROVE  Cardinality({p \in daemon \cap holds : dev[p] = d}) <= 1
    BY DEF OneLockHolder
  <2> DEFINE D == {p \in daemon \cap holds : dev[p] = d}
  <2>1. \A p, q \in D : p = q
    BY DEF BashInv, DaemonInv
  <2> HIDE DEF D
  <2>2. CASE D = {}
    <3>1. Cardinality(D) = 0
      BY <2>2, FS_EmptySet
    <3> QED BY <3>1 DEF D
  <2>3. CASE D # {}
    <3>1. PICK p \in D : TRUE
      BY <2>3
    <3>2. D = {p}
      BY <2>1, <3>1
    <3>3. Cardinality(D) = 1
      BY <3>2, FS_Singleton
    <3> QED BY <3>3 DEF D
  <2> QED BY <2>2, <2>3
<1> QED BY <1>1, BashInvariance, PTL

(* However late the child of an earlier request connects, the operator's
   session is with a process of a machine whose MAC begins with what he typed,
   all of it or the first bytes, whatever memory macstr_to_mac() left as it
   was, or of a machine with the same address, for any addresses the machines
   have (server/bash.c: cmd_bashto() and the address check of bashfd()).   *)
THEOREM SessionIsAsked == Spec => []AskedDevice
<1>1. ASSUME BashInv, mpc = "session", peer # Nil
      PROVE  /\ ppc[peer] \in {"spawn", "forked", "relay", "left"}
             /\ Addr[dev[peer]] = Addr[asked] /\ asked \in Device /\ Names(asked) /\ typed \in Typed
  BY <1>1 DEF BashInv, TypeOK, PeerInv, AskedInv
<1>2. ASSUME NEW d \in Device, typed \in Typed, Names(d)
      PROVE  IsPrefix(typed, getmacstr(Mac[d]))
  <2>1. PICK e \in Device, n \in 1..ETH_ALEN : typed = TextOf(Mac[e], n)
    BY <1>2 DEF Typed, TextOf
  <2>2. PICK old : macstr_to_mac(typed, old) = Mac[d]
    BY <1>2 DEF Names
  <2>3. /\ ETH_ALEN \in Nat \ {0}
        /\ Mac[d] \in [1..ETH_ALEN -> 0..255] /\ Mac[e] \in [1..ETH_ALEN -> 0..255]
    OBVIOUS
  <2>4. \A i \in 1..n : Mac[d][i] = Mac[e][i]
    <3> TAKE i \in 1..n
    <3> DEFINE m == Mac[e]
    <3>1. ETH_ALEN \in Nat \ {0} /\ m \in [1..ETH_ALEN -> 0..255]
      BY <2>3
    <3> HIDE DEF m
    <3>2. \A j \in 1..n : \A o : macstr_to_mac(TextOf(m, n), o)[j] = m[j]
      BY <3>1, TypedBytes
    <3> QED BY <2>1, <2>2, <3>2 DEF m
  <2> QED BY <2>1, <2>3, <2>4, SameText
<1>3. BashInv => AskedDevice
  BY <1>1, <1>2 DEF AskedDevice
<1> QED BY <1>3, BashInvariance, PTL

=============================================================================
