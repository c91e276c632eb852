---------------------------- MODULE DirectoryProofs ----------------------------
(***************************************************************************)
(* The rest of what the runs check of Server.tla, and that the server      *)
(* implements Directory.tla.                                               *)
(*                                                                         *)
(* IInv of ServerProofs.tla says which classes are listed and counted.     *)
(* What is missing there: where the memory of a client is while it is on   *)
(* no list (HeldInv), that the names of the classes are distinct, also     *)
(* from the name newclass() is about to list (NameInv), and how far the    *)
(* walk of cmd_sendcmd() has come (WalkedInv).                             *)
(***************************************************************************)
EXTENDS ServerProofs, WellFoundedInduction

(* Who is on no list is in the hands of R or E; the console has a class only
   during a walk.                                                          *)
HeldInv ==
  /\ NoLeak
  /\ \A c \in Conn : class[c] # Nil =>
       \/ c \in ToSet(tothead)
       \/ c = rcli /\ rpc \in {"clslock", "totlock", "link"}
       \/ c = ecli
  /\ mclass # Nil => MHasClasslock

(* Names are distinct; the class newclass() makes has a name of its own, and
   the one it has found has a client.                                      *)
NameInv ==
  /\ \A k, l \in ToSet(classhead) : cliclass[k] = cliclass[l] => k = l
  /\ \A k \in ClassObj : RMaking(k) =>
       /\ cliclass[k] = rname
       /\ k \in ToSet(classhead) <=> clilist[k] # <<>>
       /\ k \notin ToSet(classhead) => \A l \in ToSet(classhead) : cliclass[l] # rname

(* The i-th entry of a list, its end after the last. *)
Entry(s, i) == IF i \in 1..Len(s) THEN s[i] ELSE Nil

(* The walk of cmd_sendcmd() is at the i-th client of the class, and has
   written to those before.                                                *)
WalkedInv ==
  MHasClslock(mclass) /\ op = "send" =>
    \E i \in 1..(Len(clilist[mclass]) + 1) :
      /\ mcli = Entry(clilist[mclass], i)
      /\ walked = {clilist[mclass][j] : j \in 1..(i - 1)}

DirInv == HeldInv /\ NameInv /\ WalkedInv

USE ServerAssumption DEF Thread, Op

(* A set of naturals has a least element. *)
LEMMA LeastNat ==
  ASSUME NEW T, T \subseteq Nat, T # {}
  PROVE  \E x \in T : \A y \in T : x <= y
<1> DEFINE R == OpToRel(<, Nat)
<1>1. \A x, y \in Nat : y < x => <<y, x>> \in R
  BY Zenon DEF OpToRel
<1>2. PICK x \in T : \A y \in T : ~(<<y, x>> \in R)
  <2>1. IsWellFoundedOn(R, Nat)
    BY NatLessThanWellFounded, Zenon
  <2> HIDE DEF R
  <2> QED BY <2>1, WFMin
<1> HIDE DEF R
<1>3. \A y \in T : ~(y < x)
  BY <1>1, <1>2
<1> QED BY <1>2, <1>3

(* When the loop of newclass() finds no first class of the name, none of the
   listed classes has it.                                                  *)
LEMMA NotFound ==
  ASSUME TypeOK, NEW n, ~\E i \in DOMAIN classhead : HasName(i, n)
  PROVE  \A l \in ToSet(classhead) : cliclass[l] # n
<1> DEFINE T == {i \in DOMAIN classhead : cliclass[classhead[i]] = n}
<1>1. DOMAIN classhead = 1..Len(classhead) /\ Len(classhead) \in Nat
  BY DEF TypeOK
<1>2. ASSUME T # {} PROVE FALSE
  <2>1. PICK i \in T : \A j \in T : i <= j
    <3>1. T \subseteq Nat
      BY <1>1
    <3> HIDE DEF T
    <3> QED BY <1>2, <3>1, LeastNat
  <2>2. \A j \in 1..(i - 1) : cliclass[classhead[j]] # n
    BY <1>1, <2>1
  <2> QED BY <2>1, <2>2 DEF HasName
<1> QED BY <1>2 DEF ToSet

(* list_for_each_entry() takes the entries in their order. *)
LEMMA WalkOrder ==
  ASSUME NEW S, NEW s \in Seq(S)
  PROVE  /\ FirstEntry(s) = Entry(s, 1)
         /\ IsInjective(s) => \A i \in 1..Len(s) : NextEntry(s, s[i]) = Entry(s, i + 1)
<1>1. FirstEntry(s) = Entry(s, 1)
  BY DEF FirstEntry, Entry
<1>2. ASSUME IsInjective(s), NEW i \in 1..Len(s)
      PROVE  NextEntry(s, s[i]) = Entry(s, i + 1)
  <2> DEFINE p == Position(s, s[i])
  <2>1. s[i] \in ToSet(s)
    BY DEF ToSet
  <2>2. p \in 1..Len(s) /\ s[p] = s[i]
    BY <2>1, PositionOf
  <2>3. p = i
    BY <1>2, <2>2 DEF IsInjective
  <2>4. NextEntry(s, s[i]) = IF p = Len(s) THEN Nil ELSE s[p + 1]
    BY DEF NextEntry, Position
  <2> HIDE DEF p
  <2> QED BY <2>3, <2>4 DEF Entry
<1> QED BY <1>1, <1>2

(* Steps keep everything that is held in somebody's hands. *)
LEMMA HeldStep == ASSUME IInv, DirInv, Next, ~Killed PROVE HeldInv'
<1> USE DEF IInv, DirInv, TypeOK, LocalInv, OwnInv, HeldInv, NoLeak, MHasClasslock,
           clients, classes, lists, locks, reg, epl, con, BackToMenu
<1>1. CASE RStep
  <2>1. CASE RAccept
    BY <2>1 DEF RAccept
  <2>2. CASE RSsl
    BY <2>2 DEF RSsl
  <2>3. CASE RClassLock
    BY <2>3 DEF RClassLock
  <2>4. CASE RFindOld
    BY <2>4 DEF RFindOld
  <2>5. ASSUME NEW k \in ClassObj, RFindNew(k) PROVE HeldInv'
    BY <2>5 DEF RFindNew
  <2>6. CASE RFindNoMem
    BY <2>6 DEF RFindNoMem
  <2>7. CASE RGetLock
    BY <2>7 DEF RGetLock
  <2>8. CASE RGetClass
    BY <2>8 DEF RGetClass
  <2>9. CASE RPublish
    BY <2>9 DEF RPublish
  <2>10. CASE RClsLock
    BY <2>10 DEF RClsLock
  <2>11. CASE RTotLock
    BY <2>11 DEF RTotLock
  <2>12. CASE RLink
    BY <2>12, LinkFacts DEF RLink
  <2>13. CASE RInsert
    BY <2>13 DEF RInsert
  <2>14. CASE RUnlock
    BY <2>14 DEF RUnlock
  <2>15. CASE RGiveUp
    BY <2>15 DEF RGiveUp, Clean, Full
  <2> QED BY <1>1, <2>1, <2>2, <2>3, <2>4, <2>5, <2>6, <2>7, <2>8, <2>9, <2>10, <2>11, <2>12,
             <2>13, <2>14, <2>15 DEF RStep, RGiveUpKilled
<1>2. CASE EStep
  <2>1. CASE EWait
    BY <2>1 DEF EWait
  <2>2. ASSUME NEW c \in Conn, EHup(c) PROVE HeldInv'
    BY <2>2 DEF EHup
  <2>3. ASSUME NEW c \in Conn, EIn(c) PROVE HeldInv'
    BY <2>3 DEF EIn
  <2>4. CASE ERead
    BY <2>4 DEF ERead
  <2>5. CASE ECliLock
    BY <2>5 DEF ECliLock
  <2>6. CASE ELog
    BY <2>6 DEF ELog
  <2>7. CASE EClassLock
    BY <2>7 DEF EClassLock
  <2>8. CASE EClsLock
    BY <2>8 DEF EClsLock
  <2>9. CASE ETotLock
    BY <2>9 DEF ETotLock
  <2>10. CASE EUnlink
    BY <2>10, UnlinkFacts DEF EUnlink
  <2>11. CASE EPutClass
    BY <2>11 DEF EPutClass
  <2>12. CASE EUnTot
    BY <2>12 DEF EUnTot
  <2>13. CASE EUnCls
    BY <2>13 DEF EUnCls
  <2>14. CASE EUnClass
    BY <2>14 DEF EUnClass
  <2>15. CASE EFree
    BY <2>15 DEF EFree
  <2> QED BY <1>2, <2>1, <2>2, <2>3, <2>4, <2>5, <2>6, <2>7, <2>8, <2>9, <2>10, <2>11, <2>12,
             <2>13, <2>14, <2>15 DEF EStep, ELogFails, EFreeKilled
<1>3. CASE MStep
  <2>1. CASE MClassLock
    BY <2>1 DEF MClassLock
  <2>2. CASE MSkip
    BY <2>2 DEF MSkip
  <2>3. CASE MClsLock
    BY <2>3 DEF MClsLock
  <2>4. CASE MListCli
    BY <2>4 DEF MListCli
  <2>5. CASE MCliLock
    BY <2>5 DEF MCliLock
  <2>6. CASE MLog
    BY <2>6 DEF MLog
  <2>7. CASE MWrite
    BY <2>7 DEF MWrite
  <2>8. CASE MClsDone
    BY <2>8 DEF MClsDone
  <2>9. CASE MDone
    BY <2>9 DEF MDone
  <2>10. CASE MTotLock
    BY <2>10 DEF MTotLock
  <2>11. CASE MFind
    BY <2>11 DEF MFind
  <2>12. CASE MNotFound
    BY <2>12 DEF MNotFound
  <2>13. CASE MBash
    BY <2>13 DEF MBash
  <2>14. CASE MBashFreed
    BY <2>14 DEF MBashFreed
  <2> QED BY <1>3, <2>1, <2>2, <2>3, <2>4, <2>5, <2>6, <2>7, <2>8, <2>9, <2>10, <2>11, <2>12,
             <2>13, <2>14 DEF MStep, MWriteKilled, MBashKilled
<1>4. CASE NewWork \/ Peer
  <2>1. CASE Start
    BY <2>1 DEF Start
  <2>2. ASSUME NEW c \in Conn, RMalloc(c) PROVE HeldInv'
    <3>1. /\ rpc = "select" /\ rpc' = "accept" /\ rcli = Nil /\ rcli' = c
          /\ \A d \in Conn : d # c => res'[d] = res[d]
          /\ UNCHANGED <<class, tothead, ecli, epc, mclass, mpc>>
      BY <2>2 DEF RMalloc
    <3> QED BY <3>1
  <2>3. ASSUME NEW o \in Op, NEW a \in Name \cup Mac \cup {Nil}, MCommand(o, a) PROVE HeldInv'
    BY <2>3 DEF MCommand
  <2>4. ASSUME NEW c \in Conn, PeerGone(c) PROVE HeldInv'
    BY <2>4 DEF PeerGone
  <2>5. CASE RHandshake
    BY <2>5 DEF RHandshake
  <2>6. ASSUME NEW n \in Name, NEW m \in Mac, RRead(n, m) PROVE HeldInv'
    BY <2>6 DEF RRead
  <2>7. CASE MSession
    BY <2>7 DEF MSession
  <2> QED BY <1>4, <2>1, <2>2, <2>3, <2>4, <2>5, <2>6, <2>7 DEF NewWork, Peer
<1> QED BY <1>1, <1>2, <1>3, <1>4 DEF Next

(* Only these steps write the classes, their names or their lists, or enter
   or go through the part of newclass() where rclass is being made.        *)
LEMMA ClassWriters ==
  ASSUME Next, ~Killed
  PROVE  \/ /\ UNCHANGED <<classhead, cliclass, clilist>>
            /\ \/ rpc' \notin {"getlock", "getclass", "publish"}
               \/ UNCHANGED <<rpc, rclass, rname>>
         \/ RFindOld \/ (\E k \in ClassObj : RFindNew(k)) \/ RGetLock \/ RGetClass \/ RPublish
         \/ RLink \/ EUnlink \/ EPutClass
BY DEF Next, RStep, EStep, MStep, NewWork, Peer, clients, classes, lists, locks, reg, epl, con,
   BackToMenu,
   RMalloc, RAccept, RSsl, RGiveUp, RClassLock, RFindNoMem, RClsLock, RTotLock, RInsert, RUnlock,
   EWait, EHup, EIn, ERead, ECliLock, ELog, ELogFails, EClassLock, EClsLock, ETotLock, EFree,
   EUnTot, EUnCls, EUnClass, EFreeKilled, RGiveUpKilled, MClassLock, MSkip, MClsLock, MListCli,
   MCliLock, MLog, MWrite, MWriteKilled, MClsDone, MDone, MTotLock, MFind, MNotFound, MBash,
   MBashKilled, MBashFreed, Start, MCommand, PeerGone, RHandshake, RRead, MSession

(* While another thread than R and E, or none, is between a getclass() or
   putclass() and its list operation, a listed class has a client.         *)
LEMMA ListedHasClient ==
  ASSUME IInv, NEW k \in ToSet(classhead), rpc \in {"find", "getlock", "getclass"}
  PROVE  clilist[k] # <<>>
<1>1. k \in ClassObj
  BY InToSet DEF IInv, TypeOK
<1>2. epc # "putclass"
  BY DEF IInv, LockInv, RHasClasslock, EHasClasslock
<1>3. InFlight(k) = 0
  BY <1>2 DEF InFlight
<1>4. count[k] = Len(clilist[k]) + InFlight(k) /\ count[k] \in Nat /\ count[k] >= 1
  BY <1>1 DEF IInv, TypeOK, ClassInv, RefCount
<1>5. clilist[k] \in Seq(Conn)
  BY <1>1 DEF IInv, TypeOK
<1> QED BY <1>3, <1>4, <1>5

(* Steps keep the names of the classes distinct. *)
LEMMA NameStep == ASSUME IInv, DirInv, Next, ~Killed PROVE NameInv'
<1> USE DEF RMaking
<1>1. CASE /\ UNCHANGED <<classhead, cliclass, clilist>>
           /\ \/ rpc' \notin {"getlock", "getclass", "publish"}
              \/ UNCHANGED <<rpc, rclass, rname>>
  BY <1>1 DEF DirInv, NameInv
<1>2. CASE RFindOld
  <2>1. PICK i \in DOMAIN classhead : HasName(i, rname) /\ rclass' = classhead[i]
    BY <1>2 DEF RFindOld
  <2>2. rclass' \in ToSet(classhead) /\ cliclass[rclass'] = rname
    BY <2>1 DEF HasName, ToSet
  <2>3. clilist[rclass'] # <<>>
    BY <1>2, <2>2, ListedHasClient DEF RFindOld
  <2>4. UNCHANGED <<classhead, cliclass, clilist, rname>>
    BY <1>2 DEF RFindOld, classes, lists
  <2> QED BY <2>2, <2>3, <2>4 DEF DirInv, NameInv
<1>3. ASSUME NEW k \in ClassObj, RFindNew(k) PROVE NameInv'
  <2>1. \A l \in ToSet(classhead) : cliclass[l] # rname
    BY <1>3, NotFound DEF IInv, RFindNew
  <2>2. k \notin ToSet(classhead) /\ clilist[k] = <<>>
    BY <1>3, FreeClass DEF IInv, ClassInv, RFindNew
  <2>3. /\ cliclass' = [cliclass EXCEPT ![k] = rname] /\ clilist' = [clilist EXCEPT ![k] = <<>>]
        /\ rclass' = k /\ UNCHANGED <<classhead, rname>>
    BY <1>3 DEF RFindNew
  <2>4. clilist' = clilist
    BY <2>2, <2>3 DEF IInv, TypeOK
  <2>5. \A l \in ToSet(classhead) : cliclass'[l] = cliclass[l] /\ l # k
    BY <2>2, <2>3 DEF IInv, TypeOK
  <2>6. cliclass'[k] = rname
    BY <2>3 DEF IInv, TypeOK
  <2>7. \A j, l \in ToSet(classhead') : cliclass'[j] = cliclass'[l] => j = l
    BY <2>3, <2>5 DEF DirInv, NameInv
  <2>8. ASSUME NEW j \in ClassObj, RMaking(j)'
        PROVE  /\ cliclass'[j] = rname'
               /\ j \in ToSet(classhead') <=> clilist'[j] # <<>>
               /\ j \notin ToSet(classhead') => \A l \in ToSet(classhead') : cliclass'[l] # rname'
    <3>1. j = k /\ classhead' = classhead /\ rname' = rname
      BY <2>3, <2>8
    <3>2. cliclass'[k] = rname /\ k \notin ToSet(classhead) /\ clilist'[k] = <<>>
      BY <2>2, <2>4, <2>6
    <3>3. \A l \in ToSet(classhead) : cliclass'[l] # rname
      BY <2>1, <2>5
    <3> QED BY <3>1, <3>2, <3>3
  <2> QED BY <2>7, <2>8 DEF NameInv
<1>4. CASE RGetLock
  BY <1>4 DEF DirInv, NameInv, RGetLock, classes, lists
<1>5. CASE RGetClass
  BY <1>5 DEF DirInv, NameInv, RGetClass, lists
<1>6. CASE RPublish
  <2>1. RMaking(rclass) /\ rclass \in ClassObj
    BY <1>6 DEF RPublish, IInv, TypeOK, LocalInv
  <2>2. rpc' = "clslock" /\ cliclass' = cliclass /\ ToSet(classhead') = ToSet(classhead) \cup {rclass}
    BY <1>6, PublishFacts DEF RPublish, classes, IInv
  <2>3. \A l \in ToSet(classhead) : cliclass[l] = cliclass[rclass] => l = rclass
    BY <2>1 DEF DirInv, NameInv
  <2> QED BY <2>2, <2>3 DEF DirInv, NameInv
<1>7. CASE RLink
  BY <1>7 DEF DirInv, NameInv, RLink, classes
<1>8. CASE EUnlink
  <2>1. ~RHasClasslock /\ UNCHANGED <<classhead, cliclass, rpc, rclass>>
    BY <1>8 DEF EUnlink, classes, reg, IInv, LockInv, EHasClasslock
  <2> QED BY <2>1 DEF DirInv, NameInv, RHasClasslock
<1>9. CASE EPutClass
  <2>1. ~RHasClasslock /\ UNCHANGED <<rpc, rclass>>
    BY <1>9, PutClassFacts DEF EPutClass, reg, IInv
  <2>2. ToSet(classhead') \subseteq ToSet(classhead)
        /\ \A l \in ToSet(classhead') : cliclass'[l] = cliclass[l]
    <3>1. CASE count[class[ecli]] = 1
      <4>1. ToSet(classhead') = ToSet(classhead) \ {class[ecli]}
            /\ cliclass' = [cliclass EXCEPT ![class[ecli]] = Nil]
        BY <1>9, <3>1, PutClassFacts DEF IInv
      <4>2. ToSet(classhead) \subseteq ClassObj /\ cliclass \in [ClassObj -> Name \cup {Nil}]
        BY InToSet DEF IInv, TypeOK
      <4> QED BY <4>1, <4>2
    <3>2. CASE count[class[ecli]] # 1
      BY <1>9, <3>2, PutClassFacts DEF IInv
    <3> QED BY <3>1, <3>2
  <2> QED BY <2>1, <2>2 DEF DirInv, NameInv, RHasClasslock
<1> QED BY <1>1, <1>2, <1>3, <1>4, <1>5, <1>6, <1>7, <1>8, <1>9, ClassWriters

(* Only these steps move the walk of the console, or write a list it may be
   walking.                                                                *)
LEMMA WalkWriters ==
  ASSUME Next, ~Killed
  PROVE  \/ UNCHANGED <<mpc, op, mclass, mcli, walked, clilist>>
         \/ mpc' \notin {"cli", "log", "write"}
         \/ (\E k \in ClassObj : RFindNew(k)) \/ RLink \/ EUnlink
         \/ MClsLock \/ MListCli \/ MCliLock \/ MLog \/ MWrite
BY DEF Next, RStep, EStep, MStep, NewWork, Peer, clients, classes, lists, locks, reg, epl, con,
   BackToMenu,
   RMalloc, RAccept, RSsl, RGiveUp, RClassLock, RFindOld, RFindNoMem, RGetLock, RGetClass,
   RPublish, RClsLock, RTotLock, RInsert, RUnlock,
   EWait, EHup, EIn, ERead, ECliLock, ELog, ELogFails, EClassLock, EClsLock, ETotLock, EPutClass,
   EUnTot, EUnCls, EUnClass, EFree, EFreeKilled, RGiveUpKilled, MClassLock, MSkip, MWriteKilled,
   MClsDone, MDone, MTotLock, MFind, MNotFound, MBash,
   MBashKilled, MBashFreed, Start, MCommand, PeerGone, RHandshake, RRead, MSession

(* Steps keep account of the clients a command has been written to. *)
LEMMA WalkedStep == ASSUME IInv, DirInv, Next, ~Killed PROVE WalkedInv'
<1> USE DEF MHasClslock
<1>1. CASE UNCHANGED <<mpc, op, mclass, mcli, walked, clilist>>
  BY <1>1 DEF DirInv, WalkedInv
<1>2. CASE mpc' \notin {"cli", "log", "write"}
  BY <1>2 DEF WalkedInv
<1>3. CASE \/ \E k \in ClassObj : RFindNew(k)
           \/ RLink \/ EUnlink
  <2>1. UNCHANGED <<mpc, op, mclass, mcli, walked>>
    BY <1>3 DEF RFindNew, RLink, EUnlink, con
  <2>2. ASSUME mpc \in {"cli", "log", "write"} PROVE clilist'[mclass] = clilist[mclass]
    <3>1. mclass \in ClassObj /\ clslock[mclass] = "M"
      BY <2>2 DEF IInv, TypeOK, LocalInv, LockInv
    <3>2. ASSUME NEW k \in ClassObj, RFindNew(k) PROVE clilist'[mclass] = clilist[mclass]
      <4>1. RHasClasslock /\ MHasClasslock
        BY <2>2, <3>2 DEF RFindNew, RHasClasslock, MHasClasslock
      <4> QED BY <4>1 DEF IInv, LockInv
    <3>3. CASE RLink
      <4>1. rclass # mclass
        BY <3>1, <3>3 DEF RLink, IInv, LockInv, RHasClslock
      <4> QED BY <3>1, <3>3, <4>1, LinkFacts DEF IInv, TypeOK
    <3>4. CASE EUnlink
      <4>1. class[ecli] # mclass
        BY <3>1, <3>4 DEF EUnlink, IInv, LockInv, EHasClslock
      <4> QED BY <3>1, <3>4, <4>1, UnlinkFacts DEF IInv, TypeOK
    <3> QED BY <1>3, <3>2, <3>3, <3>4
  <2> QED BY <2>1, <2>2 DEF DirInv, WalkedInv
<1>4. CASE MClsLock
  <2>1. mclass \in ClassObj /\ UNCHANGED <<mclass, op, clilist>> /\ walked' = {}
        /\ mcli' = FirstEntry(clilist[mclass])
    BY <1>4 DEF MClsLock, IInv, TypeOK, lists
  <2>2. clilist[mclass] \in Seq(Conn)
    BY <2>1 DEF IInv, TypeOK
  <2>3. mcli' = Entry(clilist[mclass], 1) /\ 1 \in 1..(Len(clilist[mclass]) + 1)
    BY <2>1, <2>2, WalkOrder
  <2>4. walked' = {clilist[mclass][j] : j \in 1..(1 - 1)}
    BY <2>1
  <2> QED BY <2>1, <2>3, <2>4 DEF WalkedInv
<1>5. CASE MListCli
  BY <1>5 DEF MListCli, WalkedInv
<1>6. CASE MCliLock \/ MLog
  BY <1>6 DEF MCliLock, MLog, lists, DirInv, WalkedInv
<1>7. CASE MWrite
  <2> DEFINE s == clilist[mclass]
  <2>1. /\ mclass \in ClassObj /\ mcli # Nil /\ UNCHANGED <<mclass, op, clilist>>
        /\ walked' = walked \cup {mcli} /\ mcli' = NextEntry(s, mcli) /\ mpc = "write"
    BY <1>7 DEF MWrite, IInv, TypeOK, LocalInv, lists
  <2>2. s \in Seq(Conn) /\ IsInjective(s)
    BY <2>1 DEF IInv, TypeOK, ListInv
  <2>3. SUFFICES ASSUME op = "send" PROVE WalkedInv'
    BY <2>1 DEF WalkedInv
  <2>4. PICK i \in 1..(Len(s) + 1) :
          mcli = Entry(s, i) /\ walked = {s[j] : j \in 1..(i - 1)}
    BY <2>1, <2>3 DEF DirInv, WalkedInv
  <2> HIDE DEF s
  <2>5. i \in 1..Len(s) /\ mcli = s[i] /\ i + 1 \in 1..(Len(s) + 1)
    BY <2>1, <2>2, <2>4 DEF Entry
  <2>6. mcli' = Entry(s, i + 1)
    BY <2>1, <2>2, <2>5, WalkOrder
  <2>7. walked' = {s[j] : j \in 1..((i + 1) - 1)}
    BY <2>1, <2>4, <2>5
  <2> QED BY <2>1, <2>5, <2>6, <2>7 DEF WalkedInv, s
<1> QED BY <1>1, <1>2, <1>3, <1>4, <1>5, <1>6, <1>7, WalkWriters

(* DirInv is inductive, given IInv. *)
LEMMA DirStepInv == IInv /\ DirInv /\ [Next]_vars => DirInv'
<1> SUFFICES ASSUME IInv, DirInv, [Next]_vars PROVE DirInv'
  OBVIOUS
<1>1. CASE UNCHANGED vars
  BY <1>1 DEF DirInv, HeldInv, NoLeak, NameInv, WalkedInv, RMaking, MHasClasslock, MHasClslock,
     vars, clients, classes, lists, locks, reg, epl, con
<1>2. CASE Killed
  BY <1>2, EmptyList DEF Killed, DirInv, HeldInv, NoLeak, NameInv, WalkedInv, RMaking,
     MHasClasslock, MHasClslock
<1>3. CASE Next /\ ~Killed
  BY <1>3, HeldStep, NameStep, WalkedStep DEF DirInv
<1> QED BY <1>1, <1>2, <1>3

(* Both invariants hold in every reachable state. *)
THEOREM DirInvariance == Spec => [](IInv /\ DirInv)
<1>1. Init => DirInv
  BY EmptyList DEF Init, DirInv, HeldInv, NoLeak, NameInv, WalkedInv, RMaking,
     MHasClasslock, MHasClslock
<1> QED BY <1>1, DirStepInv, Invariance, PTL DEF Spec

(* accept_newcli() and cli_free() lose no memory, socket or SSL: whatever a
   client holds, it is linked, or one of the two is at work on it.         *)
THEOREM NothingLeaks == Spec => []NoLeak
<1>1. IInv /\ DirInv => NoLeak
  BY DEF DirInv, HeldInv
<1> QED BY <1>1, DirInvariance, PTL

(* newclass() and putclass() keep classhead an index of the allocated
   classes, with one class of each name.                                   *)
THEOREM ClassesIndexed == Spec => []ClassIndex
<1>1. IInv /\ DirInv => ClassIndex
  <2> SUFFICES ASSUME IInv, DirInv PROVE ClassIndex
    OBVIOUS
  <2>1. ASSUME NEW i \in DOMAIN classhead, NEW j \in DOMAIN classhead, i # j
        PROVE  cliclass[classhead[i]] # cliclass[classhead[j]]
    <3>1. classhead[i] \in ToSet(classhead) /\ classhead[j] \in ToSet(classhead)
      BY DEF ToSet
    <3>2. classhead[i] # classhead[j]
      BY <2>1 DEF IInv, ClassInv, IsInjective
    <3> QED BY <3>1, <3>2 DEF DirInv, NameInv
  <2>2. ASSUME NEW k \in ClassObj
        PROVE  k \in ToSet(classhead) <=>
                 /\ cliclass[k] # Nil
                 /\ ~(rclass = k /\ rpc \in {"getlock", "getclass", "publish"} /\ clilist[k] = <<>>)
    BY DEF IInv, ClassInv, DirInv, NameInv, RMaking
  <2> QED BY <2>1, <2>2 DEF ClassIndex
<1> QED BY <1>1, DirInvariance, PTL

(* What refers to a class keeps it allocated. *)
LEMMA InUse ==
  ASSUME IInv, NEW k \in ClassObj,
         \/ InFlight(k) # 0
         \/ \E c \in ToSet(tothead) : class[c] = k
  PROVE  cliclass[k] # Nil
<1>1. SUFFICES ASSUME cliclass[k] = Nil PROVE FALSE
  OBVIOUS
<1>2. InFlight(k) = 0 /\ clilist[k] = <<>>
  BY <1>1, FreeClass DEF IInv
<1>3. PICK c \in ToSet(tothead) : class[c] = k
  BY <1>2
<1>4. c \in ToSet(clilist[k])
  BY <1>3 DEF IInv, ListInv
<1> QED BY <1>2, <1>4, EmptyList

(* cli_free() unlocks the mutex of a class that putclass() may have freed:
   nobody else can be at that class then, or find a way to it.             *)
THEOREM FreedClassesUnshared == Spec => []FreedClassUnshared
<1>1. IInv /\ DirInv => FreedClassUnshared
  <2> SUFFICES ASSUME IInv, DirInv, NEW k \in ClassObj, cliclass[k] = Nil
               PROVE  /\ clslock[k] \in {Nil, "E"}
                      /\ clslock[k] = "E" => epc \in {"untot", "uncls"} /\ classlock = "E"
                      /\ rclass # k /\ mclass # k /\ k \notin ToSet(classhead)
                      /\ \A c \in Conn : class[c] = k => c = ecli
    BY DEF FreedClassUnshared
  <2>1. k \notin ToSet(classhead) /\ ~RMaking(k)
    BY DEF IInv, ClassInv
  <2>2. InFlight(k) = 0 /\ \A c \in ToSet(tothead) : class[c] # k
    BY InUse
  <2>3. mclass # k
    BY <2>1 DEF DirInv, HeldInv, MHasClasslock, IInv, WalkInv
  <2>4. ASSUME rclass = k PROVE FALSE
    <3>1. rcli \in Conn /\ rpc \in {"clslock", "totlock", "link", "insert", "unlock"}
      BY <2>1, <2>4 DEF IInv, LocalInv, TypeOK, RMaking
    <3>2. rpc \notin {"clslock", "totlock", "link"}
      <4>1. InFlight(k) # 0 \/ rpc \notin {"clslock", "totlock", "link"}
        BY <2>4 DEF InFlight
      <4> QED BY <2>2, <4>1
    <3>3. rcli \in ToSet(tothead) /\ class[rcli] = k
      BY <2>4, <3>1, <3>2 DEF IInv, OwnInv
    <3> QED BY <2>2, <3>3
  <2>5. ASSUME clslock[k] = "E" PROVE epc \in {"untot", "uncls"} /\ classlock = "E"
    <3>1. EHasClslock(k)
      BY <2>5 DEF IInv, LockInv
    <3>2. classlock = "E"
      BY <3>1 DEF IInv, LockInv, EHasClslock, EHasClasslock
    <3>3. epc # "putclass"
      <4>1. epc = "putclass" => InFlight(k) # 0
        BY <3>1 DEF EHasClslock, InFlight
      <4> QED BY <2>2, <4>1
    <3>4. epc \notin {"totlock", "unlink"}
      BY <2>2, <3>1 DEF EHasClslock, IInv, OwnInv, LocalInv
    <3> QED BY <3>1, <3>2, <3>3, <3>4 DEF EHasClslock
  <2>6. clslock[k] \in {Nil, "E"}
    <3>1. clslock[k] \in {"R", "E", "M", Nil}
      BY DEF IInv, TypeOK
    <3>2. clslock[k] # "R" /\ clslock[k] # "M"
      BY <2>3, <2>4 DEF IInv, LockInv, RHasClslock, MHasClslock
    <3> QED BY <3>1, <3>2
  <2>7. ASSUME NEW c \in Conn, class[c] = k PROVE c = ecli
    <3>1. c \notin ToSet(tothead)
      BY <2>2, <2>7
    <3>2. ~(c = rcli /\ rpc \in {"clslock", "totlock", "link"})
      BY <2>4, <2>7 DEF IInv, OwnInv, LocalInv
    <3> QED BY <2>7, <3>1, <3>2 DEF DirInv, HeldInv
  <2> QED BY <2>1, <2>3, <2>4, <2>5, <2>6, <2>7
<1> QED BY <1>1, DirInvariance, PTL

-----------------------------------------------------------------------------
(* The refinement. *)

(* Members, as a function of the names and the lists. *)
MembersOf(cc, cl) ==
  [n \in Name |-> UNION {ToSet(cl[k]) : k \in {j \in ClassObj : cc[j] = n}}]

(* The members of a name are the clients of the listed class that has it. *)
LEMMA MemberOf ==
  ASSUME NEW cc, NEW cl, NEW n \in Name
  PROVE  \A c : c \in MembersOf(cc, cl)[n] <=> \E k \in ClassObj : cc[k] = n /\ c \in ToSet(cl[k])
BY Zenon DEF MembersOf

(* The name of a listed class is its own: of all that are allocated, also the
   one newclass() is making.                                               *)
LEMMA OwnName ==
  ASSUME IInv, DirInv, NEW k \in ToSet(classhead)
  PROVE  \A j \in ClassObj : cliclass[j] = cliclass[k] => j = k
<1>1. cliclass[k] # Nil
  BY InToSet DEF IInv, TypeOK, ClassInv
<1>2. ASSUME NEW j \in ClassObj, cliclass[j] = cliclass[k] PROVE j = k
  <2>1. CASE j \in ToSet(classhead)
    BY <1>2, <2>1 DEF DirInv, NameInv
  <2>2. CASE j \notin ToSet(classhead)
    <3>1. RMaking(j)
      BY <1>1, <1>2, <2>2 DEF IInv, ClassInv
    <3> QED BY <1>2, <2>2, <3>1 DEF DirInv, NameInv
  <2> QED BY <2>1, <2>2
<1> QED BY <1>2

(* The members of a listed name are the clients of the class that has it. *)
LEMMA ListedMembers ==
  ASSUME IInv, DirInv, NEW k \in ToSet(classhead)
  PROVE  /\ k \in ClassObj /\ cliclass[k] \in Name /\ cliclass[k] \in Listed
         /\ \A j \in ClassObj : cliclass[j] = cliclass[k] => j = k
<1>1. k \in ClassObj /\ cliclass[k] \in Name
  BY InToSet DEF IInv, TypeOK, ClassInv
<1> QED BY <1>1, OwnName DEF Listed

(* Only these steps write what Directory.tla sees. *)
LEMMA DirectoryWriters ==
  ASSUME Next, ~Killed
  PROVE  \/ UNCHANGED <<classhead, cliclass, clilist, reached>>
         \/ (\E k \in ClassObj : RFindNew(k)) \/ RPublish \/ RLink
         \/ EUnlink \/ EPutClass \/ MClsDone
BY DEF Next, RStep, EStep, MStep, NewWork, Peer, clients, classes, lists, locks, reg, epl, con,
   BackToMenu,
   RMalloc, RAccept, RSsl, RGiveUp, RClassLock, RFindOld, RFindNoMem, RGetLock, RGetClass,
   RClsLock, RTotLock, RInsert, RUnlock,
   EWait, EHup, EIn, ERead, ECliLock, ELog, ELogFails, EClassLock, EClsLock, ETotLock,
   EUnTot, EUnCls, EUnClass, EFree, EFreeKilled, RGiveUpKilled, MClassLock, MSkip, MClsLock,
   MListCli, MCliLock, MLog, MWrite, MWriteKilled, MDone, MTotLock, MFind, MNotFound, MBash,
   MBashKilled, MBashFreed, Start, MCommand, PeerGone, RHandshake, RRead, MSession

(* The classes and the clients a step leaves alone. *)
LEMMA SameMembers ==
  ASSUME UNCHANGED <<cliclass, clilist>>
  PROVE  Members' = Members
BY DEF Members

(* A new class is not listed yet, and has no client. *)
LEMMA FindNewStutters ==
  ASSUME IInv, NEW k \in ClassObj, RFindNew(k)
  PROVE  Listed' = Listed /\ Members' = Members /\ reached' = reached
<1>1. k \notin ToSet(classhead) /\ clilist[k] = <<>> /\ ToSet(clilist[k]) = {}
  BY FreeClass, EmptyList DEF IInv, ClassInv, RFindNew
<1>2. /\ cliclass[k] = Nil /\ cliclass' = [cliclass EXCEPT ![k] = rname]
      /\ clilist' = [clilist EXCEPT ![k] = <<>>]
      /\ classhead' = classhead /\ reached' = reached
  BY DEF RFindNew, con
<1>3. clilist' = clilist
  BY <1>1, <1>2 DEF IInv, TypeOK
<1>4. \A j \in ClassObj : j # k => cliclass'[j] = cliclass[j]
  BY <1>2 DEF IInv, TypeOK
<1>5. Listed' = Listed
  <2>1. \A j \in ToSet(classhead) : cliclass'[j] = cliclass[j]
    <3>1. ToSet(classhead) \subseteq ClassObj
      BY InToSet DEF IInv, TypeOK
    <3> QED BY <1>1, <1>4, <3>1
  <2>2. Listed' = {cliclass'[j] : j \in ToSet(classhead)}
    BY <1>2 DEF Listed
  <2> QED BY <2>1, <2>2 DEF Listed
<1>6. Members' = Members
  <2>1. Members = MembersOf(cliclass, clilist) /\ Members' = MembersOf(cliclass', clilist)
    BY <1>3 DEF Members, MembersOf
  <2>2. ASSUME NEW n \in Name PROVE MembersOf(cliclass', clilist)[n] = MembersOf(cliclass, clilist)[n]
    <3> DEFINE S == MembersOf(cliclass, clilist)[n]
               T == MembersOf(cliclass', clilist)[n]
    <3>1. \A c : c \in S <=> \E j \in ClassObj : cliclass[j] = n /\ c \in ToSet(clilist[j])
      BY MemberOf
    <3>2. \A c : c \in T <=> \E j \in ClassObj : cliclass'[j] = n /\ c \in ToSet(clilist[j])
      BY MemberOf
    <3> HIDE DEF S, T
    <3>3. \A c : c \in S <=> c \in T
      BY <3>1, <3>2, <1>1, <1>4
    <3>4. S = T
      BY <3>3
    <3> QED BY <3>4 DEF S, T
  <2> HIDE DEF MembersOf
  <2>3. Members' = [n \in Name |-> Members'[n]] /\ Members = [n \in Name |-> Members[n]]
    BY DEF Members
  <2> QED BY <2>1, <2>2, <2>3
<1> QED BY <1>2, <1>5, <1>6

(* How the members change when the clients of one class do. *)
LEMMA OneClassChanges ==
  ASSUME NEW k \in ClassObj, cliclass \in [ClassObj -> Name \cup {Nil}], cliclass[k] \in Name,
         clilist \in [ClassObj -> Seq(Conn)],
         \A j \in ClassObj : cliclass[j] = cliclass[k] => j = k,
         cliclass' = cliclass,
         clilist' = [clilist EXCEPT ![k] = clilist'[k]]
  PROVE  /\ Members[cliclass[k]] = ToSet(clilist[k])
         /\ Members' = [Members EXCEPT ![cliclass[k]] = ToSet(clilist'[k])]
<1>1. Members = MembersOf(cliclass, clilist) /\ Members' = MembersOf(cliclass, clilist')
  BY DEF Members, MembersOf
<1>2. \A j \in ClassObj : j # k => clilist'[j] = clilist[j]
  OBVIOUS
<1>3. ASSUME NEW n \in Name
      PROVE  /\ n = cliclass[k] => Members[n] = ToSet(clilist[k])
             /\ Members'[n] = IF n = cliclass[k] THEN ToSet(clilist'[k]) ELSE Members[n]
  <2> DEFINE S == MembersOf(cliclass, clilist)[n]
             T == MembersOf(cliclass, clilist')[n]
  <2>1. \A c : c \in S <=> \E j \in ClassObj : cliclass[j] = n /\ c \in ToSet(clilist[j])
    BY MemberOf
  <2>2. \A c : c \in T <=> \E j \in ClassObj : cliclass[j] = n /\ c \in ToSet(clilist'[j])
    BY MemberOf
  <2> HIDE DEF S, T
  <2>3. CASE n = cliclass[k]
    <3>1. (\A c : c \in S <=> c \in ToSet(clilist[k])) /\ \A c : c \in T <=> c \in ToSet(clilist'[k])
      BY <2>1, <2>2, <2>3
    <3>2. S = ToSet(clilist[k]) /\ T = ToSet(clilist'[k])
      BY <3>1
    <3> QED BY <1>1, <2>3, <3>2 DEF S, T
  <2>4. CASE n # cliclass[k]
    <3>1. \A c : c \in S <=> c \in T
      BY <1>2, <2>1, <2>2, <2>4
    <3>2. S = T
      BY <3>1
    <3> QED BY <1>1, <2>4, <3>2 DEF S, T
  <2> QED BY <2>3, <2>4
<1>4. Members' = [n \in Name |-> Members'[n]] /\ Members = [n \in Name |-> Members[n]]
  BY DEF Members
<1> QED BY <1>3, <1>4

(* A class without clients has no part in what the members of a name are. *)
LEMMA EmptyClass ==
  ASSUME NEW cc, NEW dd, NEW cl, NEW k \in ClassObj, ToSet(cl[k]) = {},
         \A j \in ClassObj : j # k => dd[j] = cc[j],
         NEW n \in Name
  PROVE  /\ MembersOf(dd, cl)[n] = MembersOf(cc, cl)[n]
         /\ (\A j \in ClassObj : cc[j] = n => j = k) => MembersOf(cc, cl)[n] = {}
<1> DEFINE S == MembersOf(cc, cl)[n]
           T == MembersOf(dd, cl)[n]
<1>1. \A c : c \in S <=> \E j \in ClassObj : cc[j] = n /\ c \in ToSet(cl[j])
  BY MemberOf
<1>2. \A c : c \in T <=> \E j \in ClassObj : dd[j] = n /\ c \in ToSet(cl[j])
  BY MemberOf
<1> HIDE DEF S, T
<1>3. \A c : c \in S <=> c \in T
  BY <1>1, <1>2
<1>4. (\A j \in ClassObj : cc[j] = n => j = k) => \A c : c \notin S
  BY <1>1
<1>5. S = T /\ ((\A j \in ClassObj : cc[j] = n => j = k) => S = {})
  BY <1>3, <1>4
<1> QED BY <1>5 DEF S, T

(* The members stay when a class without clients goes. *)
LEMMA ClassGoes ==
  ASSUME NEW k \in ClassObj, cliclass \in [ClassObj -> Name \cup {Nil}], cliclass[k] \in Name,
         \A j \in ClassObj : cliclass[j] = cliclass[k] => j = k,
         ToSet(clilist[k]) = {},
         clilist' = clilist,
         \A j \in ClassObj : j # k => cliclass'[j] = cliclass[j]
  PROVE  Members[cliclass[k]] = {} /\ Members' = Members
<1>1. Members = MembersOf(cliclass, clilist) /\ Members' = MembersOf(cliclass', clilist)
  BY DEF Members, MembersOf
<1>2. ASSUME NEW n \in Name
      PROVE  /\ MembersOf(cliclass', clilist)[n] = MembersOf(cliclass, clilist)[n]
             /\ n = cliclass[k] => MembersOf(cliclass, clilist)[n] = {}
  <2> DEFINE cl == clilist
             cc == cliclass
             dd == cliclass'
  <2>1. /\ ToSet(cl[k]) = {} /\ cc[k] \in Name /\ \A j \in ClassObj : cc[j] = cc[k] => j = k
        /\ \A j \in ClassObj : j # k => dd[j] = cc[j]
    OBVIOUS
  <2> HIDE DEF cl, cc, dd
  <2>2. /\ MembersOf(dd, cl)[n] = MembersOf(cc, cl)[n]
        /\ (\A j \in ClassObj : cc[j] = n => j = k) => MembersOf(cc, cl)[n] = {}
    BY <2>1, EmptyClass
  <2>3. n = cc[k] => MembersOf(cc, cl)[n] = {}
    BY <2>1, <2>2
  <2> QED BY <2>2, <2>3 DEF cl, cc, dd
<1>3. ASSUME NEW n \in Name
      PROVE  Members'[n] = Members[n] /\ (n = cliclass[k] => Members[n] = {})
  BY <1>1, <1>2
<1>4. Members' = [n \in Name |-> Members'[n]] /\ Members = [n \in Name |-> Members[n]]
  BY DEF Members
<1> QED BY <1>3, <1>4

(* Every step of the server is a step of the directory, or none of its own. *)
LEMMA DirectoryStep ==
  ASSUME IInv, DirInv, Next, ~Killed
  PROVE  Dir!DNext \/ UNCHANGED <<Listed, Members, reached>>
<1>1. CASE UNCHANGED <<classhead, cliclass, clilist, reached>>
  BY <1>1, SameMembers DEF Listed
<1>2. ASSUME NEW k \in ClassObj, RFindNew(k)
      PROVE  UNCHANGED <<Listed, Members, reached>>
  BY <1>2, FindNewStutters
<1>3. CASE RPublish
  <2>1. /\ ToSet(classhead') = ToSet(classhead) \cup {rclass} /\ rclass \in ClassObj
        /\ UNCHANGED <<cliclass, clilist, reached>>
    BY <1>3, PublishFacts DEF IInv, RPublish, classes, con
  <2>2. Members' = Members
    BY <2>1, SameMembers
  <2>3. Listed' = Listed \cup {cliclass[rclass]}
    BY <2>1 DEF Listed
  <2>4. CASE rclass \in ToSet(classhead)
    <3>1. cliclass[rclass] \in Listed
      BY <2>4 DEF Listed
    <3> QED BY <2>1, <2>2, <2>3, <3>1
  <2>5. CASE rclass \notin ToSet(classhead)
    <3>1. RMaking(rclass) /\ cliclass[rclass] = rname
      BY <1>3, <2>1 DEF RPublish, RMaking, DirInv, NameInv
    <3>2. rname \in Name
      BY <1>3 DEF RPublish, IInv, TypeOK, LocalInv
    <3>3. rname \notin Listed
      BY <2>1, <2>5, <3>1 DEF Listed, DirInv, NameInv
    <3>4. Dir!Open(rname)
      BY <2>1, <2>2, <2>3, <3>1, <3>3 DEF Dir!Open
    <3> QED BY <3>2, <3>4 DEF Dir!DNext
  <2> QED BY <2>4, <2>5
<1>4. CASE RLink
  <2> DEFINE n == cliclass[rclass]
  <2>1. /\ rcli \in Conn /\ rclass \in ClassObj
        /\ clilist' = [clilist EXCEPT ![rclass] = clilist'[rclass]]
        /\ ToSet(clilist'[rclass]) = ToSet(clilist[rclass]) \cup {rcli}
        /\ rcli \notin ToSet(tothead)
        /\ UNCHANGED <<classhead, cliclass, reached>>
    BY <1>4, LinkFacts DEF RLink, IInv, OwnInv, LocalInv, classes, con
  <2>2. rclass \in ToSet(classhead)
    <3>1. InFlight(rclass) # 0
      BY <1>4 DEF RLink, InFlight
    <3>2. cliclass[rclass] # Nil
      BY <2>1, <3>1, InUse
    <3> QED BY <1>4, <2>1, <3>2 DEF RLink, IInv, ClassInv, RMaking
  <2>3. /\ n \in Name /\ n \in Listed
        /\ \A j \in ClassObj : cliclass[j] = n => j = rclass
    BY <2>2, ListedMembers
  <2>4. /\ Members[n] = ToSet(clilist[rclass])
        /\ Members' = [Members EXCEPT ![n] = ToSet(clilist'[rclass])]
    BY <2>1, <2>3, OneClassChanges DEF IInv, TypeOK
  <2>5. \A m \in Name : rcli \notin Members[m]
    <3>1. \A k \in ClassObj : rcli \notin ToSet(clilist[k])
      BY <2>1 DEF IInv, ListInv
    <3>2. Members = MembersOf(cliclass, clilist)
      BY DEF Members, MembersOf
    <3> QED BY <3>1, <3>2, MemberOf
  <2>6. Listed' = Listed
    BY <2>1 DEF Listed
  <2> HIDE DEF n
  <2>7. Dir!Join(rcli, n)
    BY <2>1, <2>3, <2>4, <2>5, <2>6 DEF Dir!Join
  <2> QED BY <2>1, <2>3, <2>7 DEF Dir!DNext
<1>5. CASE EUnlink
  <2> DEFINE k == class[ecli]
             n == cliclass[k]
  <2>1. /\ ecli \in Conn /\ k \in ClassObj
        /\ ecli \in ToSet(tothead) /\ ecli \in ToSet(clilist[k])
        /\ clilist' = [clilist EXCEPT ![k] = clilist'[k]]
        /\ ToSet(clilist'[k]) = ToSet(clilist[k]) \ {ecli}
        /\ UNCHANGED <<classhead, cliclass, reached>>
    BY <1>5, UnlinkFacts DEF EUnlink, IInv, classes, con
  <2>2. k \in ToSet(classhead)
    <3>1. cliclass[k] # Nil
      BY <2>1, InUse
    <3>2. ~RHasClasslock
      BY <1>5 DEF EUnlink, IInv, LockInv, EHasClasslock
    <3> QED BY <2>1, <3>1, <3>2 DEF IInv, ClassInv, RMaking, RHasClasslock
  <2> HIDE DEF k
  <2>3. n \in Name /\ \A j \in ClassObj : cliclass[j] = n => j = k
    BY <2>2, ListedMembers
  <2>4. /\ Members[n] = ToSet(clilist[k])
        /\ Members' = [Members EXCEPT ![n] = ToSet(clilist'[k])]
    BY <2>1, <2>3, OneClassChanges DEF IInv, TypeOK
  <2>5. Listed' = Listed
    BY <2>1 DEF Listed
  <2> HIDE DEF n
  <2>6. Dir!Leave(ecli, n)
    BY <2>1, <2>4, <2>5 DEF Dir!Leave
  <2> QED BY <2>1, <2>3, <2>6 DEF Dir!DNext
<1>6. CASE EPutClass
  <2> DEFINE k == class[ecli]
             n == cliclass[k]
  <2>1. /\ k \in ClassObj /\ k \in ToSet(classhead) /\ UNCHANGED <<clilist, reached>>
        /\ count[k] = 1 => /\ ToSet(classhead') = ToSet(classhead) \ {k}
                           /\ cliclass' = [cliclass EXCEPT ![k] = Nil]
        /\ count[k] # 1 => UNCHANGED <<classhead, cliclass>>
    BY <1>6, PutClassFacts DEF EPutClass, IInv, con
  <2>2. CASE count[k] # 1
    BY <2>1, <2>2, SameMembers DEF Listed
  <2>3. CASE count[k] = 1
    <3>1. clilist[k] = <<>> /\ ToSet(clilist[k]) = {}
      <4>1. InFlight(k) >= 1 /\ InFlight(k) \in Nat
        BY <1>6 DEF EPutClass, InFlight
      <4>2. count[k] = Len(clilist[k]) + InFlight(k) /\ clilist[k] \in Seq(Conn)
        BY <2>1 DEF IInv, TypeOK, ClassInv, RefCount
      <4>3. Len(clilist[k]) = 0
        BY <2>3, <4>1, <4>2
      <4> QED BY <4>2, <4>3, LenZero, EmptyList
    <3> HIDE DEF k
    <3>2. /\ n \in Name /\ n \in Listed
          /\ \A j \in ClassObj : cliclass[j] = n => j = k
      BY <2>1, ListedMembers
    <3>3. Listed' = Listed \ {n}
      <4>1. ToSet(classhead) \subseteq ClassObj
        BY InToSet DEF IInv, TypeOK
      <4>2. \A j \in ClassObj : j # k => cliclass'[j] = cliclass[j]
        BY <2>1, <2>3 DEF IInv, TypeOK
      <4>3. Listed' = {cliclass[j] : j \in ToSet(classhead) \ {k}}
        BY <2>1, <2>3, <4>1, <4>2 DEF Listed
      <4> QED BY <3>2, <4>1, <4>3 DEF Listed
    <3>4. Members[n] = {} /\ Members' = Members
      <4>1. \A j \in ClassObj : j # k => cliclass'[j] = cliclass[j]
        BY <2>1, <2>3 DEF IInv, TypeOK
      <4> QED BY <2>1, <3>1, <3>2, <4>1, ClassGoes DEF IInv, TypeOK
    <3> HIDE DEF n
    <3>5. Dir!Retire(n)
      BY <2>1, <3>2, <3>3, <3>4 DEF Dir!Retire
    <3> QED BY <3>2, <3>5 DEF Dir!DNext
  <2> QED BY <2>2, <2>3
<1>7. CASE MClsDone
  <2>1. UNCHANGED <<classhead, cliclass, clilist>>
    BY <1>7 DEF MClsDone, classes, lists
  <2>2. Listed' = Listed /\ Members' = Members
    BY <2>1, SameMembers DEF Listed
  <2>3. CASE op # "send"
    BY <1>7, <2>2, <2>3 DEF MClsDone
  <2>4. CASE op = "send"
    <3> DEFINE n == cliclass[mclass]
               s == clilist[mclass]
    <3>1. /\ mclass \in ClassObj /\ mclass \in ToSet(classhead)
          /\ MHasClslock(mclass) /\ mcli = Nil /\ reached' = walked
      BY <1>7, <2>4 DEF MClsDone, IInv, TypeOK, LocalInv, WalkInv, MHasClslock
    <3>2. n \in Name /\ n \in Listed /\ \A j \in ClassObj : cliclass[j] = n => j = mclass
      BY <3>1, ListedMembers
    <3>3. s \in Seq(Conn)
      BY <3>1 DEF IInv, TypeOK
    <3>4. PICK i \in 1..(Len(s) + 1) :
            mcli = Entry(s, i) /\ walked = {s[j] : j \in 1..(i - 1)}
      BY <2>4, <3>1 DEF DirInv, WalkedInv
    <3>5. Members[n] = ToSet(s)
      <4>1. clilist' = [clilist EXCEPT ![mclass] = clilist'[mclass]] /\ cliclass' = cliclass
        BY <2>1, <3>1 DEF IInv, TypeOK
      <4> QED BY <3>1, <3>2, <4>1, OneClassChanges DEF IInv, TypeOK
    <3> HIDE DEF s
    <3>6. i = Len(s) + 1
      <4>1. i \in 1..Len(s) => s[i] \in Conn
        BY <3>3
      <4> QED BY <3>1, <3>3, <3>4, <4>1 DEF Entry
    <3>7. walked = ToSet(s)
      BY <3>3, <3>4, <3>6 DEF ToSet
    <3> HIDE DEF n
    <3>8. Dir!Send(n)
      BY <2>2, <3>1, <3>2, <3>5, <3>7 DEF Dir!Send
    <3> QED BY <3>2, <3>8 DEF Dir!DNext
  <2> QED BY <2>3, <2>4
<1> QED BY <1>1, <1>2, <1>3, <1>4, <1>5, <1>6, <1>7, DirectoryWriters

(* A killed server forgets its directory. *)
LEMMA KilledForgets == ASSUME Killed PROVE Dir!Forget
<1>1. /\ cliclass' = [k \in ClassObj |-> Nil] /\ clilist' = [k \in ClassObj |-> <<>>]
      /\ classhead' = <<>> /\ reached' = {}
  BY DEF Killed
<1>2. Listed' = {}
  BY <1>1, EmptyList DEF Listed
<1>3. Members' = [n \in Name |-> {}]
  BY <1>1 DEF Members
<1> QED BY <1>1, <1>2, <1>3 DEF Dir!Forget

(* The server implements the directory: whatever its threads and peers do,
   classes appear with their first client and disappear with the last, a
   client is in one class at a time, and cmd_sendcmd() has written a command
   to exactly the clients the class has at one instant.                    *)
THEOREM ServerIsDirectory == Spec => IsDirectory
<1>1. Init => Dir!DInit
  <2> SUFFICES ASSUME Init PROVE Dir!DInit
    OBVIOUS
  <2>1. Listed = {} /\ reached = {}
    BY EmptyList DEF Init, Listed
  <2>2. Members = [n \in Name |-> {}]
    BY DEF Init, Members
  <2> QED BY <2>1, <2>2 DEF Dir!DInit
<1>2. IInv /\ DirInv /\ [Next]_vars => [Dir!DNext]_(Dir!dvars)
  <2> SUFFICES ASSUME IInv, DirInv, [Next]_vars
               PROVE  Dir!DNext \/ UNCHANGED <<Listed, Members, reached>>
    BY DEF Dir!dvars
  <2>1. CASE UNCHANGED vars
    BY <2>1, SameMembers DEF vars, classes, lists, con, Listed
  <2>2. CASE Killed
    BY <2>2, KilledForgets DEF Dir!DNext
  <2>3. CASE Next /\ ~Killed
    BY <2>3, DirectoryStep
  <2> QED BY <2>1, <2>2, <2>3
<1> QED BY <1>1, <1>2, DirInvariance, PTL DEF Spec, IsDirectory, Dir!DSpec
=============================================================================
