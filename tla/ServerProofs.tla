---------------------------- MODULE ServerProofs ----------------------------
(***************************************************************************)
(* Safety of Server.tla for any number of clients, classes, names and any  *)
(* PARA_NUM.  The invariants the runs check are not inductive one by one:  *)
(* the types need the lists to hold what is taken out of them, the lists   *)
(* need the locks, and the locks need to know who is where.  IInv puts     *)
(* together, per thread, what its program counter says about the locks it  *)
(* holds (LockInv), its locals (LocalInv) and the client it works on       *)
(* (OwnInv), and for the shared data what the lists (ListInv), the classes *)
(* and their counts (ClassInv) and the console's walk (WalkInv) satisfy.   *)
(***************************************************************************)
EXTENDS ServerLists

(* What a client that is linked holds. *)
Full == {"mem", "fd", "ssl"}

(* Which locks each thread holds where. *)
RHasClasslock == rpc \in {"find", "getlock", "getclass", "publish"}
EHasClasslock == epc \in {"clslock", "totlock", "unlink", "putclass", "untot", "uncls", "unclass"}
MHasClasslock == mpc \in {"class", "cli", "log", "write"}
RHasTotlock == rpc \in {"link", "insert", "unlock"}
EHasTotlock == epc \in {"unlink", "putclass", "untot"}
MHasTotlock == mpc = "find"
RHasClslock(k) == rclass = k /\ rpc \in {"getclass", "totlock", "link", "insert", "unlock"}
EHasClslock(k) ==
  epc \in {"totlock", "unlink", "putclass", "untot", "uncls"} /\ class[ecli] = k
MHasClslock(k) == mclass = k /\ mpc \in {"cli", "log", "write"}

(* A mutex is held by the thread that is between its lock and its unlock. *)
LockInv ==
  /\ classlock = "R" <=> RHasClasslock
  /\ classlock = "E" <=> EHasClasslock
  /\ classlock = "M" <=> MHasClasslock
  /\ totlock = "R" <=> RHasTotlock
  /\ totlock = "E" <=> EHasTotlock
  /\ totlock = "M" <=> MHasTotlock
  /\ \A k \in ClassObj :
       /\ clslock[k] = "R" <=> RHasClslock(k)
       /\ clslock[k] = "E" <=> EHasClslock(k)
       /\ clslock[k] = "M" <=> MHasClslock(k)
  /\ \A c \in Conn :
       /\ clilock[c] = "E" <=> ecli = c /\ epc = "log"
       /\ clilock[c] = "M" <=> mcli = c /\ mpc = "log"

(* The locals of a thread are set exactly where it uses them. *)
LocalInv ==
  /\ rpc = "dead" <=> epc = "dead"
  /\ rpc = "dead" <=> mpc = "dead"
  /\ rcli = Nil <=> rpc \in {"select", "dead"}
  /\ rclass # Nil <=> rpc \in {"getlock", "getclass", "publish", "clslock", "totlock",
                               "link", "insert", "unlock"}
  /\ rname # Nil <=> rpc \in {"classlock", "find", "getlock", "getclass", "publish", "nomem"}
  /\ ecli = Nil <=> epc \in {"loop", "dead"}
  /\ mpc \in {"cli", "log", "write"} => mclass # Nil /\ op \in {"listcli", "send"}
  /\ mpc \in {"classlock", "class"} => op \in {"listclass", "listcli", "send"}
  /\ mpc \in {"log", "write", "bash"} => mcli # Nil

(* The client R is registering, the one E serves or frees, and the events E
   has not looked at yet.                                                  *)
OwnInv ==
  /\ rcli # Nil =>
       /\ rpc = "accept" => res[rcli] = {"mem"}
       /\ rpc = "ssl" => res[rcli] = {"mem", "fd"}
       /\ rpc \in {"clslock", "totlock", "link", "insert", "unlock"} => class[rcli] = rclass
       /\ rpc \notin {"accept", "ssl"} => res[rcli] = Full
       /\ rpc \in {"insert", "unlock"} => rcli \in ToSet(tothead)
       /\ rpc \notin {"insert", "unlock"} => rcli \notin ToSet(tothead) /\ rcli # ecli
  /\ ecli # Nil =>
       /\ res[ecli] = Full /\ class[ecli] \in ClassObj
       /\ epc \in {"read", "clilock", "log", "classlock", "clslock", "totlock", "unlink"} <=>
            ecli \in ToSet(tothead)
  /\ evin \cup evhup \subseteq ToSet(tothead) \ {ecli}
  /\ evin \cap evhup = {}
  /\ watched \subseteq ToSet(tothead)

(* A linked client is on tothead and on the clilist of its class. *)
ListInv ==
  /\ IsInjective(tothead)
  /\ \A k \in ClassObj :
       /\ IsInjective(clilist[k])
       /\ \A c \in ToSet(clilist[k]) : class[c] = k /\ c \in ToSet(tothead)
  /\ \A c \in ToSet(tothead) :
       class[c] \in ClassObj /\ c \in ToSet(clilist[class[c]]) /\ res[c] = Full

(* The class newclass() has found or made. *)
RMaking(k) == rclass = k /\ rpc \in {"getlock", "getclass", "publish"}

(* Allocated, listed and referenced are the same for a class. *)
ClassInv ==
  /\ IsInjective(classhead)
  /\ \A k \in ClassObj : cliclass[k] # Nil <=> k \in ToSet(classhead) \/ RMaking(k)
  /\ \A k \in ClassObj : k \in ToSet(classhead) => count[k] >= 1
  /\ \A k \in ClassObj : count[k] >= 1 => k \in ToSet(classhead) \/ (rclass = k /\ rpc = "publish")
  /\ RefCount

(* The console stands on entries of the lists whose locks it holds. *)
WalkInv ==
  /\ mpc \in {"class", "cli", "log", "write"} /\ mclass # Nil => mclass \in ToSet(classhead)
  /\ mpc \in {"cli", "log", "write"} /\ mcli # Nil => mcli \in ToSet(clilist[mclass])

(* The inductive invariant. *)
IInv == TypeOK /\ LockInv /\ LocalInv /\ OwnInv /\ ListInv /\ ClassInv /\ WalkInv

USE ServerAssumption DEF Thread, Op

(* RLink adds the client to both lists. *)
LEMMA LinkFacts ==
  ASSUME TypeOK, LocalInv, OwnInv, ListInv, RLink
  PROVE  /\ rcli \in Conn /\ rclass \in ClassObj
         /\ tothead' \in Seq(Conn) /\ IsInjective(tothead')
         /\ ToSet(tothead') = ToSet(tothead) \cup {rcli}
         /\ clilist' = [clilist EXCEPT ![rclass] = clilist'[rclass]]
         /\ clilist'[rclass] \in Seq(Conn) /\ IsInjective(clilist'[rclass])
         /\ ToSet(clilist'[rclass]) = ToSet(clilist[rclass]) \cup {rcli}
         /\ Len(clilist'[rclass]) = Len(clilist[rclass]) + 1
<1>1. rcli \in Conn /\ rclass \in ClassObj
  BY DEF TypeOK, LocalInv, RLink
<1>2. rcli \notin ToSet(tothead) /\ rcli \notin ToSet(clilist[rclass])
  BY <1>1 DEF OwnInv, ListInv, RLink
<1>3. tothead' = list_add_tail(tothead, rcli)
      /\ clilist' = [clilist EXCEPT ![rclass] = list_add_tail(clilist[rclass], rcli)]
  BY DEF RLink
<1>4. clilist'[rclass] = list_add_tail(clilist[rclass], rcli)
  BY <1>1, <1>3 DEF TypeOK
<1>5. tothead \in Seq(Conn) /\ IsInjective(tothead)
  BY DEF TypeOK, ListInv
<1>6. /\ tothead' \in Seq(Conn) /\ IsInjective(tothead')
      /\ ToSet(tothead') = ToSet(tothead) \cup {rcli}
  BY <1>1, <1>2, <1>3, <1>5, ListAddTail
<1>7. /\ clilist'[rclass] \in Seq(Conn) /\ IsInjective(clilist'[rclass])
      /\ ToSet(clilist'[rclass]) = ToSet(clilist[rclass]) \cup {rcli}
      /\ Len(clilist'[rclass]) = Len(clilist[rclass]) + 1
  <2> DEFINE s == clilist[rclass]
  <2>1. s \in Seq(Conn) /\ IsInjective(s) /\ rcli \notin ToSet(s)
    BY <1>1, <1>2 DEF TypeOK, ListInv
  <2>2. clilist'[rclass] = list_add_tail(s, rcli)
    BY <1>4
  <2> HIDE DEF s
  <2>3. /\ list_add_tail(s, rcli) \in Seq(Conn) /\ IsInjective(list_add_tail(s, rcli))
        /\ ToSet(list_add_tail(s, rcli)) = ToSet(s) \cup {rcli}
        /\ Len(list_add_tail(s, rcli)) = Len(s) + 1
    BY <1>1, <2>1, ListAddTail
  <2> QED BY <2>2, <2>3 DEF s
<1> QED BY <1>1, <1>3, <1>4, <1>6, <1>7

(* EUnlink takes the client off both lists. *)
LEMMA UnlinkFacts ==
  ASSUME TypeOK, LocalInv, OwnInv, ListInv, EUnlink
  PROVE  /\ ecli \in Conn /\ class[ecli] \in ClassObj
         /\ ecli \in ToSet(tothead) /\ ecli \in ToSet(clilist[class[ecli]])
         /\ tothead' \in Seq(Conn) /\ IsInjective(tothead')
         /\ ToSet(tothead') = ToSet(tothead) \ {ecli}
         /\ clilist' = [clilist EXCEPT ![class[ecli]] = clilist'[class[ecli]]]
         /\ clilist'[class[ecli]] \in Seq(Conn) /\ IsInjective(clilist'[class[ecli]])
         /\ ToSet(clilist'[class[ecli]]) = ToSet(clilist[class[ecli]]) \ {ecli}
         /\ Len(clilist'[class[ecli]]) = Len(clilist[class[ecli]]) - 1
<1> DEFINE k == class[ecli]
<1>1. ecli \in Conn /\ ecli \in ToSet(tothead)
  BY DEF TypeOK, LocalInv, OwnInv, EUnlink
<1>2. k \in ClassObj /\ ecli \in ToSet(clilist[k])
  BY <1>1 DEF ListInv
<1> HIDE DEF k
<1>3. tothead' = list_del(tothead, ecli)
      /\ clilist' = [clilist EXCEPT ![k] = list_del(clilist[k], ecli)]
  BY DEF EUnlink, k
<1>4. clilist'[k] = list_del(clilist[k], ecli)
  BY <1>2, <1>3 DEF TypeOK
<1>5. clilist' = [clilist EXCEPT ![k] = clilist'[k]]
  BY <1>3, <1>4
<1>6. /\ tothead' \in Seq(Conn) /\ IsInjective(tothead')
      /\ ToSet(tothead') = ToSet(tothead) \ {ecli}
  BY <1>1, <1>3, ListDel DEF TypeOK, ListInv
<1>7. clilist[k] \in Seq(Conn) /\ IsInjective(clilist[k])
  BY <1>2 DEF TypeOK, ListInv
<1>8. /\ clilist'[k] \in Seq(Conn) /\ IsInjective(clilist'[k])
      /\ ToSet(clilist'[k]) = ToSet(clilist[k]) \ {ecli}
      /\ Len(clilist'[k]) = Len(clilist[k]) - 1
  BY <1>2, <1>4, <1>7, ListDel
<1> QED BY <1>1, <1>2, <1>5, <1>6, <1>8 DEF k

(* RPublish lists the class, once. *)
LEMMA PublishFacts ==
  ASSUME TypeOK, LocalInv, ClassInv, RPublish
  PROVE  /\ rcli \in Conn /\ rclass \in ClassObj
         /\ classhead' \in Seq(ClassObj) /\ IsInjective(classhead')
         /\ ToSet(classhead') = ToSet(classhead) \cup {rclass}
<1>1. rcli \in Conn /\ rclass \in ClassObj
  BY DEF TypeOK, LocalInv, RPublish
<1>2. CASE rclass \in ToSet(classhead)
  BY <1>1, <1>2 DEF RPublish, TypeOK, ClassInv
<1>3. CASE rclass \notin ToSet(classhead)
  <2>1. classhead' = list_add_tail(classhead, rclass)
    BY <1>3 DEF RPublish
  <2>2. classhead \in Seq(ClassObj) /\ IsInjective(classhead)
    BY DEF TypeOK, ClassInv
  <2> QED BY <1>1, <1>3, <2>1, <2>2, ListAddTail
<1> QED BY <1>2, <1>3

(* EPutClass drops a reference of a listed class that no other thread is at,
   and unlists it with the last one.                                       *)
LEMMA PutClassFacts ==
  ASSUME TypeOK, LockInv, LocalInv, OwnInv, ClassInv, EPutClass
  PROVE  /\ ecli \in Conn /\ class[ecli] \in ClassObj
         /\ count[class[ecli]] \in Nat \ {0}
         /\ ~RHasClasslock /\ ~MHasClasslock
         /\ class[ecli] \in ToSet(classhead)
         /\ count' = [count EXCEPT ![class[ecli]] = count[class[ecli]] - 1]
         /\ classhead' \in Seq(ClassObj) /\ IsInjective(classhead')
         /\ count[class[ecli]] = 1 =>
              /\ ToSet(classhead') = ToSet(classhead) \ {class[ecli]}
              /\ cliclass' = [cliclass EXCEPT ![class[ecli]] = Nil]
         /\ count[class[ecli]] # 1 => UNCHANGED <<classhead, cliclass>>
<1> DEFINE k == class[ecli]
<1>1. ecli \in Conn /\ k \in ClassObj
  BY DEF TypeOK, LocalInv, OwnInv, EPutClass
<1>2. ~RHasClasslock /\ ~MHasClasslock
  BY DEF EPutClass, LockInv, EHasClasslock
<1>3. count[k] \in Nat \ {0}
  <2>1. count[k] = Len(clilist[k]) + InFlight(k) /\ Len(clilist[k]) \in Nat
    BY <1>1 DEF ClassInv, RefCount, TypeOK
  <2>2. InFlight(k) \in Nat \ {0}
    BY DEF InFlight, EPutClass
  <2> QED BY <2>1, <2>2
<1>4. k \in ToSet(classhead)
  BY <1>1, <1>2, <1>3 DEF ClassInv, RHasClasslock
<1> HIDE DEF k
<1>5. /\ count' = [count EXCEPT ![k] = count[k] - 1]
      /\ IF count[k] = 1
         THEN classhead' = list_del(classhead, k) /\ cliclass' = [cliclass EXCEPT ![k] = Nil]
         ELSE UNCHANGED <<classhead, cliclass>>
  BY DEF EPutClass, putclass, k
<1>6. classhead \in Seq(ClassObj) /\ IsInjective(classhead)
  BY DEF TypeOK, ClassInv
<1>7. /\ list_del(classhead, k) \in Seq(ClassObj) /\ IsInjective(list_del(classhead, k))
      /\ ToSet(list_del(classhead, k)) = ToSet(classhead) \ {k}
  BY <1>4, <1>6, ListDel
<1> QED BY <1>1, <1>2, <1>3, <1>4, <1>5, <1>6, <1>7 DEF k

(* What EPutClass writes keeps its type. *)
LEMMA PutClassTypes ==
  ASSUME TypeOK, LockInv, LocalInv, OwnInv, ClassInv, EPutClass
  PROVE  /\ count' \in [ClassObj -> Nat]
         /\ cliclass' \in [ClassObj -> Name \cup {Nil}]
         /\ classhead' \in Seq(ClassObj)
<1>1. /\ class[ecli] \in ClassObj
      /\ count[class[ecli]] \in Nat \ {0}
      /\ count' = [count EXCEPT ![class[ecli]] = count[class[ecli]] - 1]
      /\ classhead' \in Seq(ClassObj)
      /\ count[class[ecli]] = 1 => cliclass' = [cliclass EXCEPT ![class[ecli]] = Nil]
      /\ count[class[ecli]] # 1 => cliclass' = cliclass
  BY PutClassFacts
<1>2. count \in [ClassObj -> Nat] /\ cliclass \in [ClassObj -> Name \cup {Nil}]
  BY DEF TypeOK
<1> QED BY <1>1, <1>2

(* Where the console can go from where it stands. *)
LEMMA WalkFacts ==
  ASSUME TypeOK, LocalInv, WalkInv
  PROVE  /\ ToSet(classhead) \subseteq ClassObj
         /\ \A k \in ClassObj : ToSet(clilist[k]) \subseteq Conn
         /\ FirstEntry(classhead) \in ToSet(classhead) \cup {Nil}
         /\ mpc \in {"class", "cli", "log", "write"} /\ mclass # Nil =>
              NextEntry(classhead, mclass) \in ToSet(classhead) \cup {Nil}
         /\ mclass # Nil => FirstEntry(clilist[mclass]) \in ToSet(clilist[mclass]) \cup {Nil}
         /\ mpc \in {"cli", "log", "write"} /\ mcli # Nil =>
              NextEntry(clilist[mclass], mcli) \in ToSet(clilist[mclass]) \cup {Nil}
<1>1. classhead \in Seq(ClassObj) /\ \A k \in ClassObj : clilist[k] \in Seq(Conn)
  BY DEF TypeOK
<1>2. mclass # Nil => clilist[mclass] \in Seq(Conn)
  BY <1>1 DEF TypeOK
<1>3. ToSet(classhead) \subseteq ClassObj /\ \A k \in ClassObj : ToSet(clilist[k]) \subseteq Conn
  BY <1>1, InToSet
<1>4. FirstEntry(classhead) \in ToSet(classhead) \cup {Nil}
  BY <1>1, WalkEntries
<1>5. mclass # Nil => FirstEntry(clilist[mclass]) \in ToSet(clilist[mclass]) \cup {Nil}
  BY <1>2, WalkEntries
<1>6. ASSUME mpc \in {"class", "cli", "log", "write"}, mclass # Nil
      PROVE  NextEntry(classhead, mclass) \in ToSet(classhead) \cup {Nil}
  <2>1. mclass \in ToSet(classhead)
    BY <1>6 DEF WalkInv
  <2> QED BY <1>1, <2>1, WalkEntries
<1>7. ASSUME mpc \in {"cli", "log", "write"}, mcli # Nil
      PROVE  NextEntry(clilist[mclass], mcli) \in ToSet(clilist[mclass]) \cup {Nil}
  <2>1. mcli \in ToSet(clilist[mclass]) /\ mclass # Nil
    BY <1>7 DEF WalkInv, LocalInv
  <2> QED BY <1>2, <2>1, WalkEntries
<1> QED BY <1>3, <1>4, <1>5, <1>6, <1>7

(* The server starts with nothing allocated and no lock held. *)
LEMMA InitInv == Init => IInv
<1> SUFFICES ASSUME Init PROVE IInv
  OBVIOUS
<1>1. TypeOK
  BY DEF Init, TypeOK
<1>2. LockInv /\ LocalInv
  BY DEF Init, LockInv, LocalInv, RHasClasslock, EHasClasslock, MHasClasslock, RHasTotlock,
     EHasTotlock, MHasTotlock, RHasClslock, EHasClslock, MHasClslock
<1>3. OwnInv /\ ListInv /\ ClassInv /\ WalkInv
  BY EmptyList DEF Init, OwnInv, ListInv, ClassInv, WalkInv, RMaking, RefCount, InFlight
<1> QED BY <1>1, <1>2, <1>3 DEF IInv

(* So does a killed process end. *)
LEMMA KilledInv == ASSUME Killed PROVE IInv'
<1>1. TypeOK'
  BY DEF Killed, TypeOK
<1>2. LockInv' /\ LocalInv'
  BY DEF Killed, LockInv, LocalInv, RHasClasslock, EHasClasslock, MHasClasslock, RHasTotlock,
     EHasTotlock, MHasTotlock, RHasClslock, EHasClslock, MHasClslock
<1>3. OwnInv' /\ ListInv' /\ ClassInv' /\ WalkInv'
  BY EmptyList DEF Killed, OwnInv, ListInv, ClassInv, WalkInv, RMaking, RefCount, InFlight
<1> QED BY <1>1, <1>2, <1>3 DEF IInv

(* Steps keep the types. *)
LEMMA TypeStep == ASSUME IInv, Next, ~Killed PROVE TypeOK'
<1> USE DEF IInv, TypeOK, LocalInv, OwnInv, clients, classes, lists, locks, reg, epl, con,
            BackToMenu
<1>1. CASE RStep
  <2>1. CASE RAccept
    BY <2>1 DEF RAccept, LocalInv
  <2>2. CASE RSsl
    BY <2>2 DEF RSsl, LocalInv
  <2>3. CASE RClassLock
    BY <2>3 DEF RClassLock
  <2>4. CASE RFindOld
    BY <2>4 DEF RFindOld
  <2>5. ASSUME NEW k \in ClassObj, RFindNew(k) PROVE TypeOK'
    BY <2>5 DEF RFindNew
  <2>6. CASE RFindNoMem
    BY <2>6 DEF RFindNoMem
  <2>7. CASE RGetLock
    BY <2>7 DEF RGetLock
  <2>8. CASE RGetClass
    BY <2>8 DEF RGetClass, getclass
  <2>9. CASE RPublish
    BY <2>9, PublishFacts DEF RPublish
  <2>10. CASE RClsLock
    BY <2>10 DEF RClsLock
  <2>11. CASE RTotLock
    BY <2>11 DEF RTotLock
  <2>12. CASE RLink
    BY <2>12, LinkFacts DEF RLink
  <2>13. CASE RInsert
    BY <2>13 DEF RInsert
  <2>14. CASE RUnlock
    BY <2>14 DEF RUnlock
  <2>15. CASE RGiveUp
    BY <2>15 DEF RGiveUp, Clean
  <2> QED BY <1>1, <2>1, <2>2, <2>3, <2>4, <2>5, <2>6, <2>7, <2>8, <2>9, <2>10, <2>11, <2>12,
             <2>13, <2>14, <2>15 DEF RStep, RGiveUpKilled
<1>2. CASE EStep
  <2>1. CASE EWait
    BY <2>1 DEF EWait
  <2>2. ASSUME NEW c \in Conn, EHup(c) PROVE TypeOK'
    BY <2>2 DEF EHup
  <2>3. ASSUME NEW c \in Conn, EIn(c) PROVE TypeOK'
    BY <2>3 DEF EIn
  <2>4. CASE ERead
    BY <2>4 DEF ERead
  <2>5. CASE ECliLock
    BY <2>5 DEF ECliLock
  <2>6. CASE ELog
    BY <2>6 DEF ELog
  <2>7. CASE EClassLock
    BY <2>7 DEF EClassLock
  <2>8. CASE EClsLock
    BY <2>8 DEF EClsLock
  <2>9. CASE ETotLock
    BY <2>9 DEF ETotLock
  <2>10. CASE EUnlink
    BY <2>10, UnlinkFacts DEF EUnlink
  <2>11. CASE EPutClass
    <3>1. /\ count' \in [ClassObj -> Nat]
          /\ cliclass' \in [ClassObj -> Name \cup {Nil}]
          /\ classhead' \in Seq(ClassObj)
      BY <2>11, PutClassTypes
    <3>2. UNCHANGED <<clients, clilist, tothead, watched, locks, reg, ecli, evin, evhup, con>>
          /\ epc' = "untot"
      BY <2>11 DEF EPutClass
    <3> QED BY <3>1, <3>2
  <2>12. CASE EUnTot
    BY <2>12 DEF EUnTot
  <2>13. CASE EUnCls
    BY <2>13 DEF EUnCls
  <2>14. CASE EUnClass
    BY <2>14 DEF EUnClass
  <2>15. CASE EFree
    BY <2>15 DEF EFree
  <2> QED BY <1>2, <2>1, <2>2, <2>3, <2>4, <2>5, <2>6, <2>7, <2>8, <2>9, <2>10, <2>11, <2>12,
             <2>13, <2>14, <2>15 DEF EStep, ELogFails, EFreeKilled
<1>3. CASE MStep
  <2>1. CASE MClassLock
    BY <2>1, WalkFacts DEF MClassLock, LocalInv
  <2>2. CASE MSkip
    BY <2>2, WalkFacts DEF MSkip, LocalInv
  <2>3. CASE MClsLock
    BY <2>3, WalkFacts DEF MClsLock, LocalInv
  <2>4. CASE MListCli
    BY <2>4, WalkFacts DEF MListCli, LocalInv
  <2>5. CASE MCliLock
    BY <2>5 DEF MCliLock
  <2>6. CASE MLog
    BY <2>6 DEF MLog
  <2>7. CASE MWrite
    BY <2>7, WalkFacts DEF MWrite, WrittenTo, LocalInv
  <2>8. CASE MClsDone
    BY <2>8, WalkFacts DEF MClsDone, LocalInv
  <2>9. CASE MDone
    BY <2>9 DEF MDone
  <2>10. CASE MTotLock
    BY <2>10 DEF MTotLock
  <2>11. CASE MFind
    BY <2>11 DEF MFind
  <2>12. CASE MNotFound
    BY <2>12 DEF MNotFound
  <2>13. CASE MBash
    BY <2>13 DEF MBash, WrittenTo
  <2>14. CASE MBashFreed
    BY <2>14 DEF MBashFreed
  <2> QED BY <1>3, <2>1, <2>2, <2>3, <2>4, <2>5, <2>6, <2>7, <2>8, <2>9, <2>10, <2>11, <2>12,
             <2>13, <2>14 DEF MStep, MWriteKilled, MBashKilled
<1>4. CASE NewWork \/ Peer
  <2>1. CASE Start
    BY <2>1 DEF Start
  <2>2. ASSUME NEW c \in Conn, RMalloc(c) PROVE TypeOK'
    BY <2>2 DEF RMalloc
  <2>3. ASSUME NEW o \in Op, NEW a \in Name \cup Mac \cup {Nil}, MCommand(o, a) PROVE TypeOK'
    BY <2>3 DEF MCommand
  <2>4. ASSUME NEW c \in Conn, PeerGone(c) PROVE TypeOK'
    BY <2>4 DEF PeerGone
  <2>5. CASE RHandshake
    BY <2>5 DEF RHandshake
  <2>6. ASSUME NEW n \in Name, NEW m \in Mac, RRead(n, m) PROVE TypeOK'
    BY <2>6 DEF RRead
  <2>7. CASE MSession
    BY <2>7 DEF MSession
  <2> QED BY <1>4, <2>1, <2>2, <2>3, <2>4, <2>5, <2>6, <2>7 DEF NewWork, Peer
<1> QED BY <1>1, <1>2, <1>3, <1>4 DEF Next

(* Steps keep the owners of the mutexes. *)
LEMMA LockStep == ASSUME IInv, Next, ~Killed PROVE LockInv'
<1> USE DEF IInv, TypeOK, LockInv, LocalInv, OwnInv,
       RHasClasslock, EHasClasslock, MHasClasslock, RHasTotlock, EHasTotlock,
       MHasTotlock, RHasClslock, EHasClslock, MHasClslock,
       clients, classes, lists, locks, reg, epl, con, BackToMenu
<1>1. CASE RStep
  <2>1. CASE RAccept
    BY <2>1 DEF RAccept
  <2>2. CASE RSsl
    BY <2>2 DEF RSsl
  <2>3. CASE RClassLock
    BY <2>3 DEF RClassLock
  <2>4. CASE RFindOld
    BY <2>4 DEF RFindOld
  <2>5. ASSUME NEW k \in ClassObj, RFindNew(k) PROVE LockInv'
    BY <2>5 DEF RFindNew
  <2>6. CASE RFindNoMem
    BY <2>6 DEF RFindNoMem
  <2>7. CASE RGetLock
    BY <2>7 DEF RGetLock
  <2>8. CASE RGetClass
    BY <2>8 DEF RGetClass
  <2>9. CASE RPublish
    BY <2>9 DEF RPublish
  <2>10. CASE RClsLock
    BY <2>10 DEF RClsLock
  <2>11. CASE RTotLock
    BY <2>11 DEF RTotLock
  <2>12. CASE RLink
    BY <2>12 DEF RLink
  <2>13. CASE RInsert
    BY <2>13 DEF RInsert
  <2>14. CASE RUnlock
    BY <2>14 DEF RUnlock
  <2>15. CASE RGiveUp
    BY <2>15 DEF RGiveUp, Clean
  <2> QED BY <1>1, <2>1, <2>2, <2>3, <2>4, <2>5, <2>6, <2>7, <2>8, <2>9, <2>10, <2>11, <2>12,
             <2>13, <2>14, <2>15 DEF RStep, RGiveUpKilled
<1>2. CASE EStep
  <2>1. CASE EWait
    BY <2>1 DEF EWait
  <2>2. ASSUME NEW c \in Conn, EHup(c) PROVE LockInv'
    BY <2>2 DEF EHup
  <2>3. ASSUME NEW c \in Conn, EIn(c) PROVE LockInv'
    BY <2>3 DEF EIn
  <2>4. CASE ERead
    BY <2>4 DEF ERead
  <2>5. CASE ECliLock
    BY <2>5 DEF ECliLock
  <2>6. CASE ELog
    BY <2>6 DEF ELog
  <2>7. CASE EClassLock
    BY <2>7 DEF EClassLock
  <2>8. CASE EClsLock
    BY <2>8 DEF EClsLock
  <2>9. CASE ETotLock
    BY <2>9 DEF ETotLock
  <2>10. CASE EUnlink
    BY <2>10 DEF EUnlink
  <2>11. CASE EPutClass
    BY <2>11 DEF EPutClass
  <2>12. CASE EUnTot
    BY <2>12 DEF EUnTot
  <2>13. CASE EUnCls
    BY <2>13 DEF EUnCls
  <2>14. CASE EUnClass
    BY <2>14 DEF EUnClass
  <2>15. CASE EFree
    BY <2>15 DEF EFree
  <2> QED BY <1>2, <2>1, <2>2, <2>3, <2>4, <2>5, <2>6, <2>7, <2>8, <2>9, <2>10, <2>11, <2>12,
             <2>13, <2>14, <2>15 DEF EStep, ELogFails, EFreeKilled
<1>3. CASE MStep
  <2>1. CASE MClassLock
    BY <2>1 DEF MClassLock
  <2>2. CASE MSkip
    BY <2>2 DEF MSkip
  <2>3. CASE MClsLock
    BY <2>3 DEF MClsLock
  <2>4. CASE MListCli
    BY <2>4 DEF MListCli
  <2>5. CASE MCliLock
    BY <2>5 DEF MCliLock
  <2>6. CASE MLog
    BY <2>6 DEF MLog
  <2>7. CASE MWrite
    BY <2>7 DEF MWrite
  <2>8. CASE MClsDone
    BY <2>8 DEF MClsDone
  <2>9. CASE MDone
    BY <2>9 DEF MDone
  <2>10. CASE MTotLock
    BY <2>10 DEF MTotLock
  <2>11. CASE MFind
    BY <2>11 DEF MFind
  <2>12. CASE MNotFound
    BY <2>12 DEF MNotFound
  <2>13. CASE MBash
    BY <2>13 DEF MBash
  <2>14. CASE MBashFreed
    BY <2>14 DEF MBashFreed
  <2> QED BY <1>3, <2>1, <2>2, <2>3, <2>4, <2>5, <2>6, <2>7, <2>8, <2>9, <2>10, <2>11, <2>12,
             <2>13, <2>14 DEF MStep, MWriteKilled, MBashKilled
<1>4. CASE NewWork \/ Peer
  <2>1. CASE Start
    BY <2>1 DEF Start
  <2>2. ASSUME NEW c \in Conn, RMalloc(c) PROVE LockInv'
    BY <2>2 DEF RMalloc
  <2>3. ASSUME NEW o \in Op, NEW a \in Name \cup Mac \cup {Nil}, MCommand(o, a) PROVE LockInv'
    BY <2>3 DEF MCommand
  <2>4. ASSUME NEW c \in Conn, PeerGone(c) PROVE LockInv'
    BY <2>4 DEF PeerGone
  <2>5. CASE RHandshake
    BY <2>5 DEF RHandshake
  <2>6. ASSUME NEW n \in Name, NEW m \in Mac, RRead(n, m) PROVE LockInv'
    BY <2>6 DEF RRead
  <2>7. CASE MSession
    BY <2>7 DEF MSession
  <2> QED BY <1>4, <2>1, <2>2, <2>3, <2>4, <2>5, <2>6, <2>7 DEF NewWork, Peer
<1> QED BY <1>1, <1>2, <1>3, <1>4 DEF Next

(* Steps keep the locals of the threads. *)
LEMMA LocalStep == ASSUME IInv, Next, ~Killed PROVE LocalInv'
<1> USE DEF IInv, TypeOK, LocalInv, clients, classes, lists, locks, reg, epl, con, BackToMenu
<1>1. CASE RStep
  <2>1. CASE RAccept
    BY <2>1 DEF RAccept
  <2>2. CASE RSsl
    BY <2>2 DEF RSsl
  <2>3. CASE RClassLock
    BY <2>3 DEF RClassLock
  <2>4. CASE RFindOld
    <3>1. PICK i \in DOMAIN classhead : rclass' = classhead[i]
      BY <2>4 DEF RFindOld
    <3> QED BY <2>4, <3>1 DEF RFindOld
  <2>5. ASSUME NEW k \in ClassObj, RFindNew(k) PROVE LocalInv'
    BY <2>5 DEF RFindNew
  <2>6. CASE RFindNoMem
    BY <2>6 DEF RFindNoMem
  <2>7. CASE RGetLock
    BY <2>7 DEF RGetLock
  <2>8. CASE RGetClass
    BY <2>8 DEF RGetClass
  <2>9. CASE RPublish
    BY <2>9 DEF RPublish
  <2>10. CASE RClsLock
    BY <2>10 DEF RClsLock
  <2>11. CASE RTotLock
    BY <2>11 DEF RTotLock
  <2>12. CASE RLink
    BY <2>12 DEF RLink
  <2>13. CASE RInsert
    BY <2>13 DEF RInsert
  <2>14. CASE RUnlock
    BY <2>14 DEF RUnlock
  <2>15. CASE RGiveUp
    BY <2>15 DEF RGiveUp, Clean
  <2> QED BY <1>1, <2>1, <2>2, <2>3, <2>4, <2>5, <2>6, <2>7, <2>8, <2>9, <2>10, <2>11, <2>12,
             <2>13, <2>14, <2>15 DEF RStep, RGiveUpKilled
<1>2. CASE EStep
  <2>1. CASE EWait
    BY <2>1 DEF EWait
  <2>2. ASSUME NEW c \in Conn, EHup(c) PROVE LocalInv'
    BY <2>2 DEF EHup
  <2>3. ASSUME NEW c \in Conn, EIn(c) PROVE LocalInv'
    BY <2>3 DEF EIn
  <2>4. CASE ERead
    BY <2>4 DEF ERead
  <2>5. CASE ECliLock
    BY <2>5 DEF ECliLock
  <2>6. CASE ELog
    BY <2>6 DEF ELog
  <2>7. CASE EClassLock
    BY <2>7 DEF EClassLock
  <2>8. CASE EClsLock
    BY <2>8 DEF EClsLock
  <2>9. CASE ETotLock
    BY <2>9 DEF ETotLock
  <2>10. CASE EUnlink
    BY <2>10 DEF EUnlink
  <2>11. CASE EPutClass
    BY <2>11 DEF EPutClass
  <2>12. CASE EUnTot
    BY <2>12 DEF EUnTot
  <2>13. CASE EUnCls
    BY <2>13 DEF EUnCls
  <2>14. CASE EUnClass
    BY <2>14 DEF EUnClass
  <2>15. CASE EFree
    BY <2>15 DEF EFree
  <2> QED BY <1>2, <2>1, <2>2, <2>3, <2>4, <2>5, <2>6, <2>7, <2>8, <2>9, <2>10, <2>11, <2>12,
             <2>13, <2>14, <2>15 DEF EStep, ELogFails, EFreeKilled
<1>3. CASE MStep
  <2>1. CASE MClassLock
    BY <2>1 DEF MClassLock
  <2>2. CASE MSkip
    BY <2>2 DEF MSkip, Skips
  <2>3. CASE MClsLock
    BY <2>3 DEF MClsLock, Skips
  <2>4. CASE MListCli
    BY <2>4 DEF MListCli
  <2>5. CASE MCliLock
    BY <2>5 DEF MCliLock
  <2>6. CASE MLog
    BY <2>6 DEF MLog
  <2>7. CASE MWrite
    BY <2>7 DEF MWrite
  <2>8. CASE MClsDone
    BY <2>8 DEF MClsDone
  <2>9. CASE MDone
    BY <2>9 DEF MDone
  <2>10. CASE MTotLock
    BY <2>10 DEF MTotLock
  <2>11. CASE MFind
    BY <2>11 DEF MFind
  <2>12. CASE MNotFound
    BY <2>12 DEF MNotFound
  <2>13. CASE MBash
    BY <2>13 DEF MBash
  <2>14. CASE MBashFreed
    BY <2>14 DEF MBashFreed
  <2> QED BY <1>3, <2>1, <2>2, <2>3, <2>4, <2>5, <2>6, <2>7, <2>8, <2>9, <2>10, <2>11, <2>12,
             <2>13, <2>14 DEF MStep, MWriteKilled, MBashKilled
<1>4. CASE NewWork \/ Peer
  <2>1. CASE Start
    BY <2>1 DEF Start
  <2>2. ASSUME NEW c \in Conn, RMalloc(c) PROVE LocalInv'
    BY <2>2 DEF RMalloc
  <2>3. ASSUME NEW o \in Op, NEW a \in Name \cup Mac \cup {Nil}, MCommand(o, a) PROVE LocalInv'
    BY <2>3 DEF MCommand
  <2>4. ASSUME NEW c \in Conn, PeerGone(c) PROVE LocalInv'
    BY <2>4 DEF PeerGone
  <2>5. CASE RHandshake
    BY <2>5 DEF RHandshake
  <2>6. ASSUME NEW n \in Name, NEW m \in Mac, RRead(n, m) PROVE LocalInv'
    BY <2>6 DEF RRead
  <2>7. CASE MSession
    BY <2>7 DEF MSession
  <2> QED BY <1>4, <2>1, <2>2, <2>3, <2>4, <2>5, <2>6, <2>7 DEF NewWork, Peer
<1> QED BY <1>1, <1>2, <1>3, <1>4 DEF Next

(* A class that is not allocated has no client and no reference. *)
LEMMA FreeClass ==
  ASSUME TypeOK, ClassInv, NEW k \in ClassObj, cliclass[k] = Nil
  PROVE  count[k] = 0 /\ clilist[k] = <<>> /\ InFlight(k) = 0
<1>1. count[k] = 0
  BY DEF TypeOK, ClassInv, RMaking
<1>2. count[k] = Len(clilist[k]) + InFlight(k) /\ clilist[k] \in Seq(Conn)
  BY DEF TypeOK, ClassInv, RefCount
<1>3. InFlight(k) \in Nat /\ Len(clilist[k]) \in Nat
  BY <1>2 DEF InFlight
<1> QED BY <1>1, <1>2, <1>3, LenZero

(* Only these steps write the lists, or the fields the lists depend on. *)
LEMMA ListWriters ==
  ASSUME Next, ~Killed
  PROVE  \/ UNCHANGED <<tothead, clilist, class, res>>
         \/ \E c \in Conn : RMalloc(c)
         \/ RAccept \/ RSsl \/ RGiveUp \/ \E k \in ClassObj : RFindNew(k)
         \/ RPublish \/ RLink \/ EUnlink \/ EFree
BY DEF Next, RStep, EStep, MStep, NewWork, Peer, clients, classes, lists, locks, reg, epl, con,
   BackToMenu,
   RClassLock, RFindOld, RFindNoMem, RGetLock, RGetClass, RClsLock, RTotLock, RInsert, RUnlock,
   EWait, EHup, EIn, ERead, ECliLock, ELog, ELogFails, EClassLock, EClsLock, ETotLock, EPutClass,
   EUnTot, EUnCls, EUnClass, EFreeKilled, RGiveUpKilled, MClassLock, MSkip, MClsLock, MListCli, MCliLock, MLog,
   MWrite, MWriteKilled, MClsDone, MDone, MTotLock, MFind, MNotFound, MBash, MBashKilled,
   MBashFreed, Start, MCommand, PeerGone, RHandshake, RRead, MSession

(* Steps keep the two kinds of lists of clients consistent. *)
LEMMA ListStep == ASSUME IInv, Next, ~Killed PROVE ListInv'
<1> USE DEF IInv, ListInv
<1>1. CASE UNCHANGED <<tothead, clilist, class, res>>
  BY <1>1
<1>2. ASSUME NEW c \in Conn, RMalloc(c) PROVE ListInv'
  <2>1. c \notin ToSet(tothead)
    BY <1>2 DEF RMalloc, Full
  <2> QED BY <1>2, <2>1, InToSet DEF RMalloc, TypeOK, lists
<1>3. CASE RAccept
  BY <1>3 DEF RAccept, OwnInv, LocalInv, TypeOK, Full, lists
<1>4. CASE RSsl
  BY <1>4 DEF RSsl, OwnInv, LocalInv, TypeOK, Full, lists
<1>5. CASE RGiveUp
  BY <1>5 DEF RGiveUp, Clean, OwnInv, LocalInv, TypeOK, lists
<1>6. ASSUME NEW k \in ClassObj, RFindNew(k) PROVE ListInv'
  <2>1. clilist' = [clilist EXCEPT ![k] = <<>>] /\ UNCHANGED <<tothead, class, res>>
    BY <1>6 DEF RFindNew, clients
  <2>2. clilist[k] = <<>>
    BY <1>6, FreeClass DEF RFindNew
  <2>3. clilist' = clilist
    BY <2>1, <2>2 DEF TypeOK
  <2> QED BY <2>1, <2>3
<1>7. CASE RPublish
  BY <1>7 DEF RPublish, OwnInv, LocalInv, TypeOK
<1>8. CASE RLink
  <2>1. class[rcli] = rclass /\ res[rcli] = Full /\ UNCHANGED <<class, res>>
    BY <1>8 DEF RLink, OwnInv, LocalInv, clients
  <2>2. \A k \in ClassObj : k # rclass => clilist'[k] = clilist[k]
    BY <1>8, LinkFacts DEF TypeOK
  <2> QED BY <1>8, <2>1, <2>2, LinkFacts
<1>9. CASE EUnlink
  <2>1. UNCHANGED <<class, res>>
    BY <1>9 DEF EUnlink, clients
  <2>2. \A k \in ClassObj : k # class[ecli] => clilist'[k] = clilist[k]
    BY <1>9, UnlinkFacts DEF TypeOK
  <2>3. \A k \in ClassObj : k # class[ecli] => ecli \notin ToSet(clilist[k])
    OBVIOUS
  <2> QED BY <1>9, <2>1, <2>2, <2>3, UnlinkFacts
<1>10. CASE EFree
  BY <1>10 DEF EFree, OwnInv, LocalInv, TypeOK
<1> QED BY <1>1, <1>2, <1>3, <1>4, <1>5, <1>6, <1>7, <1>8, <1>9, <1>10, ListWriters

(* Steps keep the clients that R and E work on apart, and the events valid. *)
LEMMA OwnStep == ASSUME IInv, Next, ~Killed PROVE OwnInv'
<1> USE DEF IInv, TypeOK, LockInv, LocalInv, OwnInv, ListInv, Full, RHasTotlock, EHasTotlock,
       clients, classes, lists, locks, reg, epl, con, BackToMenu
<1>1. CASE RStep
  <2>1. CASE RAccept
    BY <2>1 DEF RAccept
  <2>2. CASE RSsl
    BY <2>2 DEF RSsl
  <2>3. CASE RClassLock
    BY <2>3 DEF RClassLock
  <2>4. CASE RFindOld
    BY <2>4 DEF RFindOld
  <2>5. ASSUME NEW k \in ClassObj, RFindNew(k) PROVE OwnInv'
    BY <2>5 DEF RFindNew
  <2>6. CASE RFindNoMem
    BY <2>6 DEF RFindNoMem
  <2>7. CASE RGetLock
    BY <2>7 DEF RGetLock
  <2>8. CASE RGetClass
    BY <2>8 DEF RGetClass
  <2>9. CASE RPublish
    BY <2>9 DEF RPublish
  <2>10. CASE RClsLock
    BY <2>10 DEF RClsLock
  <2>11. CASE RTotLock
    BY <2>11 DEF RTotLock
  <2>12. CASE RLink
    BY <2>12, LinkFacts DEF RLink
  <2>13. CASE RInsert
    BY <2>13 DEF RInsert
  <2>14. CASE RUnlock
    BY <2>14 DEF RUnlock
  <2>15. CASE RGiveUp
    BY <2>15 DEF RGiveUp, Clean
  <2> QED BY <1>1, <2>1, <2>2, <2>3, <2>4, <2>5, <2>6, <2>7, <2>8, <2>9, <2>10, <2>11, <2>12,
             <2>13, <2>14, <2>15 DEF RStep, RGiveUpKilled
<1>2. CASE EStep
  <2>1. CASE EWait
    BY <2>1 DEF EWait
  <2>2. ASSUME NEW c \in Conn, EHup(c) PROVE OwnInv'
    BY <2>2 DEF EHup
  <2>3. ASSUME NEW c \in Conn, EIn(c) PROVE OwnInv'
    BY <2>3 DEF EIn
  <2>4. CASE ERead
    BY <2>4 DEF ERead
  <2>5. CASE ECliLock
    BY <2>5 DEF ECliLock
  <2>6. CASE ELog
    BY <2>6 DEF ELog
  <2>7. CASE EClassLock
    BY <2>7 DEF EClassLock
  <2>8. CASE EClsLock
    BY <2>8 DEF EClsLock
  <2>9. CASE ETotLock
    BY <2>9 DEF ETotLock
  <2>10. CASE EUnlink
    BY <2>10, UnlinkFacts DEF EUnlink
  <2>11. CASE EPutClass
    BY <2>11 DEF EPutClass
  <2>12. CASE EUnTot
    BY <2>12 DEF EUnTot
  <2>13. CASE EUnCls
    BY <2>13 DEF EUnCls
  <2>14. CASE EUnClass
    BY <2>14 DEF EUnClass
  <2>15. CASE EFree
    BY <2>15 DEF EFree
  <2> QED BY <1>2, <2>1, <2>2, <2>3, <2>4, <2>5, <2>6, <2>7, <2>8, <2>9, <2>10, <2>11, <2>12,
             <2>13, <2>14, <2>15 DEF EStep, ELogFails, EFreeKilled
<1>3. CASE MStep
  <2>1. CASE MClassLock
    BY <2>1 DEF MClassLock
  <2>2. CASE MSkip
    BY <2>2 DEF MSkip
  <2>3. CASE MClsLock
    BY <2>3 DEF MClsLock
  <2>4. CASE MListCli
    BY <2>4 DEF MListCli
  <2>5. CASE MCliLock
    BY <2>5 DEF MCliLock
  <2>6. CASE MLog
    BY <2>6 DEF MLog
  <2>7. CASE MWrite
    BY <2>7 DEF MWrite
  <2>8. CASE MClsDone
    BY <2>8 DEF MClsDone
  <2>9. CASE MDone
    BY <2>9 DEF MDone
  <2>10. CASE MTotLock
    BY <2>10 DEF MTotLock
  <2>11. CASE MFind
    BY <2>11 DEF MFind
  <2>12. CASE MNotFound
    BY <2>12 DEF MNotFound
  <2>13. CASE MBash
    BY <2>13 DEF MBash
  <2>14. CASE MBashFreed
    BY <2>14 DEF MBashFreed
  <2> QED BY <1>3, <2>1, <2>2, <2>3, <2>4, <2>5, <2>6, <2>7, <2>8, <2>9, <2>10, <2>11, <2>12,
             <2>13, <2>14 DEF MStep, MWriteKilled, MBashKilled
<1>4. CASE NewWork \/ Peer
  <2>1. CASE Start
    BY <2>1 DEF Start
  <2>2. ASSUME NEW c \in Conn, RMalloc(c) PROVE OwnInv'
    <3>1. res[c] # {"mem", "fd", "ssl"}
      BY <2>2 DEF RMalloc
    <3>2. c \notin ToSet(tothead)
      BY <3>1
    <3>3. c # ecli
      BY <3>1
    <3> QED BY <2>2, <3>2, <3>3 DEF RMalloc
  <2>3. ASSUME NEW o \in Op, NEW a \in Name \cup Mac \cup {Nil}, MCommand(o, a) PROVE OwnInv'
    BY <2>3 DEF MCommand
  <2>4. ASSUME NEW c \in Conn, PeerGone(c) PROVE OwnInv'
    BY <2>4 DEF PeerGone
  <2>5. CASE RHandshake
    BY <2>5 DEF RHandshake
  <2>6. ASSUME NEW n \in Name, NEW m \in Mac, RRead(n, m) PROVE OwnInv'
    BY <2>6 DEF RRead
  <2>7. CASE MSession
    BY <2>7 DEF MSession
  <2> QED BY <1>4, <2>1, <2>2, <2>3, <2>4, <2>5, <2>6, <2>7 DEF NewWork, Peer
<1> QED BY <1>1, <1>2, <1>3, <1>4 DEF Next

(* Steps keep the classes and their reference counts. *)
LEMMA ClassStep == ASSUME IInv, Next, ~Killed PROVE ClassInv'
<1> USE DEF IInv, TypeOK, LocalInv, ClassInv, RefCount, InFlight, RMaking,
       clients, classes, lists, locks, reg, epl, con, BackToMenu
<1>1. CASE RStep
  <2>1. CASE RAccept
    BY <2>1 DEF RAccept
  <2>2. CASE RSsl
    BY <2>2 DEF RSsl
  <2>3. CASE RClassLock
    BY <2>3 DEF RClassLock
  <2>4. CASE RFindOld
    <3>1. PICK i \in DOMAIN classhead : rclass' = classhead[i]
      BY <2>4 DEF RFindOld
    <3>2. rclass' \in ToSet(classhead)
      BY <3>1 DEF ToSet
    <3> QED BY <2>4, <3>2 DEF RFindOld
  <2>5. ASSUME NEW k \in ClassObj, RFindNew(k) PROVE ClassInv'
    <3>1. count[k] = 0 /\ clilist[k] = <<>> /\ InFlight(k) = 0
      BY <2>5, FreeClass DEF RFindNew
    <3>2. count' = count /\ clilist' = clilist
      BY <2>5, <3>1 DEF RFindNew
    <3>3. k \notin ToSet(classhead) /\ rname # Nil
      BY <2>5 DEF RFindNew
    <3> QED BY <2>5, <3>2, <3>3 DEF RFindNew
  <2>6. CASE RFindNoMem
    BY <2>6 DEF RFindNoMem
  <2>7. CASE RGetLock
    BY <2>7 DEF RGetLock
  <2>8. CASE RGetClass
    BY <2>8 DEF RGetClass, getclass
  <2>9. CASE RPublish
    <3>1. \A k \in ClassObj : InFlight(k)' = InFlight(k)
      BY <2>9, PublishFacts DEF RPublish, OwnInv
    <3>2. RefCount'
      BY <2>9, <3>1 DEF RPublish
    <3>3. count[rclass] >= 1
      BY <2>9, PublishFacts DEF RPublish
    <3> HIDE DEF RefCount, InFlight
    <3> QED BY <2>9, <3>2, <3>3, PublishFacts DEF RPublish
  <2>10. CASE RClsLock
    BY <2>10 DEF RClsLock
  <2>11. CASE RTotLock
    BY <2>11 DEF RTotLock
  <2>12. CASE RLink
    <3>1. \A k \in ClassObj : k # rclass => clilist'[k] = clilist[k] /\ InFlight(k)' = InFlight(k)
      BY <2>12, LinkFacts DEF RLink
    <3>2. InFlight(rclass) = 1 + InFlight(rclass)'
      BY <2>12, LinkFacts DEF RLink
    <3>3. count' = count /\ Len(clilist'[rclass]) = Len(clilist[rclass]) + 1
      BY <2>12, LinkFacts DEF RLink
    <3>4. InFlight(rclass)' \in {0, 1} /\ Len(clilist[rclass]) \in Nat /\ rclass' = rclass
      BY <2>12, LinkFacts DEF RLink
    <3> HIDE DEF InFlight
    <3>5. ASSUME NEW j \in ClassObj PROVE count'[j] = Len(clilist'[j]) + InFlight(j)'
      <4>1. CASE j = rclass
        BY <3>1, <3>2, <3>3, <3>4, <4>1
      <4>2. CASE j # rclass
        BY <3>1, <3>2, <3>3, <3>4, <4>2
      <4> QED BY <4>1, <4>2
    <3>6. RefCount'
      BY <3>5
    <3> QED BY <2>12, <3>6 DEF RLink
  <2>13. CASE RInsert
    BY <2>13 DEF RInsert
  <2>14. CASE RUnlock
    BY <2>14 DEF RUnlock
  <2>15. CASE RGiveUp
    BY <2>15 DEF RGiveUp, Clean
  <2> QED BY <1>1, <2>1, <2>2, <2>3, <2>4, <2>5, <2>6, <2>7, <2>8, <2>9, <2>10, <2>11, <2>12,
             <2>13, <2>14, <2>15 DEF RStep, RGiveUpKilled
<1>2. CASE EStep
  <2>1. CASE EWait
    BY <2>1 DEF EWait
  <2>2. ASSUME NEW c \in Conn, EHup(c) PROVE ClassInv'
    BY <2>2 DEF EHup
  <2>3. ASSUME NEW c \in Conn, EIn(c) PROVE ClassInv'
    BY <2>3 DEF EIn
  <2>4. CASE ERead
    BY <2>4 DEF ERead
  <2>5. CASE ECliLock
    BY <2>5 DEF ECliLock
  <2>6. CASE ELog
    BY <2>6 DEF ELog
  <2>7. CASE EClassLock
    BY <2>7 DEF EClassLock
  <2>8. CASE EClsLock
    BY <2>8 DEF EClsLock
  <2>9. CASE ETotLock
    BY <2>9 DEF ETotLock
  <2>10. CASE EUnlink
    <3>1. \A k \in ClassObj : k # class[ecli] =>
            clilist'[k] = clilist[k] /\ InFlight(k)' = InFlight(k)
      BY <2>10, UnlinkFacts DEF EUnlink
    <3>2. InFlight(class[ecli])' = 1 + InFlight(class[ecli])
      BY <2>10, UnlinkFacts DEF EUnlink
    <3>3. count' = count /\ Len(clilist'[class[ecli]]) = Len(clilist[class[ecli]]) - 1
      BY <2>10, UnlinkFacts DEF EUnlink
    <3>4. InFlight(class[ecli]) \in {0, 1} /\ Len(clilist[class[ecli]]) \in Nat
      BY <2>10, UnlinkFacts DEF EUnlink
    <3>5. class' = class /\ ecli' = ecli /\ class[ecli] \in ClassObj
      BY <2>10, UnlinkFacts DEF EUnlink
    <3> HIDE DEF InFlight
    <3>6. ASSUME NEW j \in ClassObj PROVE count'[j] = Len(clilist'[j]) + InFlight(j)'
      <4>1. CASE j = class[ecli]
        BY <3>1, <3>2, <3>3, <3>4, <3>5, <4>1
      <4>2. CASE j # class[ecli]
        BY <3>1, <3>2, <3>3, <3>4, <3>5, <4>2
      <4> QED BY <4>1, <4>2
    <3>7. RefCount'
      BY <3>6
    <3> QED BY <2>10, <3>7 DEF EUnlink
  <2>11. CASE EPutClass
    <3>1. \A k \in ClassObj : k # class[ecli] =>
            count'[k] = count[k] /\ InFlight(k)' = InFlight(k)
      BY <2>11, PutClassFacts DEF EPutClass
    <3>2. InFlight(class[ecli]) = 1 + InFlight(class[ecli])'
      BY <2>11, PutClassFacts DEF EPutClass
    <3>3. clilist' = clilist /\ count'[class[ecli]] = count[class[ecli]] - 1
      BY <2>11, PutClassFacts DEF EPutClass
    <3>4. InFlight(class[ecli])' \in {0, 1} /\ Len(clilist[class[ecli]]) \in Nat
      BY <2>11, PutClassFacts DEF EPutClass
    <3>5. class' = class /\ ecli' = ecli /\ class[ecli] \in ClassObj
      BY <2>11, PutClassFacts DEF EPutClass
    <3>6. rpc' = rpc /\ rclass' = rclass /\ rpc \notin {"getlock", "getclass", "publish"}
      BY <2>11, PutClassFacts DEF EPutClass, RHasClasslock
    <3> HIDE DEF InFlight
    <3>7. ASSUME NEW j \in ClassObj PROVE count'[j] = Len(clilist'[j]) + InFlight(j)'
      <4>1. CASE j = class[ecli]
        BY <3>1, <3>2, <3>3, <3>4, <3>5, <4>1
      <4>2. CASE j # class[ecli]
        BY <3>1, <3>2, <3>3, <3>4, <3>5, <4>2
      <4> QED BY <4>1, <4>2
    <3>8. RefCount'
      BY <3>7
    <3> HIDE DEF RefCount
    <3>9. CASE count[class[ecli]] = 1
      <4>1. ToSet(classhead') = ToSet(classhead) \ {class[ecli]} /\ IsInjective(classhead')
            /\ cliclass' = [cliclass EXCEPT ![class[ecli]] = Nil]
        BY <2>11, <3>9, PutClassFacts
      <4>2. count'[class[ecli]] = 0
        BY <3>3, <3>9
      <4> QED BY <3>1, <3>5, <3>6, <3>8, <4>1, <4>2
    <3>10. CASE count[class[ecli]] # 1
      <4>1. classhead' = classhead /\ cliclass' = cliclass
        BY <2>11, <3>10, PutClassFacts
      <4>2. count'[class[ecli]] >= 1 /\ count[class[ecli]] >= 1
        BY <2>11, <3>3, <3>10, PutClassFacts
      <4> QED BY <3>1, <3>5, <3>6, <3>8, <4>1, <4>2
    <3> QED BY <3>9, <3>10
  <2>12. CASE EUnTot
    BY <2>12 DEF EUnTot
  <2>13. CASE EUnCls
    BY <2>13 DEF EUnCls
  <2>14. CASE EUnClass
    BY <2>14 DEF EUnClass
  <2>15. CASE EFree
    BY <2>15 DEF EFree
  <2> QED BY <1>2, <2>1, <2>2, <2>3, <2>4, <2>5, <2>6, <2>7, <2>8, <2>9, <2>10, <2>11, <2>12,
             <2>13, <2>14, <2>15 DEF EStep, ELogFails, EFreeKilled
<1>3. CASE MStep
  <2>1. CASE MClassLock
    BY <2>1 DEF MClassLock
  <2>2. CASE MSkip
    BY <2>2 DEF MSkip
  <2>3. CASE MClsLock
    BY <2>3 DEF MClsLock
  <2>4. CASE MListCli
    BY <2>4 DEF MListCli
  <2>5. CASE MCliLock
    BY <2>5 DEF MCliLock
  <2>6. CASE MLog
    BY <2>6 DEF MLog
  <2>7. CASE MWrite
    BY <2>7 DEF MWrite
  <2>8. CASE MClsDone
    BY <2>8 DEF MClsDone
  <2>9. CASE MDone
    BY <2>9 DEF MDone
  <2>10. CASE MTotLock
    BY <2>10 DEF MTotLock
  <2>11. CASE MFind
    BY <2>11 DEF MFind
  <2>12. CASE MNotFound
    BY <2>12 DEF MNotFound
  <2>13. CASE MBash
    BY <2>13 DEF MBash
  <2>14. CASE MBashFreed
    BY <2>14 DEF MBashFreed
  <2> QED BY <1>3, <2>1, <2>2, <2>3, <2>4, <2>5, <2>6, <2>7, <2>8, <2>9, <2>10, <2>11, <2>12,
             <2>13, <2>14 DEF MStep, MWriteKilled, MBashKilled
<1>4. CASE NewWork \/ Peer
  <2>1. CASE Start
    BY <2>1 DEF Start
  <2>2. ASSUME NEW c \in Conn, RMalloc(c) PROVE ClassInv'
    BY <2>2 DEF RMalloc
  <2>3. ASSUME NEW o \in Op, NEW a \in Name \cup Mac \cup {Nil}, MCommand(o, a) PROVE ClassInv'
    BY <2>3 DEF MCommand
  <2>4. ASSUME NEW c \in Conn, PeerGone(c) PROVE ClassInv'
    BY <2>4 DEF PeerGone
  <2>5. CASE RHandshake
    BY <2>5 DEF RHandshake
  <2>6. ASSUME NEW n \in Name, NEW m \in Mac, RRead(n, m) PROVE ClassInv'
    BY <2>6 DEF RRead
  <2>7. CASE MSession
    <3>1. UNCHANGED <<clients, classes, lists, reg, epl>>
      BY <2>7 DEF MSession
    <3> QED BY <3>1
  <2> QED BY <1>4, <2>1, <2>2, <2>3, <2>4, <2>5, <2>6, <2>7 DEF NewWork, Peer
<1> QED BY <1>1, <1>2, <1>3, <1>4 DEF Next

(* No step of R or E moves what the console's walk stands on. *)
LEMMA WalkStep == ASSUME IInv, Next, ~Killed PROVE WalkInv'
<1> USE DEF IInv, TypeOK, LockInv, LocalInv, WalkInv, RHasClasslock, EHasClasslock,
       MHasClasslock, RHasClslock, EHasClslock, MHasClslock, clients, classes, lists, locks,
       reg, epl, con, BackToMenu
<1>1. CASE RStep
  <2>1. CASE RAccept
    BY <2>1 DEF RAccept
  <2>2. CASE RSsl
    BY <2>2 DEF RSsl
  <2>3. CASE RClassLock
    BY <2>3 DEF RClassLock
  <2>4. CASE RFindOld
    BY <2>4 DEF RFindOld
  <2>5. ASSUME NEW k \in ClassObj, RFindNew(k) PROVE WalkInv'
    BY <2>5 DEF RFindNew
  <2>6. CASE RFindNoMem
    BY <2>6 DEF RFindNoMem
  <2>7. CASE RGetLock
    BY <2>7 DEF RGetLock
  <2>8. CASE RGetClass
    BY <2>8 DEF RGetClass
  <2>9. CASE RPublish
    BY <2>9, PublishFacts DEF RPublish
  <2>10. CASE RClsLock
    BY <2>10 DEF RClsLock
  <2>11. CASE RTotLock
    BY <2>11 DEF RTotLock
  <2>12. CASE RLink
    <3>1. \A k \in ClassObj : ToSet(clilist[k]) \subseteq ToSet(clilist'[k])
      BY <2>12, LinkFacts
    <3> QED BY <2>12, <3>1, LinkFacts DEF RLink
  <2>13. CASE RInsert
    BY <2>13 DEF RInsert
  <2>14. CASE RUnlock
    BY <2>14 DEF RUnlock
  <2>15. CASE RGiveUp
    BY <2>15 DEF RGiveUp, Clean
  <2> QED BY <1>1, <2>1, <2>2, <2>3, <2>4, <2>5, <2>6, <2>7, <2>8, <2>9, <2>10, <2>11, <2>12,
             <2>13, <2>14, <2>15 DEF RStep, RGiveUpKilled
<1>2. CASE EStep
  <2>1. CASE EWait
    BY <2>1 DEF EWait
  <2>2. ASSUME NEW c \in Conn, EHup(c) PROVE WalkInv'
    BY <2>2 DEF EHup
  <2>3. ASSUME NEW c \in Conn, EIn(c) PROVE WalkInv'
    BY <2>3 DEF EIn
  <2>4. CASE ERead
    BY <2>4 DEF ERead
  <2>5. CASE ECliLock
    BY <2>5 DEF ECliLock
  <2>6. CASE ELog
    BY <2>6 DEF ELog
  <2>7. CASE EClassLock
    BY <2>7 DEF EClassLock
  <2>8. CASE EClsLock
    BY <2>8 DEF EClsLock
  <2>9. CASE ETotLock
    BY <2>9 DEF ETotLock
  <2>10. CASE EUnlink
    <3>1. \A k \in ClassObj : k # class[ecli] => clilist'[k] = clilist[k]
      BY <2>10, UnlinkFacts
    <3>2. ~(mclass = class[ecli] /\ mpc \in {"cli", "log", "write"})
      BY <2>10, UnlinkFacts DEF EUnlink
    <3> QED BY <2>10, <3>1, <3>2, UnlinkFacts DEF EUnlink
  <2>11. CASE EPutClass
    BY <2>11, PutClassFacts DEF EPutClass
  <2>12. CASE EUnTot
    BY <2>12 DEF EUnTot
  <2>13. CASE EUnCls
    BY <2>13 DEF EUnCls
  <2>14. CASE EUnClass
    BY <2>14 DEF EUnClass
  <2>15. CASE EFree
    BY <2>15 DEF EFree
  <2> QED BY <1>2, <2>1, <2>2, <2>3, <2>4, <2>5, <2>6, <2>7, <2>8, <2>9, <2>10, <2>11, <2>12,
             <2>13, <2>14, <2>15 DEF EStep, ELogFails, EFreeKilled
<1>3. CASE MStep
  <2>1. CASE MClassLock
    BY <2>1, WalkFacts DEF MClassLock
  <2>2. CASE MSkip
    BY <2>2, WalkFacts DEF MSkip
  <2>3. CASE MClsLock
    BY <2>3, WalkFacts DEF MClsLock
  <2>4. CASE MListCli
    BY <2>4, WalkFacts DEF MListCli
  <2>5. CASE MCliLock
    BY <2>5 DEF MCliLock
  <2>6. CASE MLog
    BY <2>6 DEF MLog
  <2>7. CASE MWrite
    BY <2>7, WalkFacts DEF MWrite
  <2>8. CASE MClsDone
    BY <2>8, WalkFacts DEF MClsDone
  <2>9. CASE MDone
    BY <2>9 DEF MDone
  <2>10. CASE MTotLock
    BY <2>10 DEF MTotLock
  <2>11. CASE MFind
    BY <2>11 DEF MFind
  <2>12. CASE MNotFound
    BY <2>12 DEF MNotFound
  <2>13. CASE MBash
    BY <2>13 DEF MBash
  <2>14. CASE MBashFreed
    BY <2>14 DEF MBashFreed
  <2> QED BY <1>3, <2>1, <2>2, <2>3, <2>4, <2>5, <2>6, <2>7, <2>8, <2>9, <2>10, <2>11, <2>12,
             <2>13, <2>14 DEF MStep, MWriteKilled, MBashKilled
<1>4. CASE NewWork \/ Peer
  <2>1. CASE Start
    BY <2>1 DEF Start
  <2>2. ASSUME NEW c \in Conn, RMalloc(c) PROVE WalkInv'
    BY <2>2 DEF RMalloc
  <2>3. ASSUME NEW o \in Op, NEW a \in Name \cup Mac \cup {Nil}, MCommand(o, a) PROVE WalkInv'
    BY <2>3 DEF MCommand
  <2>4. ASSUME NEW c \in Conn, PeerGone(c) PROVE WalkInv'
    BY <2>4 DEF PeerGone
  <2>5. CASE RHandshake
    BY <2>5 DEF RHandshake
  <2>6. ASSUME NEW n \in Name, NEW m \in Mac, RRead(n, m) PROVE WalkInv'
    BY <2>6 DEF RRead
  <2>7. CASE MSession
    BY <2>7 DEF MSession
  <2> QED BY <1>4, <2>1, <2>2, <2>3, <2>4, <2>5, <2>6, <2>7 DEF NewWork, Peer
<1> QED BY <1>1, <1>2, <1>3, <1>4 DEF Next

(* Nothing changes when nothing changes. *)
LEMMA StutterInv == ASSUME IInv, UNCHANGED vars PROVE IInv'
<1> USE DEF vars, clients, classes, lists, locks, reg, epl, con
<1>1. TypeOK' /\ LockInv' /\ LocalInv'
  BY DEF IInv, TypeOK, LockInv, LocalInv, RHasClasslock, EHasClasslock, MHasClasslock,
     RHasTotlock, EHasTotlock, MHasTotlock, RHasClslock, EHasClslock, MHasClslock
<1>2. OwnInv' /\ ListInv'
  BY DEF IInv, OwnInv, ListInv
<1>3. ClassInv'
  BY DEF IInv, ClassInv, RMaking, RefCount, InFlight
<1>4. WalkInv'
  BY DEF IInv, WalkInv
<1> QED BY <1>1, <1>2, <1>3, <1>4 DEF IInv

(* IInv is inductive. *)
LEMMA StepInv == IInv /\ [Next]_vars => IInv'
<1> SUFFICES ASSUME IInv, [Next]_vars PROVE IInv'
  OBVIOUS
<1>1. CASE UNCHANGED vars
  BY <1>1, StutterInv
<1>2. CASE Killed
  BY <1>2, KilledInv
<1>3. CASE Next /\ ~Killed
  <2>1. TypeOK' /\ LockInv' /\ LocalInv' /\ OwnInv' /\ ListInv' /\ ClassInv' /\ WalkInv'
    BY <1>3, TypeStep, LockStep, LocalStep, OwnStep, ListStep, ClassStep, WalkStep
  <2> QED BY <2>1 DEF IInv
<1> QED BY <1>1, <1>2, <1>3

(* The inductive invariant holds in every reachable state of the server. *)
THEOREM Invariance == Spec => []IInv
BY InitInv, StepInv, PTL DEF Spec

(* Every variable keeps its type, for every value of the constants: no
   list_del() or list walk is ever applied to an entry that is not there,
   and no reference count goes below zero.                                 *)
THEOREM TypeCorrect == Spec => []TypeOK
<1>1. IInv => TypeOK
  BY DEF IInv
<1> QED BY <1>1, Invariance, PTL

(* class->count is the number of the clients of the class, linked or in
   flight (getclass, putclass): no class is freed under a client.          *)
THEOREM ReferenceCounted == Spec => []RefCount
<1>1. IInv => RefCount
  BY DEF IInv, ClassInv
<1> QED BY <1>1, Invariance, PTL

(* A client is on tothead and on the clilist of its class, once, or on
   neither, and epoll watches only linked clients (accept_newcli, cli_free). *)
THEOREM RegisteredOnBoth == Spec => []Registered
<1>1. IInv => Registered
  BY DEF IInv, ListInv, OwnInv, Registered
<1> QED BY <1>1, Invariance, PTL

(* The walks of cmd_listclass(), cmd_listcli() and cmd_sendcmd() never stand
   on an entry that cli_free() has unlinked or freed.                      *)
THEOREM WalksAreSafe == Spec => []WalkSafe
<1>1. IInv => WalkSafe
  <2> SUFFICES ASSUME IInv PROVE WalkSafe
    OBVIOUS
  <2>1. ASSUME mpc \in {"cli", "log", "write"}, mcli # Nil
        PROVE  mcli \in ToSet(clilist[mclass]) /\ "ssl" \in res[mcli]
    <3>1. mclass \in ClassObj /\ mcli \in ToSet(clilist[mclass])
      BY <2>1 DEF IInv, TypeOK, LocalInv, WalkInv
    <3>2. mcli \in ToSet(tothead)
      BY <3>1 DEF IInv, ListInv
    <3> QED BY <3>1, <3>2 DEF IInv, ListInv, Full
  <2> QED BY <2>1 DEF WalkSafe, IInv, WalkInv
<1> QED BY <1>1, Invariance, PTL

(* The pointers in a batch of epoll_wait() are those of linked clients until
   epoll_loop() has used or dropped them.                                  *)
THEOREM EventsAreLive == Spec => []EventsLive
<1>1. IInv => EventsLive
  BY DEF IInv, OwnInv, ListInv, EventsLive, Full
<1> QED BY <1>1, Invariance, PTL

(* No two threads are at code that uses the same list, count or log file,
   one of them writing.                                                    *)
THEOREM RaceFree == Spec => []NoDataRace
<1>1. IInv => NoDataRace
  BY DEF IInv, TypeOK, LockInv, LocalInv, OwnInv, NoDataRace,
     RHasClasslock, EHasClasslock, MHasClasslock,
     RHasTotlock, EHasTotlock, MHasTotlock, RHasClslock, EHasClslock, MHasClslock
<1> QED BY <1>1, Invariance, PTL

(* No circle of threads waits for the mutexes of each other. *)
THEOREM DeadlockFree == Spec => []NoCircularWait
<1>1. IInv => NoCircularWait
  BY DEF IInv, TypeOK, LockInv, LocalInv, OwnInv, NoCircularWait, WaitsFor,
     Skips, RHasClasslock, EHasClasslock, MHasClasslock,
     RHasTotlock, EHasTotlock, MHasTotlock, RHasClslock, EHasClslock, MHasClslock
<1> QED BY <1>1, Invariance, PTL
=============================================================================
