----------------------------- MODULE LogFilesProofs -----------------------------
(***************************************************************************)
(* What the safety run checks of LogFiles.tla, for any number of clients   *)
(* and of descriptors.                                                     *)
(*                                                                         *)
(* That a log file is open only under the lock of its client is not        *)
(* inductive: a thread opens one without looking whether another is open,  *)
(* and closes a number without looking what it refers to.  The inductive   *)
(* invariant adds who has which lock where (LockInv), and that             *)
(* cli->outfile is NULL whenever nobody is between open_outfd() and        *)
(* close_outfd() (FileInv).                                                *)
(***************************************************************************)
EXTENDS LogFiles, WellFoundedInduction, TLAPS

(* A thread that is at a log file has locked its client; so the two threads
   are not at the same one.                                                *)
LockInv ==
  /\ epc \in LogStep => ecli \in Conn /\ clilock[ecli] = "E"
  /\ mpc \in LogStep => mcli \in Conn /\ clilock[mcli] = "M"

(* cli->outfile is set by open_outfd(), together with cli->outfd, and reset by
   close_outfd().                                                          *)
FileInv ==
  /\ \A c \in Conn : outfd[c] = outfile[c] /\ (clilock[c] = Nil => outfile[c] = Nil)
  /\ epc \in {"write", "close", "fclose"} => outfile[ecli] # Nil
  /\ mpc \in {"write", "close", "fclose"} => outfile[mcli] # Nil
  /\ epc \in {"open", "unlock"} => outfile[ecli] = Nil
  /\ mpc \in {"open", "unlock"} => outfile[mcli] = Nil

LogInv == TypeOK /\ LockInv /\ FileInv /\ NoLogLeak

USE LogFilesAssumption

(* What a descriptor can refer to. *)
Entries == {Free} \cup {Sock(c) : c \in Conn} \cup {Log(c) : c \in Conn}

(* Sockets, log files and free entries of the table differ. *)
LEMMA Kinds ==
  /\ Free \in Entries
  /\ \A c \in Conn : Sock(c) \in Entries /\ Log(c) \in Entries
  /\ \A c, d \in Conn : Free # Log(c) /\ Sock(d) # Log(c) /\ (Log(c) = Log(d) => c = d)
BY DEF Free, Sock, Log, Entries

(* The kernel finds the lowest of the free descriptors, if there is one. *)
LEMMA LowestFree ==
  ASSUME FreeFds # {}
  PROVE  Min(FreeFds) \in FreeFds /\ Min(FreeFds) \in Fd
<1> DEFINE R == OpToRel(<, Nat)
<1>1. FreeFds \subseteq Fd /\ Fd \subseteq Nat
  BY DEF FreeFds, Fd
<1>2. \A x, y \in Nat : y < x => <<y, x>> \in R
  BY Zenon DEF OpToRel
<1>3. IsWellFoundedOn(R, Nat)
  BY NatLessThanWellFounded, Zenon
<1> HIDE DEF R
<1>4. PICK n \in FreeFds : \A y \in FreeFds : ~(<<y, n>> \in R)
  BY <1>1, <1>3, WFMin
<1>5. \A y \in FreeFds : ~(y < n)
  BY <1>1, <1>2, <1>4
<1>6. \E x \in FreeFds : \A y \in FreeFds : x <= y
  BY <1>1, <1>5
<1> QED BY <1>1, <1>6, Zenon DEF Min

(* A new descriptor is one that was free; the others stay. *)
LEMMA NewFdFacts ==
  ASSUME TypeOK, NEW x \in Entries, NewFd(x)
  PROVE  /\ Min(FreeFds) \in Fd /\ fdt' \in [Fd -> Entries]
         /\ fdt'[Min(FreeFds)] = x
         /\ \A n \in Fd : n # Min(FreeFds) => fdt'[n] = fdt[n]
BY LowestFree DEF NewFd, TypeOK, Entries

(* Closing can only make a descriptor free. *)
LEMMA CloseFacts ==
  ASSUME TypeOK, NEW n, close(n)
  PROVE  fdt' \in [Fd -> Entries] /\ \A m \in Fd : fdt'[m] = IF m = n THEN Free ELSE fdt[m]
BY Kinds DEF close, TypeOK, Entries

(* The invariant holds when the threads start. *)
LEMMA InitLogInv == Init => LogInv
BY Kinds DEF Init, LogInv, TypeOK, LockInv, FileInv, NoLogLeak, LogStep, Entries

(* The types: what is opened and closed has the lock's owner for its client. *)
LEMMA TypeStep == ASSUME LogInv, Next PROVE TypeOK'
<1> USE DEF LogInv, TypeOK, LockInv, FileInv, LogStep, Entries, Watched
<1>1. ASSUME NEW c \in Conn, Accept(c) PROVE TypeOK'
  <2>1. Sock(c) \in Entries /\ NewFd(Sock(c))
    BY <1>1, Kinds DEF Accept
  <2> QED BY <1>1, <2>1, NewFdFacts, Kinds DEF Accept
<1>2. ASSUME NEW c \in Conn, ELock(c) PROVE TypeOK'
  BY <1>2 DEF ELock
<1>3. ASSUME NEW c \in Conn, EFree(c) PROVE TypeOK'
  <2>1. close(sock[c])
    BY <1>3 DEF EFree
  <2> QED BY <1>3, <2>1, CloseFacts, Kinds DEF EFree
<1>4. ASSUME NEW c \in Conn, MLock(c) PROVE TypeOK'
  BY <1>4 DEF MLock
<1>5. CASE EOpen
  <2>1. Log(ecli) \in Entries /\ NewFd(Log(ecli))
    BY <1>5, Kinds DEF EOpen, open_outfd
  <2> QED BY <1>5, <2>1, NewFdFacts, Kinds DEF EOpen, open_outfd
<1>6. CASE EOpenFails
  BY <1>6 DEF EOpenFails
<1>7. CASE EWrite
  BY <1>7 DEF EWrite
<1>8. CASE EClose
  <2>1. close(outfd[ecli])
    BY <1>8 DEF EClose, close_outfd1
  <2> QED BY <1>8, <2>1, CloseFacts, Kinds DEF EClose, close_outfd1
<1>9. CASE EFclose
  <2>1. close(outfile[ecli])
    BY <1>9 DEF EFclose, close_outfd2
  <2> QED BY <1>9, <2>1, CloseFacts, Kinds DEF EFclose, close_outfd2
<1>10. CASE EUnlock
  BY <1>10 DEF EUnlock
<1>11. CASE MOpen
  <2>1. Log(mcli) \in Entries /\ NewFd(Log(mcli))
    BY <1>11, Kinds DEF MOpen, open_outfd
  <2> QED BY <1>11, <2>1, NewFdFacts, Kinds DEF MOpen, open_outfd
<1>12. CASE MOpenFails
  BY <1>12 DEF MOpenFails
<1>13. CASE MWrite
  BY <1>13 DEF MWrite
<1>14. CASE MClose
  <2>1. close(outfd[mcli])
    BY <1>14 DEF MClose, close_outfd1
  <2> QED BY <1>14, <2>1, CloseFacts, Kinds DEF MClose, close_outfd1
<1>15. CASE MFclose
  <2>1. close(outfile[mcli])
    BY <1>15 DEF MFclose, close_outfd2
  <2> QED BY <1>15, <2>1, CloseFacts, Kinds DEF MFclose, close_outfd2
<1>16. CASE MUnlock
  BY <1>16 DEF MUnlock
<1>17. CASE MSend
  BY <1>17 DEF MSend
<1>18. CASE Start
  BY <1>18, Kinds DEF Start
<1> QED BY <1>1, <1>2, <1>3, <1>4, <1>5, <1>6, <1>7, <1>8, <1>9,
       <1>10, <1>11, <1>12, <1>13, <1>14, <1>15, <1>16, <1>17, <1>18 DEF Next

(* The locks: a thread takes one only when it is free, and gives back its own. *)
LEMMA LockStep == ASSUME LogInv, Next PROVE LockInv'
<1> USE DEF LogInv, TypeOK, LockInv, LogStep
<1>1. ASSUME NEW c \in Conn, Accept(c) PROVE LockInv'
  BY <1>1 DEF Accept
<1>2. ASSUME NEW c \in Conn, ELock(c) PROVE LockInv'
  BY <1>2 DEF ELock
<1>3. ASSUME NEW c \in Conn, EFree(c) PROVE LockInv'
  BY <1>3 DEF EFree
<1>4. ASSUME NEW c \in Conn, MLock(c) PROVE LockInv'
  BY <1>4 DEF MLock
<1>5. CASE EOpen
  BY <1>5 DEF EOpen, open_outfd
<1>6. CASE EOpenFails
  BY <1>6 DEF EOpenFails
<1>7. CASE EWrite
  BY <1>7 DEF EWrite
<1>8. CASE EClose
  BY <1>8 DEF EClose, close_outfd1
<1>9. CASE EFclose
  BY <1>9 DEF EFclose, close_outfd2
<1>10. CASE EUnlock
  BY <1>10 DEF EUnlock
<1>11. CASE MOpen
  BY <1>11 DEF MOpen, open_outfd
<1>12. CASE MOpenFails
  BY <1>12 DEF MOpenFails
<1>13. CASE MWrite
  BY <1>13 DEF MWrite
<1>14. CASE MClose
  BY <1>14 DEF MClose, close_outfd1
<1>15. CASE MFclose
  BY <1>15 DEF MFclose, close_outfd2
<1>16. CASE MUnlock
  BY <1>16 DEF MUnlock
<1>17. CASE MSend
  BY <1>17 DEF MSend
<1>18. CASE Start
  BY <1>18 DEF Start
<1> QED BY <1>1, <1>2, <1>3, <1>4, <1>5, <1>6, <1>7, <1>8, <1>9,
       <1>10, <1>11, <1>12, <1>13, <1>14, <1>15, <1>16, <1>17, <1>18 DEF Next

(* cli->outfile: the two threads change those of different clients. *)
LEMMA FileStep == ASSUME LogInv, Next PROVE FileInv'
<1> USE LowestFree DEF LogInv, TypeOK, LockInv, FileInv, LogStep, NewFd, Fd
<1>1. ASSUME NEW c \in Conn, Accept(c) PROVE FileInv'
  BY <1>1 DEF Accept
<1>2. ASSUME NEW c \in Conn, ELock(c) PROVE FileInv'
  BY <1>2 DEF ELock
<1>3. ASSUME NEW c \in Conn, EFree(c) PROVE FileInv'
  BY <1>3 DEF EFree
<1>4. ASSUME NEW c \in Conn, MLock(c) PROVE FileInv'
  BY <1>4 DEF MLock
<1>5. CASE EOpen
  <2>1. Min(FreeFds) # Nil /\ ecli \in Conn /\ clilock[ecli] # Nil
    BY <1>5 DEF EOpen, open_outfd
  <2>2. /\ outfd' = [outfd EXCEPT ![ecli] = Min(FreeFds)]
        /\ outfile' = [outfile EXCEPT ![ecli] = Min(FreeFds)]
    BY <1>5 DEF EOpen, open_outfd
  <2> HIDE LowestFree
  <2>3. /\ outfd'[ecli] # Nil /\ outfd'[ecli] = outfile'[ecli]
        /\ \A c \in Conn : c # ecli => outfd'[c] = outfd[c] /\ outfile'[c] = outfile[c]
    BY <2>1, <2>2
  <2> QED BY <1>5, <2>1, <2>3 DEF EOpen
<1>6. CASE EOpenFails
  BY <1>6 DEF EOpenFails
<1>7. CASE EWrite
  BY <1>7 DEF EWrite
<1>8. CASE EClose
  BY <1>8 DEF EClose, close_outfd1
<1>9. CASE EFclose
  BY <1>9 DEF EFclose, close_outfd2
<1>10. CASE EUnlock
  BY <1>10 DEF EUnlock
<1>11. CASE MOpen
  <2>1. Min(FreeFds) # Nil /\ mcli \in Conn /\ clilock[mcli] # Nil
    BY <1>11 DEF MOpen, open_outfd
  <2>2. /\ outfd' = [outfd EXCEPT ![mcli] = Min(FreeFds)]
        /\ outfile' = [outfile EXCEPT ![mcli] = Min(FreeFds)]
    BY <1>11 DEF MOpen, open_outfd
  <2> HIDE LowestFree
  <2>3. /\ outfd'[mcli] # Nil /\ outfd'[mcli] = outfile'[mcli]
        /\ \A c \in Conn : c # mcli => outfd'[c] = outfd[c] /\ outfile'[c] = outfile[c]
    BY <2>1, <2>2
  <2> QED BY <1>11, <2>1, <2>3 DEF MOpen
<1>12. CASE MOpenFails
  BY <1>12 DEF MOpenFails
<1>13. CASE MWrite
  BY <1>13 DEF MWrite
<1>14. CASE MClose
  BY <1>14 DEF MClose, close_outfd1
<1>15. CASE MFclose
  BY <1>15 DEF MFclose, close_outfd2
<1>16. CASE MUnlock
  BY <1>16 DEF MUnlock
<1>17. CASE MSend
  BY <1>17 DEF MSend
<1>18. CASE Start
  BY <1>18 DEF Start
<1> QED BY <1>1, <1>2, <1>3, <1>4, <1>5, <1>6, <1>7, <1>8, <1>9,
       <1>10, <1>11, <1>12, <1>13, <1>14, <1>15, <1>16, <1>17, <1>18 DEF Next

(* No log file is left open: what is closed last is the only one of the client
   there can be, even if its number refers to something else by then.     *)
LEMMA LeakStep == ASSUME LogInv, Next PROVE NoLogLeak'
<1> USE DEF LogInv, TypeOK, LockInv, FileInv, NoLogLeak, LogStep
<1>1. ASSUME NEW c \in Conn, Accept(c) PROVE NoLogLeak'
  <2>1. Sock(c) \in Entries /\ NewFd(Sock(c))
    BY <1>1, Kinds DEF Accept
  <2> QED BY <1>1, <2>1, NewFdFacts, Kinds DEF Accept
<1>2. ASSUME NEW c \in Conn, ELock(c) PROVE NoLogLeak'
  BY <1>2 DEF ELock
<1>3. ASSUME NEW c \in Conn, EFree(c) PROVE NoLogLeak'
  <2>1. close(sock[c])
    BY <1>3 DEF EFree
  <2> QED BY <1>3, <2>1, CloseFacts, Kinds DEF EFree
<1>4. ASSUME NEW c \in Conn, MLock(c) PROVE NoLogLeak'
  BY <1>4 DEF MLock
<1>5. CASE EOpen
  <2>1. Log(ecli) \in Entries /\ NewFd(Log(ecli))
    BY <1>5, Kinds DEF EOpen, open_outfd
  <2> DEFINE n == Min(FreeFds)
  <2>2. /\ n \in Fd /\ fdt'[n] = Log(ecli) /\ ecli \in Conn /\ clilock[ecli] # Nil
        /\ \A m \in Fd : m # n => fdt'[m] = fdt[m]
    BY <1>5, <2>1, NewFdFacts DEF EOpen
  <2>3. outfile' = [outfile EXCEPT ![ecli] = n] /\ clilock' = clilock
    BY <1>5 DEF EOpen, open_outfd
  <2>4. \A m \in Fd : fdt[m] # Log(ecli)
    BY <1>5, <2>2 DEF EOpen, Fd
  <2> HIDE DEF n
  <2> QED BY <2>2, <2>3, <2>4, Kinds
<1>6. CASE EOpenFails
  BY <1>6 DEF EOpenFails
<1>7. CASE EWrite
  BY <1>7 DEF EWrite
<1>8. CASE EClose
  <2>1. close(outfd[ecli])
    BY <1>8 DEF EClose, close_outfd1
  <2> QED BY <1>8, <2>1, CloseFacts, Kinds DEF EClose, close_outfd1
<1>9. CASE EFclose
  <2>1. close(outfile[ecli])
    BY <1>9 DEF EFclose, close_outfd2
  <2> QED BY <1>9, <2>1, CloseFacts, Kinds DEF EFclose, close_outfd2
<1>10. CASE EUnlock
  <2>1. ecli \in Conn /\ \A m \in Fd : fdt[m] # Log(ecli)
    BY <1>10 DEF EUnlock, Fd
  <2>2. \A c \in Conn : c # ecli => clilock'[c] = clilock[c]
    BY <1>10 DEF EUnlock
  <2>3. fdt' = fdt /\ outfile' = outfile
    BY <1>10 DEF EUnlock
  <2> QED BY <2>1, <2>2, <2>3
<1>11. CASE MOpen
  <2>1. Log(mcli) \in Entries /\ NewFd(Log(mcli))
    BY <1>11, Kinds DEF MOpen, open_outfd
  <2> DEFINE n == Min(FreeFds)
  <2>2. /\ n \in Fd /\ fdt'[n] = Log(mcli) /\ mcli \in Conn /\ clilock[mcli] # Nil
        /\ \A m \in Fd : m # n => fdt'[m] = fdt[m]
    BY <1>11, <2>1, NewFdFacts DEF MOpen
  <2>3. outfile' = [outfile EXCEPT ![mcli] = n] /\ clilock' = clilock
    BY <1>11 DEF MOpen, open_outfd
  <2>4. \A m \in Fd : fdt[m] # Log(mcli)
    BY <1>11, <2>2 DEF MOpen, Fd
  <2> HIDE DEF n
  <2> QED BY <2>2, <2>3, <2>4, Kinds
<1>12. CASE MOpenFails
  BY <1>12 DEF MOpenFails
<1>13. CASE MWrite
  BY <1>13 DEF MWrite
<1>14. CASE MClose
  <2>1. close(outfd[mcli])
    BY <1>14 DEF MClose, close_outfd1
  <2> QED BY <1>14, <2>1, CloseFacts, Kinds DEF MClose, close_outfd1
<1>15. CASE MFclose
  <2>1. close(outfile[mcli])
    BY <1>15 DEF MFclose, close_outfd2
  <2> QED BY <1>15, <2>1, CloseFacts, Kinds DEF MFclose, close_outfd2
<1>16. CASE MUnlock
  <2>1. mcli \in Conn /\ \A m \in Fd : fdt[m] # Log(mcli)
    BY <1>16 DEF MUnlock, Fd
  <2>2. \A c \in Conn : c # mcli => clilock'[c] = clilock[c]
    BY <1>16 DEF MUnlock
  <2>3. fdt' = fdt /\ outfile' = outfile
    BY <1>16 DEF MUnlock
  <2> QED BY <2>1, <2>2, <2>3
<1>17. CASE MSend
  BY <1>17 DEF MSend
<1>18. CASE Start
  BY <1>18, Kinds DEF Start
<1> QED BY <1>1, <1>2, <1>3, <1>4, <1>5, <1>6, <1>7, <1>8, <1>9,
       <1>10, <1>11, <1>12, <1>13, <1>14, <1>15, <1>16, <1>17, <1>18 DEF Next

(* LogInv is inductive. *)
LEMMA LogInvStep == LogInv /\ [Next]_vars => LogInv'
<1>1. ASSUME LogInv, Next PROVE LogInv'
  BY <1>1, TypeStep, LockStep, FileStep, LeakStep DEF LogInv
<1>2. ASSUME LogInv, UNCHANGED vars PROVE LogInv'
  BY <1>2 DEF LogInv, TypeOK, LockInv, FileInv, NoLogLeak, vars
<1> QED BY <1>1, <1>2

(* The inductive invariant holds in every reachable state. *)
THEOREM LogInvariance == Spec => []LogInv
BY InitLogInv, LogInvStep, PTL DEF Spec

(* Every variable keeps its type: in particular close_outfd() never closes a
   descriptor that open_outfd() has not got.                               *)
THEOREM LogTypeCorrect == Spec => []TypeOK
<1>1. LogInv => TypeOK
  BY DEF LogInv
<1> QED BY <1>1, LogInvariance, PTL

(* However many clients and descriptors there are and however the threads
   interleave, every log file that is open is that of a client somebody has
   locked, at the descriptor the client remembers.                         *)
THEOREM NoLogStaysOpen == Spec => []NoLogLeak
<1>1. LogInv => NoLogLeak
  BY DEF LogInv
<1> QED BY <1>1, LogInvariance, PTL

=============================================================================
