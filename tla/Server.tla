-------------------------------- MODULE Server --------------------------------
(***************************************************************************)
(* The rctl server: three threads that share the client directory.         *)
(*                                                                         *)
(*   "R"  rctlreg()     serd.c   accepts and registers clients             *)
(*   "E"  epoll_loop()  epoll.c  reads the clients and frees the dead ones *)
(*   "M"  command()     main.c   the operator's menu, bash.c for entry 4   *)
(*                                                                         *)
(* The unit of interleaving is the mutex operation: a step of a thread     *)
(* takes one lock, or does what the thread does up to the next lock or     *)
(* the next blocking call.  Conn and ClassObj are the addresses malloc     *)
(* returns for a client_t and a cliclass_t: a freed address is used again. *)
(***************************************************************************)
EXTENDS Naturals, FiniteSets, SequencesExt

CONSTANTS
  Conn,      \* addresses of client_t
  ClassObj,  \* addresses of cliclass_t
  Name,      \* class names a client may send
  Mac,       \* MAC addresses a client may send
  ParaNum,   \* PARA_NUM, the size of an epoll_wait batch
  Nil        \* NULL

ASSUME ServerAssumption ==
  /\ Nil \notin Conn \cup ClassObj \cup Name \cup Mac \cup {"R", "E", "M"}
  /\ ParaNum \in Nat \ {0}

VARIABLES
  \* client_t
  res,        \* res[c]: what is held for c: its memory, its socket, its SSL
  class, mac, \* cli->class and cli->mac
  net,        \* net[c]: the TCP connection of c
  clilock,    \* cli->lock
  \* cliclass_t
  cliclass,   \* its name, Nil when the object is not allocated
  count, clslock, clilist,
  \* globals of serd.c, and the interest list of the epoll instance
  classhead, classlock, tothead, totlock, watched,
  \* locals of the three threads
  rpc, rcli, rclass, rname,
  epc, ecli, evin, evhup,
  mpc, op, arg, mclass, mcli, walked, reached

clients == <<res, class, mac, net>>
classes == <<cliclass, count>>
lists   == <<clilist, classhead, tothead, watched>>
locks   == <<clilock, clslock, classlock, totlock>>
reg     == <<rpc, rcli, rclass, rname>>
epl     == <<epc, ecli, evin, evhup>>
con     == <<mpc, op, arg, mclass, mcli, walked, reached>>
vars    == <<clients, classes, lists, locks, reg, epl, con>>

Thread == {"R", "E", "M"}
Op     == {"listclass", "listcli", "send", "bash"}

-----------------------------------------------------------------------------
(* list.h on the sequences that stand for the circular lists.              *)

list_add_tail(s, x) == Append(s, x)

list_del(s, x) == RemoveAt(s, CHOOSE i \in DOMAIN s : s[i] = x)

(* list_for_each_entry: where the walk starts, and where it goes from x;
   Nil is the list head.                                                   *)
FirstEntry(s) == IF s = <<>> THEN Nil ELSE s[1]

NextEntry(s, x) ==
  LET i == CHOOSE i \in DOMAIN s : s[i] = x
  IN  IF i = Len(s) THEN Nil ELSE s[i + 1]

-----------------------------------------------------------------------------
Init ==
  /\ res = [c \in Conn |-> {}]
  /\ class = [c \in Conn |-> Nil]
  /\ mac = [c \in Conn |-> Nil]
  /\ net = [c \in Conn |-> "none"]
  /\ clilock = [c \in Conn |-> Nil]
  /\ cliclass = [k \in ClassObj |-> Nil]
  /\ count = [k \in ClassObj |-> 0]
  /\ clslock = [k \in ClassObj |-> Nil]
  /\ clilist = [k \in ClassObj |-> <<>>]
  /\ classhead = <<>> /\ classlock = Nil
  /\ tothead = <<>> /\ totlock = Nil
  /\ watched = {}
  /\ rpc = "select" /\ rcli = Nil /\ rclass = Nil /\ rname = Nil
  /\ epc = "loop" /\ ecli = Nil /\ evin = {} /\ evhup = {}
  /\ mpc = "menu" /\ op = Nil /\ arg = Nil /\ mclass = Nil /\ mcli = Nil
  /\ walked = {} /\ reached = {}

-----------------------------------------------------------------------------
(* The peers and the kernel.                                               *)

(* The peer closes its socket, or dies; with data it has not read, that
   resets the connection.                                                  *)
PeerGone(c) ==
  /\ net[c] = "up"
  /\ \E v \in {"gone", "broken"} : net' = [net EXCEPT ![c] = v]
  /\ UNCHANGED <<res, class, mac, classes, lists, locks, reg, epl, con>>

(* A write on c: the first one after the peer has closed is answered by a
   reset, the connection is "broken" from then on.                         *)
WrittenTo(c) ==
  net' = IF net[c] = "gone" THEN [net EXCEPT ![c] = "broken"] ELSE net

(* The process is killed: by SIGPIPE, which a write on a broken connection
   raises and no code of the server handles or ignores (the write may also
   just fail, once), or by a null or dangling pointer.  Its memory and its
   connections are gone.                                                   *)
Killed ==
  /\ rpc' = "dead" /\ epc' = "dead" /\ mpc' = "dead"
  /\ res' = [c \in Conn |-> {}]
  /\ class' = [c \in Conn |-> Nil]
  /\ mac' = [c \in Conn |-> Nil]
  /\ net' = [c \in Conn |-> "none"]
  /\ clilock' = [c \in Conn |-> Nil]
  /\ cliclass' = [k \in ClassObj |-> Nil]
  /\ count' = [k \in ClassObj |-> 0]
  /\ clslock' = [k \in ClassObj |-> Nil]
  /\ clilist' = [k \in ClassObj |-> <<>>]
  /\ classhead' = <<>> /\ classlock' = Nil
  /\ tothead' = <<>> /\ totlock' = Nil
  /\ watched' = {}
  /\ rcli' = Nil /\ rclass' = Nil /\ rname' = Nil
  /\ ecli' = Nil /\ evin' = {} /\ evhup' = {}
  /\ op' = Nil /\ arg' = Nil /\ mclass' = Nil /\ mcli' = Nil
  /\ walked' = {} /\ reached' = {}

(* The operator starts it again: main(). *)
Start ==
  /\ mpc = "dead"
  /\ rpc' = "select" /\ epc' = "loop" /\ mpc' = "menu"
  /\ UNCHANGED <<clients, classes, lists, locks, rcli, rclass, rname,
                 ecli, evin, evhup, op, arg, mclass, mcli, walked, reached>>

-----------------------------------------------------------------------------
(* Thread R: rctlreg() calls accept_newcli() for a readable socket.        *)

RMalloc(c) ==
  /\ rpc = "select" /\ res[c] = {}
  /\ res' = [res EXCEPT ![c] = {"mem"}]
  /\ rcli' = c /\ rpc' = "accept"
  /\ UNCHANGED <<class, mac, net, classes, lists, locks, rclass, rname, epl, con>>

RAccept ==
  /\ rpc = "accept"
  /\ res' = [res EXCEPT ![rcli] = @ \cup {"fd"}]
  /\ net' = [net EXCEPT ![rcli] = "up"]
  /\ rpc' = "ssl"
  /\ UNCHANGED <<class, mac, classes, lists, locks, rcli, rclass, rname, epl, con>>

RSsl ==
  /\ rpc = "ssl"
  /\ res' = [res EXCEPT ![rcli] = @ \cup {"ssl"}]
  /\ rpc' = "handshake"
  /\ UNCHANGED <<class, mac, net, classes, lists, locks, rcli, rclass, rname, epl, con>>

(* ssltcp_accept() waits for the peer. *)
RHandshake ==
  /\ rpc = "handshake"
  /\ rpc' = "read"
  /\ UNCHANGED <<clients, classes, lists, locks, rcli, rclass, rname, epl, con>>

(* ssltcp_read() waits for the peer's reg_t: its class and its MAC. *)
RRead(n, m) ==
  /\ rpc = "read"
  /\ rname' = n
  /\ mac' = [mac EXCEPT ![rcli] = m]
  /\ rpc' = "classlock"
  /\ UNCHANGED <<res, class, net, classes, lists, locks, rcli, rclass, epl, con>>

(* Mutant of Clean: a failed handshake jumps to clean2. *)
CleanSkipsSsl ==
  [accept    |-> {"mem"},
   ssl       |-> {"fd", "mem"},
   handshake |-> {"fd", "mem"},
   read      |-> {"ssl", "fd", "mem"},
   nomem     |-> {"ssl", "fd", "mem"}]

(* What the labels clean1, ..., clean4 release, by the call that failed. *)
Clean ==
  [accept    |-> {"mem"},
   ssl       |-> {"fd", "mem"},
   handshake |-> {"ssl", "fd", "mem"},
   read      |-> {"ssl", "fd", "mem"},
   nomem     |-> {"ssl", "fd", "mem"}]

RGiveUp ==
  /\ rpc \in DOMAIN Clean
  /\ res' = [res EXCEPT ![rcli] = @ \ Clean[rpc]]
  /\ mac' = [mac EXCEPT ![rcli] = Nil]
  /\ net' = [net EXCEPT ![rcli] = "none"]
  /\ rpc' = "select" /\ rcli' = Nil /\ rname' = Nil
  /\ UNCHANGED <<class, classes, lists, locks, rclass, epl, con>>

(* SSL_accept() writes, and so does the ssltcp_shutdown() of clean4. *)
RGiveUpKilled ==
  /\ rpc \in {"handshake", "read", "nomem"} /\ net[rcli] = "broken"
  /\ Killed

(* newclass(): find the class or make it, under classlock. *)
RClassLock ==
  /\ rpc = "classlock" /\ classlock = Nil
  /\ classlock' = "R" /\ rpc' = "find"
  /\ UNCHANGED <<clients, classes, lists, clilock, clslock, totlock,
                 rcli, rclass, rname, epl, con>>

(* Mutant of HasName: strcmp() taken for equality. *)
HasNameStrcmp(i, n) ==
  /\ cliclass[classhead[i]] # n
  /\ \A j \in 1..(i - 1) : cliclass[classhead[j]] = n

HasName(i, n) ==
  /\ cliclass[classhead[i]] = n
  /\ \A j \in 1..(i - 1) : cliclass[classhead[j]] # n

RFindOld ==
  /\ rpc = "find"
  /\ \E i \in DOMAIN classhead : HasName(i, rname) /\ rclass' = classhead[i]
  /\ rpc' = "getlock"
  /\ UNCHANGED <<clients, classes, lists, locks, rcli, rname, epl, con>>

RFindNew(k) ==
  /\ rpc = "find"
  /\ ~\E i \in DOMAIN classhead : HasName(i, rname)
  /\ cliclass[k] = Nil
  /\ cliclass' = [cliclass EXCEPT ![k] = rname]
  /\ count' = [count EXCEPT ![k] = 0]
  /\ clilist' = [clilist EXCEPT ![k] = <<>>]
  /\ clslock' = [clslock EXCEPT ![k] = Nil]
  /\ rclass' = k /\ rpc' = "getlock"
  /\ UNCHANGED <<clients, classhead, tothead, watched, clilock, classlock, totlock,
                 rcli, rname, epl, con>>

(* Mutant of RFindNoMem: the error path keeps classlock. *)
RFindNoMemLocked ==
  /\ rpc = "find"
  /\ ~\E i \in DOMAIN classhead : HasName(i, rname)
  /\ rpc' = "nomem"
  /\ UNCHANGED <<clients, classes, lists, locks, rcli, rclass, rname, epl, con>>

RFindNoMem ==
  /\ rpc = "find"
  /\ ~\E i \in DOMAIN classhead : HasName(i, rname)
  /\ classlock' = Nil /\ rpc' = "nomem"
  /\ UNCHANGED <<clients, classes, lists, clilock, clslock, totlock,
                 rcli, rclass, rname, epl, con>>

RGetLock ==
  /\ rpc = "getlock" /\ clslock[rclass] = Nil
  /\ clslock' = [clslock EXCEPT ![rclass] = "R"]
  /\ rpc' = "getclass"
  /\ UNCHANGED <<clients, classes, lists, clilock, classlock, totlock,
                 rcli, rclass, rname, epl, con>>

(* Mutant of getclass: the reference is not counted. *)
getclassUncounted(k) == count' = count

getclass(k) == count' = [count EXCEPT ![k] = @ + 1]

RGetClass ==
  /\ rpc = "getclass"
  /\ getclass(rclass)
  /\ clslock' = [clslock EXCEPT ![rclass] = Nil]
  /\ rpc' = "publish"
  /\ UNCHANGED <<clients, cliclass, lists, clilock, classlock, totlock,
                 rcli, rclass, rname, epl, con>>

(* The new class is listed; newclass() returns and its caller keeps the
   class in the client.                                                    *)
RPublish ==
  /\ rpc = "publish"
  /\ classhead' = IF rclass \in ToSet(classhead) THEN classhead
                  ELSE list_add_tail(classhead, rclass)
  /\ classlock' = Nil
  /\ class' = [class EXCEPT ![rcli] = rclass]
  /\ rpc' = "clslock" /\ rname' = Nil
  /\ UNCHANGED <<res, mac, net, classes, clilist, tothead, watched,
                 clilock, clslock, totlock, rcli, rclass, epl, con>>

(* Mutant of RClsLock: the client is linked without class->lock. *)
RClsLockMissing ==
  /\ rpc = "clslock" /\ rpc' = "totlock"
  /\ UNCHANGED <<clients, classes, lists, locks, rcli, rclass, rname, epl, con>>

RClsLock ==
  /\ rpc = "clslock" /\ clslock[rclass] = Nil
  /\ clslock' = [clslock EXCEPT ![rclass] = "R"]
  /\ rpc' = "totlock"
  /\ UNCHANGED <<clients, classes, lists, clilock, classlock, totlock,
                 rcli, rclass, rname, epl, con>>

(* Mutant of RTotLock: the client is linked without totlock. *)
RTotLockMissing ==
  /\ rpc = "totlock" /\ rpc' = "link"
  /\ UNCHANGED <<clients, classes, lists, locks, rcli, rclass, rname, epl, con>>

RTotLock ==
  /\ rpc = "totlock" /\ totlock = Nil
  /\ totlock' = "R" /\ rpc' = "link"
  /\ UNCHANGED <<clients, classes, lists, clilock, clslock, classlock,
                 rcli, rclass, rname, epl, con>>

RLink ==
  /\ rpc = "link"
  /\ tothead' = list_add_tail(tothead, rcli)
  /\ clilist' = [clilist EXCEPT ![rclass] = list_add_tail(@, rcli)]
  /\ rpc' = "insert"
  /\ UNCHANGED <<clients, classes, classhead, watched, locks,
                 rcli, rclass, rname, epl, con>>

(* epoll_insert(): epoll_ctl() reports a failure with -1, which the test
   "< -1" never sees; the client is then linked but not watched.           *)
RInsert ==
  /\ rpc = "insert"
  /\ watched' \in {watched, watched \cup {rcli}}
  /\ rpc' = "unlock"
  /\ UNCHANGED <<clients, classes, clilist, classhead, tothead, locks,
                 rcli, rclass, rname, epl, con>>

RUnlock ==
  /\ rpc = "unlock"
  /\ totlock' = Nil
  /\ clslock' = [clslock EXCEPT ![rclass] = Nil]
  /\ rpc' = "select" /\ rcli' = Nil /\ rclass' = Nil
  /\ UNCHANGED <<clients, classes, lists, clilock, classlock, rname, epl, con>>

-----------------------------------------------------------------------------
(* Thread E: epoll_loop().                                                 *)

(* epoll_wait() returns at most ParaNum events, one for a watched client:
   EPOLLRDHUP for every connection that ended (as long as there is room),
   EPOLLIN for some that sent output.                                      *)
EWait ==
  /\ epc = "loop" /\ evin = {} /\ evhup = {}
  /\ \E S \in SUBSET watched :
       LET ended == {c \in watched : net[c] # "up"}
       IN  /\ S # {} /\ Cardinality(S) <= ParaNum
           /\ Cardinality(S) < ParaNum => ended \subseteq S
           /\ evhup' = S \cap ended
           /\ evin' = S \ ended
  /\ UNCHANGED <<clients, classes, lists, locks, reg, epc, ecli, con>>

(* EPOLLRDHUP: cli_free() and break, the rest of the batch is given up. *)
EHup(c) ==
  /\ epc = "loop" /\ c \in evhup
  /\ ecli' = c /\ epc' = "classlock"
  /\ evin' = {} /\ evhup' = {}
  /\ UNCHANGED <<clients, classes, lists, locks, reg, con>>

(* EPOLLIN: epoll_recv(). *)
EIn(c) ==
  /\ epc = "loop" /\ c \in evin
  /\ ecli' = c /\ epc' = "read"
  /\ evin' = evin \ {c}
  /\ UNCHANGED <<clients, classes, lists, locks, reg, evhup, con>>

(* ssltcp_read(): output to be logged, or an error and cli_free(). *)
ERead ==
  /\ epc = "read"
  /\ epc' \in {"clilock", "classlock"}
  /\ UNCHANGED <<clients, classes, lists, locks, reg, ecli, evin, evhup, con>>

(* write_outfd() *)
ECliLock ==
  /\ epc = "clilock" /\ clilock[ecli] = Nil
  /\ clilock' = [clilock EXCEPT ![ecli] = "E"]
  /\ epc' = "log"
  /\ UNCHANGED <<clients, classes, lists, clslock, classlock, totlock, reg,
                 ecli, evin, evhup, con>>

ELog ==
  /\ epc = "log"
  /\ clilock' = [clilock EXCEPT ![ecli] = Nil]
  /\ epc' = "loop" /\ ecli' = Nil
  /\ UNCHANGED <<clients, classes, lists, clslock, classlock, totlock, reg,
                 evin, evhup, con>>

(* write_outfd() does not look at what open_outfd() returns: when fopen()
   fails, close_outfd() calls fclose(NULL).                                *)
ELogFails == epc = "log" /\ Killed

(* Mutant of EClassLock: cli_free() leaves classlock out. *)
EClassLockMissing ==
  /\ epc = "classlock" /\ epc' = "clslock"
  /\ UNCHANGED <<clients, classes, lists, locks, reg, ecli, evin, evhup, con>>

(* cli_free() *)
EClassLock ==
  /\ epc = "classlock" /\ classlock = Nil
  /\ classlock' = "E" /\ epc' = "clslock"
  /\ UNCHANGED <<clients, classes, lists, clilock, clslock, totlock, reg,
                 ecli, evin, evhup, con>>

EClsLock ==
  /\ epc = "clslock" /\ clslock[class[ecli]] = Nil
  /\ clslock' = [clslock EXCEPT ![class[ecli]] = "E"]
  /\ epc' = "totlock"
  /\ UNCHANGED <<clients, classes, lists, clilock, classlock, totlock, reg,
                 ecli, evin, evhup, con>>

ETotLock ==
  /\ epc = "totlock" /\ totlock = Nil
  /\ totlock' = "E" /\ epc' = "unlink"
  /\ UNCHANGED <<clients, classes, lists, clilock, clslock, classlock, reg,
                 ecli, evin, evhup, con>>

(* Mutant of EUnlink: the client stays on tothead. *)
EUnlinkOnce ==
  /\ epc = "unlink"
  /\ clilist' = [clilist EXCEPT ![class[ecli]] = list_del(@, ecli)]
  /\ watched' = watched \ {ecli}
  /\ epc' = "putclass"
  /\ UNCHANGED <<clients, classes, classhead, tothead, locks, reg, ecli, evin, evhup, con>>

EUnlink ==
  /\ epc = "unlink"
  /\ tothead' = list_del(tothead, ecli)
  /\ clilist' = [clilist EXCEPT ![class[ecli]] = list_del(@, ecli)]
  /\ watched' = watched \ {ecli}
  /\ epc' = "putclass"
  /\ UNCHANGED <<clients, classes, classhead, locks, reg, ecli, evin, evhup, con>>

(* Mutant of putclass: the class goes with the last but one client. *)
putclassEarly(k) ==
  /\ count' = [count EXCEPT ![k] = @ - 1]
  /\ IF count[k] <= 2
     THEN /\ classhead' = list_del(classhead, k)
          /\ cliclass' = [cliclass EXCEPT ![k] = Nil]
     ELSE UNCHANGED <<classhead, cliclass>>

(* The last reference unlists the class and frees it. *)
putclass(k) ==
  /\ count' = [count EXCEPT ![k] = @ - 1]
  /\ IF count[k] = 1
     THEN /\ classhead' = list_del(classhead, k)
          /\ cliclass' = [cliclass EXCEPT ![k] = Nil]
     ELSE UNCHANGED <<classhead, cliclass>>

EPutClass ==
  /\ epc = "putclass"
  /\ putclass(class[ecli])
  /\ epc' = "untot"
  /\ UNCHANGED <<clients, clilist, tothead, watched, locks, reg, ecli, evin, evhup, con>>

EUnTot ==
  /\ epc = "untot"
  /\ totlock' = Nil /\ epc' = "uncls"
  /\ UNCHANGED <<clients, classes, lists, clilock, clslock, classlock, reg,
                 ecli, evin, evhup, con>>

(* The lock is a field of the class, which putclass() may have freed. *)
EUnCls ==
  /\ epc = "uncls"
  /\ clslock' = [clslock EXCEPT ![class[ecli]] = Nil]
  /\ epc' = "unclass"
  /\ UNCHANGED <<clients, classes, lists, clilock, classlock, totlock, reg,
                 ecli, evin, evhup, con>>

(* Mutant of EUnClass: cli_free() keeps classlock. *)
EUnClassLocked ==
  /\ epc = "unclass" /\ epc' = "shutdown"
  /\ UNCHANGED <<clients, classes, lists, locks, reg, ecli, evin, evhup, con>>

EUnClass ==
  /\ epc = "unclass"
  /\ classlock' = Nil /\ epc' = "shutdown"
  /\ UNCHANGED <<clients, classes, lists, clilock, clslock, totlock, reg,
                 ecli, evin, evhup, con>>

(* ssltcp_shutdown() repeats SSL_shutdown() until the peer has answered or
   the connection has ended.  close() also takes the socket out of the
   interest list.                                                          *)
EFree ==
  /\ epc = "shutdown"
  /\ res' = [res EXCEPT ![ecli] = {}]
  /\ class' = [class EXCEPT ![ecli] = Nil]
  /\ mac' = [mac EXCEPT ![ecli] = Nil]
  /\ net' = [net EXCEPT ![ecli] = "none"]
  /\ watched' = watched \ {ecli}
  /\ epc' = "loop" /\ ecli' = Nil
  /\ UNCHANGED <<classes, clilist, classhead, tothead, locks, reg, evin, evhup, con>>

EFreeKilled ==
  /\ epc = "shutdown" /\ net[ecli] = "broken"
  /\ Killed

-----------------------------------------------------------------------------
(* Thread M: command().                                                    *)

MCommand(o, a) ==
  /\ mpc = "menu"
  /\ op' = o /\ arg' = a
  /\ mpc' = IF o = "bash" THEN "totlock" ELSE "classlock"
  /\ UNCHANGED <<clients, classes, lists, locks, reg, epl,
                 mclass, mcli, walked, reached>>

(* The commands end by going back to the menu; their locals are gone. *)
BackToMenu ==
  /\ mpc' = "menu" /\ op' = Nil /\ arg' = Nil
  /\ mclass' = Nil /\ mcli' = Nil /\ walked' = {}

MClassLock ==
  /\ mpc = "classlock" /\ classlock = Nil
  /\ classlock' = "M"
  /\ mclass' = FirstEntry(classhead)
  /\ mpc' = "class"
  /\ UNCHANGED <<clients, classes, lists, clilock, clslock, totlock, reg, epl,
                 op, arg, mcli, walked, reached>>

(* cmd_listclass() prints the name only, cmd_sendcmd() skips a class of
   another name.                                                           *)
Skips(k) == op = "listclass" \/ (op = "send" /\ cliclass[k] # arg)

MSkip ==
  /\ mpc = "class" /\ mclass # Nil /\ Skips(mclass)
  /\ mclass' = NextEntry(classhead, mclass)
  /\ UNCHANGED <<clients, classes, lists, locks, reg, epl,
                 mpc, op, arg, mcli, walked, reached>>

MClsLock ==
  /\ mpc = "class" /\ mclass # Nil /\ ~Skips(mclass)
  /\ clslock[mclass] = Nil
  /\ clslock' = [clslock EXCEPT ![mclass] = "M"]
  /\ mcli' = FirstEntry(clilist[mclass])
  /\ mpc' = "cli" /\ walked' = {}
  /\ UNCHANGED <<clients, classes, lists, clilock, classlock, totlock, reg, epl,
                 op, arg, mclass, reached>>

MListCli ==
  /\ mpc = "cli" /\ mcli # Nil /\ op = "listcli"
  /\ mcli' = NextEntry(clilist[mclass], mcli)
  /\ UNCHANGED <<clients, classes, lists, locks, reg, epl,
                 mpc, op, arg, mclass, walked, reached>>

MCliLock ==
  /\ mpc = "cli" /\ mcli # Nil /\ op = "send"
  /\ clilock[mcli] = Nil
  /\ clilock' = [clilock EXCEPT ![mcli] = "M"]
  /\ mpc' = "log"
  /\ UNCHANGED <<clients, classes, lists, clslock, classlock, totlock, reg, epl,
                 op, arg, mclass, mcli, walked, reached>>

(* The command is logged if the log file can be opened. *)
MLog ==
  /\ mpc = "log"
  /\ clilock' = [clilock EXCEPT ![mcli] = Nil]
  /\ mpc' = "write"
  /\ UNCHANGED <<clients, classes, lists, clslock, classlock, totlock, reg, epl,
                 op, arg, mclass, mcli, walked, reached>>

(* Mutant of MWrite: the SSL is freed after a failed write. *)
MWriteFrees ==
  /\ mpc = "write"
  /\ WrittenTo(mcli)
  /\ res' = IF net[mcli] = "up" THEN res ELSE [res EXCEPT ![mcli] = @ \ {"ssl"}]
  /\ walked' = walked \cup {mcli}
  /\ mcli' = NextEntry(clilist[mclass], mcli)
  /\ mpc' = "cli"
  /\ UNCHANGED <<class, mac, classes, lists, locks, reg, epl, op, arg, mclass, reached>>

MWrite ==
  /\ mpc = "write"
  /\ WrittenTo(mcli)
  /\ walked' = walked \cup {mcli}
  /\ mcli' = NextEntry(clilist[mclass], mcli)
  /\ mpc' = "cli"
  /\ UNCHANGED <<res, class, mac, classes, lists, locks, reg, epl,
                 op, arg, mclass, reached>>

MWriteKilled ==
  /\ mpc = "write" /\ net[mcli] = "broken"
  /\ Killed

MClsDone ==
  /\ mpc = "cli" /\ mcli = Nil
  /\ clslock' = [clslock EXCEPT ![mclass] = Nil]
  /\ mclass' = NextEntry(classhead, mclass)
  /\ mpc' = "class"
  /\ reached' = IF op = "send" THEN walked ELSE reached
  /\ UNCHANGED <<clients, classes, lists, clilock, classlock, totlock, reg, epl,
                 op, arg, mcli, walked>>

MDone ==
  /\ mpc = "class" /\ mclass = Nil
  /\ classlock' = Nil
  /\ BackToMenu
  /\ UNCHANGED <<clients, classes, lists, clilock, clslock, totlock, reg, epl, reached>>

(* cmd_bashto(): the first client of tothead that has the MAC. *)
MTotLock ==
  /\ mpc = "totlock" /\ totlock = Nil
  /\ totlock' = "M" /\ mpc' = "find"
  /\ UNCHANGED <<clients, classes, lists, clilock, clslock, classlock, reg, epl,
                 op, arg, mclass, mcli, walked, reached>>

MFind ==
  /\ mpc = "find"
  /\ \E i \in DOMAIN tothead :
       /\ mac[tothead[i]] = arg
       /\ \A j \in 1..(i - 1) : mac[tothead[j]] # arg
       /\ mcli' = tothead[i]
  /\ totlock' = Nil /\ mpc' = "bash"
  /\ UNCHANGED <<clients, classes, lists, clilock, clslock, classlock, reg, epl,
                 op, arg, mclass, walked, reached>>

MNotFound ==
  /\ mpc = "find"
  /\ ~\E i \in DOMAIN tothead : mac[tothead[i]] = arg
  /\ totlock' = Nil
  /\ BackToMenu
  /\ UNCHANGED <<clients, classes, lists, clilock, clslock, classlock, reg, epl, reached>>

(* bashto() writes on cli->ssl, with no lock held.  The write may fail, and
   bashto() returns; or the shell session starts.                          *)
MBash ==
  /\ mpc = "bash" /\ "ssl" \in res[mcli]
  /\ WrittenTo(mcli)
  /\ \/ mpc' = "session" /\ mcli' = Nil
        /\ UNCHANGED <<op, arg, mclass, walked>>
     \/ BackToMenu
  /\ UNCHANGED <<res, class, mac, classes, lists, locks, reg, epl, reached>>

MBashKilled ==
  /\ mpc = "bash" /\ net[mcli] = "broken"
  /\ Killed

(* The client has been freed since MFind: cli->ssl is whatever the memory
   holds now, and the write crashes, fails or seems to work.               *)
MBashFreed ==
  /\ mpc = "bash" /\ "ssl" \notin res[mcli]
  /\ \/ Killed
     \/ /\ \/ mpc' = "session" /\ mcli' = Nil
              /\ UNCHANGED <<op, arg, mclass, walked>>
           \/ BackToMenu
        /\ UNCHANGED <<clients, classes, lists, locks, reg, epl, reached>>

(* bashfd() and the shell session end, and the terminal is reset; a write
   on the session's own connection can raise SIGPIPE too.                  *)
MSession ==
  /\ mpc = "session"
  /\ \/ Killed
     \/ BackToMenu /\ UNCHANGED <<clients, classes, lists, locks, reg, epl, reached>>

-----------------------------------------------------------------------------
(* The steps a thread takes by itself; the others wait for a peer or for
   the operator.                                                           *)
RStep ==
  \/ RAccept \/ RSsl \/ RClassLock \/ RFindOld \/ (\E k \in ClassObj : RFindNew(k))
  \/ RFindNoMem \/ RGetLock \/ RGetClass \/ RPublish \/ RClsLock \/ RTotLock
  \/ RLink \/ RInsert \/ RUnlock \/ RGiveUp \/ RGiveUpKilled

EStep ==
  \/ EWait \/ (\E c \in Conn : EHup(c) \/ EIn(c)) \/ ERead \/ ECliLock
  \/ ELog \/ ELogFails \/ EClassLock \/ EClsLock \/ ETotLock \/ EUnlink \/ EPutClass
  \/ EUnTot \/ EUnCls \/ EUnClass \/ EFree \/ EFreeKilled

MStep ==
  \/ MClassLock \/ MSkip \/ MClsLock \/ MListCli \/ MCliLock \/ MLog
  \/ MWrite \/ MWriteKilled \/ MClsDone \/ MDone \/ MTotLock \/ MFind \/ MNotFound
  \/ MBash \/ MBashKilled \/ MBashFreed

(* A client connects, or the operator types a command or starts the server. *)
NewWork ==
  \/ Start
  \/ \E c \in Conn : RMalloc(c)
  \/ MCommand("listclass", Nil) \/ MCommand("listcli", Nil)
  \/ \E n \in Name : MCommand("send", n)
  \/ \E m \in Mac : MCommand("bash", m)

Peer ==
  \/ \E c \in Conn : PeerGone(c)
  \/ RHandshake \/ \E n \in Name, m \in Mac : RRead(n, m)
  \/ MSession

Next == RStep \/ EStep \/ MStep \/ NewWork \/ Peer

Spec == Init /\ [][Next]_vars

(* The calls on a connection that is up block until its peer has written
   enough, has read enough or has answered: the sockets are blocking, none
   has a timeout, and ssltcp_shutdown() repeats until it is answered.  M
   holds classlock and class->lock when it is in such a call at "write".   *)
WaitsForPeer(t) ==
  \/ t = "R" /\ rpc \in {"handshake", "read", "nomem"} /\ net[rcli] = "up"
  \/ t = "E" /\ epc \in {"read", "shutdown"} /\ net[ecli] = "up"
  \/ t = "M" /\ mpc \in {"write", "bash"} /\ net[mcli] = "up"

(* The three threads keep running; nothing ends a call that waits for a
   peer but the peer.                                                      *)
Fairness ==
  /\ WF_vars(~WaitsForPeer("R") /\ RStep)
  /\ WF_vars(~WaitsForPeer("E") /\ EStep)
  /\ WF_vars(~WaitsForPeer("M") /\ MStep)

FairSpec == Spec /\ Fairness

-----------------------------------------------------------------------------
TypeOK ==
  /\ res \in [Conn -> SUBSET {"mem", "fd", "ssl"}]
  /\ class \in [Conn -> ClassObj \cup {Nil}]
  /\ mac \in [Conn -> Mac \cup {Nil}]
  /\ net \in [Conn -> {"none", "up", "gone", "broken"}]
  /\ clilock \in [Conn -> {"E", "M", Nil}]
  /\ cliclass \in [ClassObj -> Name \cup {Nil}]
  /\ count \in [ClassObj -> Nat]
  /\ clslock \in [ClassObj -> Thread \cup {Nil}]
  /\ clilist \in [ClassObj -> Seq(Conn)]
  /\ classhead \in Seq(ClassObj)
  /\ classlock \in Thread \cup {Nil}
  /\ tothead \in Seq(Conn)
  /\ totlock \in Thread \cup {Nil}
  /\ watched \subseteq Conn
  /\ rpc \in {"select", "accept", "ssl", "handshake", "read", "classlock", "find",
              "nomem", "getlock", "getclass", "publish", "clslock", "totlock",
              "link", "insert", "unlock", "dead"}
  /\ rcli \in Conn \cup {Nil} /\ rclass \in ClassObj \cup {Nil}
  /\ rname \in Name \cup {Nil}
  /\ epc \in {"loop", "read", "clilock", "log", "classlock", "clslock", "totlock",
              "unlink", "putclass", "untot", "uncls", "unclass", "shutdown", "dead"}
  /\ ecli \in Conn \cup {Nil} /\ evin \subseteq Conn /\ evhup \subseteq Conn
  /\ mpc \in {"menu", "classlock", "class", "cli", "log", "write", "totlock",
              "find", "bash", "session", "dead"}
  /\ op \in Op \cup {Nil} /\ arg \in Name \cup Mac \cup {Nil}
  /\ mclass \in ClassObj \cup {Nil} /\ mcli \in Conn \cup {Nil}
  /\ walked \subseteq Conn /\ reached \subseteq Conn

-----------------------------------------------------------------------------
(* Safety.                                                                 *)

(* Between list_del() and list_add_tail() on one side, and the reference
   count on the other, a client is in flight: newclass() has counted it and
   accept_newcli() has not linked it yet, or cli_free() has unlinked it and
   not yet called putclass().                                              *)
InFlight(k) ==
  (IF rclass = k /\ rpc \in {"publish", "clslock", "totlock", "link"} THEN 1 ELSE 0)
  + (IF epc = "putclass" /\ class[ecli] = k THEN 1 ELSE 0)

(* class->count is the number of clients on class->clilist and in flight:
   a class is neither freed under a client nor kept without one
   (serd.c: getclass, putclass, newclass, accept_newcli, cli_free).        *)
RefCount ==
  \A k \in ClassObj : count[k] = Len(clilist[k]) + InFlight(k)

(* A client is on tothead, or on the clilist of one class, its own, but
   never on only one of the two lists; on each at most once; and epoll
   watches no client that is on neither.                                   *)
Registered ==
  /\ IsInjective(tothead)
  /\ \A k \in ClassObj :
       /\ IsInjective(clilist[k])
       /\ \A c \in ToSet(clilist[k]) : class[c] = k /\ c \in ToSet(tothead)
  /\ \A c \in ToSet(tothead) : class[c] \in ClassObj /\ c \in ToSet(clilist[class[c]])
  /\ watched \subseteq ToSet(tothead)

(* classhead lists every allocated class once, except the one newclass() is
   making, and no two of them have the same name; so a command to a name
   means one class.                                                        *)
ClassIndex ==
  /\ \A i, j \in DOMAIN classhead :
       i # j => cliclass[classhead[i]] # cliclass[classhead[j]]
  /\ \A k \in ClassObj :
       k \in ToSet(classhead) <=>
         /\ cliclass[k] # Nil
         /\ ~(rclass = k /\ rpc \in {"getlock", "getclass", "publish"} /\ clilist[k] = <<>>)

(* The console's walk never stands on an entry that has left its list or
   whose memory has been freed (main.c: cmd_listcli, cmd_sendcmd).         *)
WalkSafe ==
  /\ mpc \in {"class", "cli", "log", "write"} /\ mclass # Nil =>
       mclass \in ToSet(classhead)
  /\ mpc \in {"cli", "log", "write"} /\ mcli # Nil =>
       mcli \in ToSet(clilist[mclass]) /\ "ssl" \in res[mcli]

(* The events epoll_wait() has returned carry pointers that are read later:
   a client with an unprocessed event, and the one being served, is still
   allocated with its SSL (epoll.c: epoll_loop, assert in epoll_recv).     *)
EventsLive ==
  /\ evin \cup evhup \subseteq ToSet(tothead) \ {ecli}
  /\ \A c \in evin \cup evhup \cup ({ecli} \ {Nil}) : res[c] = {"mem", "fd", "ssl"}

(* When putclass() has freed a class, cli_free() still unlocks its mutex.
   At that time no other thread holds or waits for this mutex, no pointer
   of another thread and no list leads to the class, and newclass() has not
   been given its memory again.                                            *)
FreedClassUnshared ==
  \A k \in ClassObj : cliclass[k] = Nil =>
    /\ clslock[k] \in {Nil, "E"}
    /\ clslock[k] = "E" => epc \in {"untot", "uncls"} /\ classlock = "E"
    /\ rclass # k /\ mclass # k /\ k \notin ToSet(classhead)
    /\ \A c \in Conn : class[c] = k => c = ecli

(* The owner of the mutex a thread has asked for, Nil if there is none. *)
WaitsFor(t) ==
  CASE t = "R" /\ rpc = "classlock" -> classlock
    [] t = "R" /\ rpc \in {"getlock", "clslock"} -> clslock[rclass]
    [] t = "R" /\ rpc = "totlock" -> totlock
    [] t = "E" /\ epc = "classlock" -> classlock
    [] t = "E" /\ epc = "clslock" -> clslock[class[ecli]]
    [] t = "E" /\ epc = "totlock" -> totlock
    [] t = "E" /\ epc = "clilock" -> clilock[ecli]
    [] t = "M" /\ mpc = "classlock" -> classlock
    [] t = "M" /\ mpc = "class" /\ mclass # Nil /\ ~Skips(mclass) -> clslock[mclass]
    [] t = "M" /\ mpc = "totlock" -> totlock
    [] t = "M" /\ mpc = "cli" /\ mcli # Nil /\ op = "send" -> clilock[mcli]
    [] OTHER -> Nil

(* No thread waits, directly or through others, for itself: the order
   classlock, class->lock, totlock or cli->lock is kept by every path.     *)
NoCircularWait ==
  \A t, u, v \in Thread :
    /\ WaitsFor(t) # t
    /\ ~(WaitsFor(t) = u /\ WaitsFor(u) = t)
    /\ ~(WaitsFor(t) = u /\ WaitsFor(u) = v /\ WaitsFor(v) = t)

(* Two threads are never at the same time at steps that use the same list,
   or the same count, unless both only read it; the log file of a client is
   used by one thread at a time.                                           *)
NoDataRace ==
  \* classhead
  /\ ~(rpc \in {"find", "publish"} /\ epc = "putclass")
  /\ ~(rpc = "publish" /\ mpc \in {"class", "cli"})
  /\ ~(epc = "putclass" /\ mpc \in {"class", "cli"})
  \* tothead
  /\ ~(rpc = "link" /\ epc = "unlink")
  /\ ~(rpc = "link" /\ mpc = "find")
  /\ ~(epc = "unlink" /\ mpc = "find")
  \* class->clilist and class->count
  /\ ~(rpc = "getclass" /\ epc = "putclass" /\ rclass = class[ecli])
  /\ ~(mpc \in {"cli", "write"} /\ rpc = "link" /\ rclass = mclass)
  /\ ~(mpc \in {"cli", "write"} /\ epc = "unlink" /\ class[ecli] = mclass)
  \* cli->outfd and cli->outfile
  /\ ~(mpc = "log" /\ epc = "log" /\ mcli = ecli)

(* Every memory block, socket and SSL belongs to a client that is linked or
   that accept_newcli() or cli_free() is at work on: no path of
   accept_newcli() leaks.                                                  *)
NoLeak ==
  \A c \in Conn : res[c] # {} =>
    \/ c \in ToSet(tothead)
    \/ c = rcli
    \/ c = ecli /\ epc \in {"putclass", "untot", "uncls", "unclass", "shutdown"}

-----------------------------------------------------------------------------
(* Refinement.                                                             *)

Listed == {cliclass[k] : k \in ToSet(classhead)}

Members == [n \in Name |-> UNION {ToSet(clilist[k]) : k \in {j \in ClassObj : cliclass[j] = n}}]

Dir == INSTANCE Directory WITH listed <- Listed, members <- Members

(* The server is a directory: whatever the interleaving, the classes and
   their members change as Directory.tla says, and a command sent to a
   class has been written to exactly the members it has at one instant.    *)
IsDirectory == Dir!DSpec

-----------------------------------------------------------------------------
(* Liveness, when clients stop connecting and sending output, and the
   operator stops typing: a pthread mutex is not fair, a thread may lose it
   to the others as long as they have work.                                *)

Output == EWait /\ evin' # {}

Quiet == <>[][~NewWork /\ ~Output]_vars

(* The peer a thread waits for lets it go, however often it waits.  Nothing
   in the code bounds this wait: Flow.tla has a behaviour in which the
   console stays in ssltcp_write() for ever (ReachesAll).                  *)
LetGo(t) == []<>~WaitsForPeer(t)

(* A watched client whose connection has ended is freed, unless the process
   dies, if the peers let go the epoll thread and the console, which has
   classlock while it writes: the locks and the rest of the batch do not
   keep it (epoll.c: epoll_loop, serd.c: cli_free).                        *)
CleanedUp ==
  Quiet /\ LetGo("E") /\ LetGo("M") =>
    \A c \in Conn : (c \in watched /\ net[c] # "up") ~> res[c] = {}

(* accept_newcli() returns and the next client is accepted, if the client
   being registered lets go the thread, and the clients a command is written
   to the console, for which newclass() waits: the locks alone and the
   failures of newclass() do not keep it (serd.c: rctlreg, accept_newcli).  *)
RegistrationEnds ==
  Quiet /\ LetGo("R") /\ LetGo("M") =>
    (rpc \notin {"select", "dead"} ~> rpc \in {"select", "dead"})

(* Entries 1, 2 and 3 of the menu come back to the menu if the clients
   written to let go the console; neither a registration nor a clean-up,
   whatever their clients do, can keep it (main.c: command).               *)
CommandEnds ==
  Quiet /\ LetGo("M") => (op \in Op \ {"bash"} ~> op = Nil)

(* What entry 3 of the menu says, "send command to all client": when the
   connection of the client being written to is broken, and a client of the
   class whose connection is up is still to come, the walk goes on.        *)
SentToAll ==
  [][\A c \in Conn :
       /\ mpc = "write" /\ mcli # c /\ net[mcli] = "broken"
       /\ c \in ToSet(clilist[mclass]) \ walked /\ net[c] = "up"
       => mpc' \in {"write", "cli"}]_vars

(* What entry 4 says, "connect bash to client": the client_t that bashto()
   writes to is one that is registered with the MAC the operator typed.    *)
BashToClient ==
  mpc = "bash" => mcli \in ToSet(tothead) /\ mac[mcli] = arg

=============================================================================
