------------------------------- MODULE LogFiles -------------------------------
(***************************************************************************)
(* The log files of the server at the level of file descriptors: one table *)
(* of descriptors is shared by the sockets R accepts and by the files that *)
(* E (write_outfd, epoll.c) and M (cmd_sendcmd, main.c) open and close     *)
(* around every record with open_outfd() and close_outfd() (serd.c).       *)
(* Registration, the class lists and the other mutexes are Server.tla's;   *)
(* what is left of them here is that a client cannot be freed during M's   *)
(* walk, which holds classlock.                                            *)
(***************************************************************************)
EXTENDS Naturals, FiniteSetsExt

CONSTANTS
  Conn,    \* the clients
  FdLimit, \* how many descriptors the process may still open
  Nil      \* no client, no thread, no descriptor

ASSUME LogFilesAssumption ==
  FdLimit \in Nat \ {0} /\ Nil \notin Conn \cup Nat \cup {"E", "M"}

Fd == 0..(FdLimit - 1)

VARIABLES
  fdt,             \* fdt[n]: what descriptor n refers to
  sock,            \* cli->sock of the registered clients
  outfd, outfile,  \* cli->outfd, and the descriptor inside cli->outfile
  clilock,         \* cli->lock
  epc, ecli,       \* epoll_loop()
  mpc, mcli        \* cmd_sendcmd()

vars == <<fdt, sock, outfd, outfile, clilock, epc, ecli, mpc, mcli>>

Free == [kind |-> "free", of |-> Nil]
Sock(c) == [kind |-> "sock", of |-> c]
Log(c) == [kind |-> "log", of |-> c]

Init ==
  /\ fdt = [n \in Fd |-> Free]
  /\ sock = [c \in Conn |-> Nil]
  /\ outfd = [c \in Conn |-> Nil]
  /\ outfile = [c \in Conn |-> Nil]
  /\ clilock = [c \in Conn |-> Nil]
  /\ epc = "loop" /\ ecli = Nil
  /\ mpc = "menu" /\ mcli = Nil

-----------------------------------------------------------------------------
(* The kernel: a new descriptor is the lowest free one, and closing a
   number closes whatever it refers to.                                    *)
FreeFds == {n \in Fd : fdt[n] = Free}

NewFd(x) == FreeFds # {} /\ fdt' = [fdt EXCEPT ![Min(FreeFds)] = x]

close(n) == fdt' = [fdt EXCEPT ![n] = Free]

(* Mutant of open_outfd: the number after the one fopen() has got. *)
open_outfdNext(c) ==
  /\ NewFd(Log(c))
  /\ outfd' = [outfd EXCEPT ![c] = Min(FreeFds) + 1]
  /\ outfile' = [outfile EXCEPT ![c] = Min(FreeFds)]

(* fopen(), fileno() *)
open_outfd(c) ==
  /\ NewFd(Log(c))
  /\ outfd' = [outfd EXCEPT ![c] = Min(FreeFds)]
  /\ outfile' = [outfile EXCEPT ![c] = Min(FreeFds)]

(* close_outfd() is two system calls: close(cli->outfd), and the close() of
   the same number in fclose(cli->outfile).  Nothing is buffered then.     *)
close_outfd1(c) == close(outfd[c])

close_outfd2(c) ==
  /\ close(outfile[c])
  /\ outfd' = [outfd EXCEPT ![c] = Nil]
  /\ outfile' = [outfile EXCEPT ![c] = Nil]

-----------------------------------------------------------------------------
(* Thread R: accept_newcli(). *)
Accept(c) ==
  /\ mpc # "dead" /\ sock[c] = Nil
  /\ NewFd(Sock(c))
  /\ sock' = [sock EXCEPT ![c] = Min(FreeFds)]
  /\ UNCHANGED <<outfd, outfile, clilock, epc, ecli, mpc, mcli>>

-----------------------------------------------------------------------------
(* Thread E: epoll has events of the sockets that are open. *)
Watched(c) == sock[c] # Nil /\ fdt[sock[c]] = Sock(c)

ELock(c) ==
  /\ epc = "loop" /\ Watched(c) /\ clilock[c] = Nil
  /\ clilock' = [clilock EXCEPT ![c] = "E"]
  /\ epc' = "open" /\ ecli' = c
  /\ UNCHANGED <<fdt, sock, outfd, outfile, mpc, mcli>>

EOpen ==
  /\ epc = "open" /\ open_outfd(ecli)
  /\ epc' = "write"
  /\ UNCHANGED <<sock, clilock, ecli, mpc, mcli>>

(* write_outfd() goes on without the file, up to fclose(NULL). *)
EOpenFails ==
  /\ epc = "open" /\ FreeFds = {}
  /\ epc' = "dead" /\ mpc' = "dead"
  /\ UNCHANGED <<fdt, sock, outfd, outfile, clilock, ecli, mcli>>

EWrite ==
  /\ epc = "write" /\ epc' = "close"
  /\ UNCHANGED <<fdt, sock, outfd, outfile, clilock, ecli, mpc, mcli>>

EClose ==
  /\ epc = "close" /\ close_outfd1(ecli)
  /\ epc' = "fclose"
  /\ UNCHANGED <<sock, outfd, outfile, clilock, ecli, mpc, mcli>>

EFclose ==
  /\ epc = "fclose" /\ close_outfd2(ecli)
  /\ epc' = "unlock"
  /\ UNCHANGED <<sock, clilock, ecli, mpc, mcli>>

EUnlock ==
  /\ epc = "unlock"
  /\ clilock' = [clilock EXCEPT ![ecli] = Nil]
  /\ epc' = "loop" /\ ecli' = Nil
  /\ UNCHANGED <<fdt, sock, outfd, outfile, mpc, mcli>>

(* cli_free() *)
EFree(c) ==
  /\ epc = "loop" /\ Watched(c) /\ mpc = "menu"
  /\ close(sock[c])
  /\ sock' = [sock EXCEPT ![c] = Nil]
  /\ UNCHANGED <<outfd, outfile, clilock, epc, ecli, mpc, mcli>>

-----------------------------------------------------------------------------
(* Thread M: one client of cmd_sendcmd()'s walk. *)
MLock(c) ==
  /\ mpc = "menu" /\ sock[c] # Nil /\ clilock[c] = Nil
  /\ clilock' = [clilock EXCEPT ![c] = "M"]
  /\ mpc' = "open" /\ mcli' = c
  /\ UNCHANGED <<fdt, sock, outfd, outfile, epc, ecli>>

MOpen ==
  /\ mpc = "open" /\ open_outfd(mcli)
  /\ mpc' = "write"
  /\ UNCHANGED <<sock, clilock, epc, ecli, mcli>>

MOpenFails ==
  /\ mpc = "open" /\ FreeFds = {}
  /\ mpc' = "unlock"
  /\ UNCHANGED <<fdt, sock, outfd, outfile, clilock, epc, ecli, mcli>>

(* Mutant of MWrite: the lock is given back before close_outfd(). *)
MWriteUnlocks ==
  /\ mpc = "write" /\ mpc' = "close"
  /\ clilock' = [clilock EXCEPT ![mcli] = Nil]
  /\ UNCHANGED <<fdt, sock, outfd, outfile, epc, ecli, mcli>>

(* fprintf() and fflush() *)
MWrite ==
  /\ mpc = "write" /\ mpc' = "close"
  /\ UNCHANGED <<fdt, sock, outfd, outfile, clilock, epc, ecli, mcli>>

MClose ==
  /\ mpc = "close" /\ close_outfd1(mcli)
  /\ mpc' = "fclose"
  /\ UNCHANGED <<sock, outfd, outfile, clilock, epc, ecli, mcli>>

MFclose ==
  /\ mpc = "fclose" /\ close_outfd2(mcli)
  /\ mpc' = "unlock"
  /\ UNCHANGED <<sock, clilock, epc, ecli, mcli>>

MUnlock ==
  /\ mpc = "unlock"
  /\ clilock' = [clilock EXCEPT ![mcli] = Nil]
  /\ mpc' = "send"
  /\ UNCHANGED <<fdt, sock, outfd, outfile, epc, ecli, mcli>>

(* ssltcp_write(), and on to the next client or back to the menu. *)
MSend ==
  /\ mpc = "send" /\ mpc' = "menu" /\ mcli' = Nil
  /\ UNCHANGED <<fdt, sock, outfd, outfile, clilock, epc, ecli>>

(* The operator starts the server again. *)
Start ==
  /\ mpc = "dead"
  /\ fdt' = [n \in Fd |-> Free]
  /\ sock' = [c \in Conn |-> Nil]
  /\ outfd' = [c \in Conn |-> Nil]
  /\ outfile' = [c \in Conn |-> Nil]
  /\ clilock' = [c \in Conn |-> Nil]
  /\ epc' = "loop" /\ ecli' = Nil
  /\ mpc' = "menu" /\ mcli' = Nil

Next ==
  \/ \E c \in Conn : Accept(c) \/ ELock(c) \/ EFree(c) \/ MLock(c)
  \/ EOpen \/ EOpenFails \/ EWrite \/ EClose \/ EFclose \/ EUnlock
  \/ MOpen \/ MOpenFails \/ MWrite \/ MClose \/ MFclose \/ MUnlock \/ MSend
  \/ Start

Spec == Init /\ [][Next]_vars

-----------------------------------------------------------------------------
LogStep == {"open", "write", "close", "fclose", "unlock"}

TypeOK ==
  /\ fdt \in [Fd -> {Free} \cup {Sock(c) : c \in Conn} \cup {Log(c) : c \in Conn}]
  /\ sock \in [Conn -> Fd \cup {Nil}]
  /\ outfd \in [Conn -> Fd \cup {Nil}] /\ outfile \in [Conn -> Fd \cup {Nil}]
  /\ clilock \in [Conn -> {"E", "M", Nil}]
  /\ epc \in LogStep \cup {"loop", "dead"} /\ ecli \in Conn \cup {Nil}
  /\ mpc \in LogStep \cup {"menu", "send", "dead"} /\ mcli \in Conn \cup {Nil}

(* However the two closes of one thread meet the opens of the others, a log
   file is open only under the lock of its client and at the descriptor
   cli->outfile has, so none stays open when the record is written
   (serd.c: open_outfd, close_outfd).                                      *)
NoLogLeak ==
  \A n \in Fd, c \in Conn :
    fdt[n] = Log(c) => clilock[c] # Nil /\ outfile[c] = n

(* One log file per device (README): when a thread writes a record of a
   client, the descriptor it writes to is the log file of that client.     *)
OwnLog ==
  /\ epc = "write" => fdt[outfd[ecli]] = Log(ecli)
  /\ mpc = "write" => fdt[outfile[mcli]] = Log(mcli)

=============================================================================
