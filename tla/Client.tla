-------------------------------- MODULE Client --------------------------------
(***************************************************************************)
(* The client daemon, rctl() in client/rctl.c: connect to one of the       *)
(* servers, register, then run the commands that arrive and send back what *)
(* they print, and start over after any failure.                           *)
(*                                                                         *)
(* Of each server there is the registration thread, rctlreg() in           *)
(* server/serd.c, which serves one client at a time, and the other end of  *)
(* one connection, which may end at any time.  A command is the number of  *)
(* units its output is long; BufLen units fit in the buffer.  Descriptors  *)
(* are counted, not numbered.  The command rctlbash, which forks, is in    *)
(* Bash.tla; what a server does with a registration is in Server.tla.      *)
(***************************************************************************)
EXTENDS Naturals

CONSTANTS
  TotSer,    \* TOTSER, the number of configured servers (one port each)
  BufLen,    \* BUFLEN and CMDLEN, which are equal
  MaxOut,    \* bound: the longest output of a command
  FdLimit    \* how many descriptors the process may have open

ASSUME ClientAssumption ==
  /\ TotSer \in Nat \ {0} /\ BufLen \in Nat \ {0}
  /\ MaxOut \in Nat /\ FdLimit \in Nat \ {0}

VARIABLES
  pc,
  server,    \* r_connect(): the server being tried
  fd,        \* the descriptor of rctl() is open
  ssl,       \* an SSL is allocated
  fp,        \* popen()'s stream is open
  nics,      \* getmac()'s sockets
  link,      \* the connection, see LinkEnds
  reg,       \* reg[s]: the registration thread of server s, see Registrar
  out,       \* the length of the running command's output
  left,      \* what fread() has not returned yet
  size,      \* what the last fread() returned
  isfirst,
  sent,      \* how much output of the command has been written
  told       \* "exec success" or "exec fail" has been written

command == <<out, left, size, isfirst, sent, told>>
vars    == <<pc, server, fd, ssl, fp, nics, link, reg, command>>

Server == 0..(TotSer - 1)

Init ==
  /\ pc = "reconnect" /\ server = 0
  /\ fd = FALSE /\ ssl = FALSE /\ fp = FALSE /\ nics = 0
  /\ link = "none" /\ reg = [s \in Server |-> "down"]
  /\ out = 0 /\ left = 0 /\ size = 0 /\ isfirst = FALSE /\ sent = 0 /\ told = FALSE

Used == (IF fd THEN 1 ELSE 0) + (IF fp THEN 1 ELSE 0) + nics

-----------------------------------------------------------------------------
(* The registration threads.  A server is down, runs without a port to listen
   at ("deaf"), is in select(), or serves the client or another machine.   *)
Registrar == {"down", "deaf", "select", "client", "other"}

(* A server is started; rctlreg() goes on without a port it cannot open. *)
ServerStarts(s) ==
  /\ reg[s] = "down"
  /\ reg' \in {[reg EXCEPT ![s] = "select"], [reg EXCEPT ![s] = "deaf"]}
  /\ UNCHANGED <<pc, server, fd, ssl, fp, nics, link, command>>

(* The process ends, and the client's connection with it. *)
ServerDies(s) ==
  /\ reg[s] # "down"
  /\ reg' = [reg EXCEPT ![s] = "down"]
  /\ IF server = s /\ link \in {"up", "registered"} THEN link' \in {"gone", "broken"}
     ELSE link' = link
  /\ UNCHANGED <<pc, server, fd, ssl, fp, nics, command>>

(* select() returns, and accept_newcli() serves the client ... *)
Accepts(s) ==
  /\ reg[s] = "select" /\ link = "up" /\ server = s
  /\ reg' = [reg EXCEPT ![s] = "client"]
  /\ UNCHANGED <<pc, server, fd, ssl, fp, nics, link, command>>

(* ... or another machine, ... *)
AcceptsOther(s) ==
  /\ reg[s] = "select"
  /\ reg' = [reg EXCEPT ![s] = "other"]
  /\ UNCHANGED <<pc, server, fd, ssl, fp, nics, link, command>>

(* ... until that one is registered, or has failed. *)
OtherDone(s) ==
  /\ reg[s] = "other"
  /\ reg' = [reg EXCEPT ![s] = "select"]
  /\ UNCHANGED <<pc, server, fd, ssl, fp, nics, link, command>>

(* accept_newcli() is done with the client if it was at it. *)
Released == [s \in Server |-> IF reg[s] = "client" THEN "select" ELSE reg[s]]

(* The connection: "up" and then "registered" until the server closes it,
   "gone", or resets it, "broken".                                         *)
LinkEnds ==
  /\ link \in {"up", "registered"}
  /\ link' \in {"gone", "broken"} /\ reg' = Released
  /\ UNCHANGED <<pc, server, fd, ssl, fp, nics, command>>

(* ssltcp_write() succeeds; on a closed connection it is answered by a
   reset.                                                                  *)
WriteOk ==
  /\ link # "broken"
  /\ link' = IF link = "gone" THEN "broken" ELSE link

Writing == {"handshake", "register", "sayfail", "sayok", "relay"}

(* The process ends, with all it holds. *)
Ends(how) ==
  /\ pc' = how
  /\ fd' = FALSE /\ ssl' = FALSE /\ fp' = FALSE /\ nics' = 0
  /\ link' = "none" /\ reg' = Released

(* A write on a reset connection raises SIGPIPE, which nothing in the client
   handles or ignores; it may also just fail, once.  ssl_free() writes too. *)
SigPipe ==
  /\ pc \in Writing \cup {"read"} /\ link = "broken"
  /\ Ends("killed")
  /\ UNCHANGED <<server, command>>

-----------------------------------------------------------------------------
(* reconnect: close() and, in r_connect(), socket(); no descriptor is left
   for it when all of them are in use.                                     *)
Reconnect ==
  /\ pc = "reconnect"
  /\ link' = "none" /\ server' = 0 /\ reg' = Released
  /\ fd' = (nics < FdLimit)
  /\ pc' = IF nics < FdLimit THEN "connect" ELSE "reconnect"
  /\ UNCHANGED <<ssl, fp, nics, command>>

ConnectOk ==
  /\ pc = "connect" /\ server < TotSer /\ reg[server] \notin {"down", "deaf"}
  /\ link' = "up" /\ pc' = "ssl"
  /\ UNCHANGED <<server, fd, ssl, fp, nics, reg, command>>

(* Mutant of ConnectFails: the loop ends one server too early. *)
ConnectFailsShort ==
  /\ pc = "connect" /\ server < TotSer
  /\ server' = IF server + 2 < TotSer THEN server + 1 ELSE TotSer
  /\ UNCHANGED <<pc, fd, ssl, fp, nics, link, reg, command>>

(* The name is not resolved, or connect() fails: the next server. *)
ConnectFails ==
  /\ pc = "connect" /\ server < TotSer
  /\ server' = server + 1
  /\ UNCHANGED <<pc, fd, ssl, fp, nics, link, reg, command>>

ConnectGivesUp ==
  /\ pc = "connect" /\ server = TotSer
  /\ fd' = FALSE /\ pc' = "reconnect"
  /\ UNCHANGED <<server, ssl, fp, nics, link, reg, command>>

SslNew ==
  /\ pc = "ssl"
  /\ \/ ssl' = TRUE /\ pc' = "handshake"
     \/ ssl' = FALSE /\ pc' = "reconnect"
  /\ UNCHANGED <<server, fd, fp, nics, link, reg, command>>

(* ssl_free(), or ssltcp_free() alone, and goto reconnect. *)
StartOver ==
  /\ ssl' = FALSE /\ pc' = "reconnect"
  /\ UNCHANGED <<server, fd, nics, link, reg, command>>

HandshakeOk ==
  /\ pc = "handshake" /\ link = "up" /\ reg[server] = "client"
  /\ pc' = "getmac"
  /\ UNCHANGED <<server, fd, ssl, fp, nics, link, reg, command>>

(* The server's thread answers wrongly, or the connection has ended. *)
HandshakeFails ==
  /\ pc = "handshake" /\ (link = "up" => reg[server] = "client")
  /\ StartOver /\ UNCHANGED fp

(* getmac() opens a socket for its ioctl() and leaves it open; without a
   descriptor it ends the process.                                         *)
GetMac ==
  /\ pc = "getmac"
  /\ IF Used < FdLimit
     THEN /\ nics' = nics + 1 /\ pc' = "register"
          /\ UNCHANGED <<fd, ssl, fp, link, reg>>
     ELSE Ends("exit")
  /\ UNCHANGED <<server, command>>

(* The ioctl() fails for an interface that is not there, and the process
   ends.                                                                   *)
GetMacFails ==
  /\ pc = "getmac" /\ Used < FdLimit
  /\ Ends("nonic")
  /\ UNCHANGED <<server, command>>

(* The reg_t is written; if the connection is up, it reaches the server, whose
   accept_newcli() reads it and returns.                                   *)
Register ==
  /\ pc = "register" /\ link # "broken"
  /\ link' = IF link = "up" THEN "registered" ELSE "broken"
  /\ reg' = Released /\ pc' = "read"
  /\ UNCHANGED <<server, fd, ssl, fp, nics, command>>

RegisterFails == pc = "register" /\ link = "broken" /\ StartOver /\ UNCHANGED fp

-----------------------------------------------------------------------------
(* ssltcp_read() returns a command whose output is n units long; what was
   sent before the connection was closed is still read.                    *)
Read(n) ==
  /\ pc = "read" /\ link \in {"registered", "gone"}
  /\ out' = n /\ left' = n /\ sent' = 0 /\ told' = FALSE
  /\ pc' = "popen"
  /\ UNCHANGED <<server, fd, ssl, fp, nics, link, reg, size, isfirst>>

(* Mutant of ReadFails: only an error, not the end of the connection, makes
   the client start over.                                                  *)
ReadFailsReset == pc = "read" /\ link = "broken" /\ StartOver /\ UNCHANGED fp

ReadFails == pc = "read" /\ link \in {"gone", "broken"} /\ StartOver /\ UNCHANGED fp

Popen ==
  /\ pc = "popen" /\ Used < FdLimit
  /\ fp' = TRUE /\ isfirst' = TRUE /\ pc' = "fread"
  /\ UNCHANGED <<server, fd, ssl, nics, link, reg, out, left, size, sent, told>>

PopenFails ==
  /\ pc = "popen"
  /\ pc' = "sayfail"
  /\ UNCHANGED <<server, fd, ssl, fp, nics, link, reg, command>>

SayFail ==
  /\ pc = "sayfail" /\ WriteOk
  /\ told' = TRUE /\ pc' = "read"
  /\ UNCHANGED <<server, fd, ssl, fp, nics, reg, out, left, size, isfirst, sent>>

SayFailFails == pc = "sayfail" /\ link = "broken" /\ StartOver /\ UNCHANGED fp

-----------------------------------------------------------------------------
(* fread() returns less than it is asked for only at the end. *)
Fread ==
  /\ pc = "fread"
  /\ size' = IF left < BufLen THEN left ELSE BufLen
  /\ left' = left - size'
  /\ pc' = IF isfirst /\ size' = 0 THEN "sayok" ELSE IF size' > 0 THEN "relay" ELSE "more"
  /\ UNCHANGED <<server, fd, ssl, fp, nics, link, reg, out, isfirst, sent, told>>

(* Some commands have no output. *)
SayOk ==
  /\ pc = "sayok" /\ WriteOk
  /\ told' = TRUE /\ pc' = "more"
  /\ UNCHANGED <<server, fd, ssl, fp, nics, reg, out, left, size, isfirst, sent>>

(* Mutant of Relay: the whole buffer is written, not what was read. *)
RelayBuf ==
  /\ pc = "relay" /\ WriteOk
  /\ sent' = sent + BufLen /\ pc' = "more"
  /\ UNCHANGED <<server, fd, ssl, fp, nics, reg, out, left, size, isfirst, told>>

Relay ==
  /\ pc = "relay" /\ WriteOk
  /\ sent' = sent + size /\ pc' = "more"
  /\ UNCHANGED <<server, fd, ssl, fp, nics, reg, out, left, size, isfirst, told>>

(* Mutant of RelayFails: pclose() is left out on the error path. *)
RelayFailsOpen ==
  /\ pc \in {"sayok", "relay"} /\ link = "broken"
  /\ StartOver /\ UNCHANGED fp

RelayFails ==
  /\ pc \in {"sayok", "relay"} /\ link = "broken"
  /\ StartOver /\ fp' = FALSE

(* Mutant of More: the output is read once. *)
MoreOnce ==
  /\ pc = "more"
  /\ isfirst' = FALSE /\ fp' = FALSE /\ pc' = "read"
  /\ UNCHANGED <<server, fd, ssl, nics, link, reg, out, left, size, sent, told>>

(* while(size == BUFLEN), and pclose() after the loop. *)
More ==
  /\ pc = "more"
  /\ isfirst' = FALSE
  /\ IF size = BufLen THEN pc' = "fread" /\ fp' = fp ELSE pc' = "read" /\ fp' = FALSE
  /\ UNCHANGED <<server, fd, ssl, nics, link, reg, out, left, size, sent, told>>

-----------------------------------------------------------------------------
Step ==
  \/ Reconnect \/ ConnectFails \/ ConnectGivesUp \/ SslNew \/ HandshakeOk \/ HandshakeFails
  \/ GetMac \/ GetMacFails \/ Register \/ RegisterFails \/ ReadFails
  \/ Popen \/ PopenFails \/ SayFail \/ SayFailFails
  \/ Fread \/ SayOk \/ Relay \/ RelayFails \/ More \/ SigPipe

RegStep(s) == Accepts(s) \/ AcceptsOther(s) \/ OtherDone(s)

Next ==
  \/ Step \/ ConnectOk \/ LinkEnds
  \/ \E s \in Server : RegStep(s) \/ ServerStarts(s) \/ ServerDies(s)
  \/ \E n \in 0..MaxOut : Read(n)

Spec == Init /\ [][Next]_vars

(* A call that may wait for ever: for the server while the connection is up,
   or for the output of a command.                                         *)
Waits == pc = "fread" \/ (pc \in Writing /\ link \in {"up", "registered"})

(* The daemon keeps running; a server that can be reached again and again,
   and that does its part of the registration, is registered with.  The
   registration thread serves everybody who waits at its port in turn, and
   the other machines answer it or end their connections.                  *)
FairSpec ==
  /\ Spec
  /\ WF_vars(~Waits /\ Step)
  /\ SF_vars(ConnectOk) /\ SF_vars(SslNew /\ ssl')
  /\ SF_vars(HandshakeOk) /\ SF_vars(Register)
  /\ \A s \in Server : SF_vars(Accepts(s)) /\ WF_vars(OtherDone(s))

-----------------------------------------------------------------------------
TypeOK ==
  /\ pc \in {"reconnect", "connect", "ssl", "handshake", "getmac", "register", "read", "popen",
             "sayfail", "fread", "sayok", "relay", "more", "exit", "nonic", "killed"}
  /\ server \in 0..TotSer
  /\ fd \in BOOLEAN /\ ssl \in BOOLEAN /\ fp \in BOOLEAN /\ isfirst \in BOOLEAN
  /\ told \in BOOLEAN
  /\ nics \in 0..FdLimit /\ Used <= FdLimit
  /\ link \in {"none", "up", "registered", "gone", "broken"}
  /\ reg \in [Server -> Registrar]
  /\ \A s \in Server : reg[s] = "client" => s = server /\ link = "up"
  /\ out \in 0..MaxOut /\ left \in 0..MaxOut /\ size \in 0..BufLen
  /\ sent \in 0..MaxOut /\ sent <= out

(* Whatever failed before, the client starts over, and reads its next
   command, with nothing left open of the last one: no SSL and no stream
   of popen() is lost (rctl.c: the eight ways to "goto reconnect").        *)
CleanRestart ==
  /\ pc \in {"reconnect", "connect", "ssl"} => ~ssl /\ ~fp
  /\ pc \in {"handshake", "getmac", "register", "read"} => fd /\ ssl /\ ~fp

CommandOver == pc \in {"more", "sayfail"} /\ pc' = "read"

(* When the client is done with a command and reads the next one, it has
   written the whole output, once; or, if there was none or the command
   could not be run, that it succeeded or failed, and nothing else.        *)
OutputWhole ==
  [][CommandOver => IF out > 0 /\ pc = "more" THEN sent' = out /\ ~told'
                    ELSE sent' = 0 /\ told']_vars

(* A lost connection is noticed, and the client starts over, wherever it was
   when the connection ended, unless its command does not end.             *)
LossNoticed ==
  []<>(pc # "fread") =>
    (link \in {"gone", "broken"} ~> pc \in {"reconnect", "exit", "nonic", "killed"})

(* From some time on no server is started or dies, and the network breaks no
   connection.                                                             *)
Settles ==
  <>[][~LinkEnds /\ \A s \in Server : ~ServerStarts(s) /\ ~ServerDies(s)]_vars

(* Then, whichever of its servers listens, the client gets to it past the
   others and whatever has failed before, unless it is killed, out of
   descriptors or without its interface (client/rctl.c: the loops of
   r_connect(), and "reconnect").                                          *)
FindsServer ==
  /\ Settles /\ <>[](\E s \in Server : reg[s] \notin {"down", "deaf"})
  /\ [](pc \notin {"killed", "exit", "nonic"}) /\ []<>(pc # "fread")
  => []<>(link = "registered")

(* The client is the one that makes the connection, and makes it again after
   every failure: while it is not killed and has its interface, nothing keeps
   it from that.                                                           *)
Reconnects ==
  /\ Settles /\ <>[](\E s \in Server : reg[s] \notin {"down", "deaf"})
  /\ [](pc \notin {"killed", "nonic"}) /\ []<>(pc # "fread")
  => []<>(link = "registered")

=============================================================================
