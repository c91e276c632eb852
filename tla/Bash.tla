--------------------------------- MODULE Bash ---------------------------------
(***************************************************************************)
(* The remote shell, entry 4 of the menu: bashto() and bashfd() of         *)
(* server/bash.c against bashfrom() and bashfd() of client/rctl.c.         *)
(*                                                                         *)
(* The server writes the command rctlbash on the client's connection and   *)
(* only then listens at BASHPORT.  The client forks a child that connects  *)
(* there, forks a shell and relays between them: exchange() of             *)
(* lib/exchange.c.                                                         *)
(*                                                                         *)
(* And the processes of a client: main() of client/cli.c, which pauses     *)
(* after it has forked, and the lock of one_instance(), which every        *)
(* process inherits that comes from it; a start that cannot open the file  *)
(* goes on without the lock.  What the directory does meanwhile is in      *)
(* Server.tla, what the client does with other commands in Client.tla.     *)
(***************************************************************************)
EXTENDS Naturals, FiniteSets, Functions, SequencesExt

CONSTANTS
  Device,   \* the machines a client runs on
  Addr,     \* Addr[d]: the address the connections of d come from
  ETH_ALEN, \* how many bytes a MAC has
  Mac,      \* Mac[d]: the MAC that d registered with
  Proc,     \* bound: the processes of all the clients, but main() and the shells
  MaxFault, \* bound: processes killed, and starts without the lock, together
  MaxAsk,   \* bound: rctlbash commands a connection holds unread
  Nil       \* no device, no process

ASSUME BashAssumption ==
  /\ Nil \notin Device \cup Proc
  /\ \E f \in [Device -> Proc] : IsInjective(f)
  /\ DOMAIN Addr = Device
  /\ ETH_ALEN \in Nat \ {0} /\ Mac \in [Device -> [1..ETH_ALEN -> 0..255]]
  /\ MaxAsk \in Nat \ {0} /\ MaxFault \in Nat

VARIABLES
  mpc, asked, peer,  \* bashto(): where it is, whom it asks, whom it accepted
  typed,             \* cmd_bashto(): the MAC the operator has typed
  listening,         \* the socket of the server's bashfd() listens
  unread,            \* unread[d]: the rctlbash commands d has not read yet, on
                     \* all its connections if rctlcli runs more than once
  ppc, dev,          \* dev[p]: the machine of process p; ppc[p]: where it is
  shell,             \* shell[p]: the shell that p forked, see ShellSteps
  paused,            \* the machines where a main() with the lock is in pause()
  daemon,            \* the processes rctl() forked; the others are their children
  holds,             \* the processes that have the locked file open
  faults

server  == <<mpc, asked, peer, typed, listening>>
machine == <<shell, paused, daemon, holds, faults>>
vars    == <<server, unread, ppc, dev, machine>>

(* rctlcli runs on each machine: the process rctl() forked reads the commands. *)
Init ==
  /\ mpc = "menu" /\ asked = Nil /\ peer = Nil /\ typed = <<>> /\ listening = FALSE
  /\ unread = [d \in Device |-> 0]
  /\ dev = CHOOSE f \in [Proc -> Device \cup {Nil}] :
             \A d \in Device : \E p \in Proc : \A q \in Proc : f[q] = d <=> q = p
  /\ ppc = [p \in Proc |-> IF dev[p] = Nil THEN "none" ELSE "loop"]
  /\ shell = [p \in Proc |-> "none"]
  /\ paused = Device /\ daemon = {p \in Proc : dev[p] # Nil} /\ holds = daemon
  /\ faults = 0

(* fork() makes a process; which of the free ones does not matter. *)
Free  == {p \in Proc : ppc[p] = "none"}
Fresh == CHOOSE p \in Proc : ppc[p] = "none"

Queued == {p \in Proc : ppc[p] = "queued"}

(* close() of the listening socket: connections not accepted are reset. *)
Reset == [p \in Proc |-> IF ppc[p] = "queued" THEN "reset" ELSE ppc[p]]

-----------------------------------------------------------------------------
(* The server. *)

(* A text is a sequence of hexadecimal digits and colons. *)
Colon == 16

(* "%02x:%02x:..." *)
getmacstr(mac) ==
  [i \in 1..(3 * Len(mac) - 1) |->
     LET byte == mac[(i + 2) \div 3] IN
     CASE i % 3 = 1 -> byte \div 16 [] i % 3 = 2 -> byte % 16 [] OTHER -> Colon]

(* Where the digits that begin at p end. *)
DigitsEnd(str, p) ==
  CHOOSE q \in p..(Len(str) + 1) :
    /\ \A k \in p..(q - 1) : str[k] # Colon
    /\ q \in 1..Len(str) => str[q] = Colon

strtol(str, p) ==
  LET last == DigitsEnd(str, p) - 1
      val[q \in (p - 1)..last] == IF q < p THEN 0 ELSE 16 * val[q - 1] + str[q]
  IN  val[last]

(* Where macstr is when the loop is at byte i; 0 when it has ended before. *)
Macstr(str) ==
  LET at[i \in 0..(ETH_ALEN - 1)] ==
        IF i = 0 THEN 1
        ELSE LET p == at[i - 1] IN
             IF p = 0 THEN 0
             ELSE IF DigitsEnd(str, p) > Len(str) THEN 0 ELSE DigitsEnd(str, p) + 1
  IN  at

(* The loop ends with the text; the bytes after it stay what they were. *)
macstr_to_mac(str, old) ==
  [i \in 1..ETH_ALEN |-> IF Macstr(str)[i - 1] = 0 THEN old[i]
                         ELSE strtol(str, Macstr(str)[i - 1]) % 256]

(* The operator copies a MAC from what cmd_listcli() prints, or its first
   bytes.                                                                  *)
Typed ==
  {SubSeq(getmacstr(Mac[d]), 1, 3 * n - 1) : d \in Device, n \in 1..ETH_ALEN}

(* cmd_bashto(), bashto(): d is found, whatever the memory of mac[] held
   before, and rctlbash is written on its connection.                      *)
MAsk(d) ==
  /\ mpc = "menu" /\ unread[d] < MaxAsk
  /\ \E str \in Typed, old \in Range(Mac) :
       macstr_to_mac(str, old) = Mac[d] /\ typed' = str
  /\ unread' = [unread EXCEPT ![d] = @ + 1]
  /\ asked' = d /\ mpc' = "bashfd"
  /\ UNCHANGED <<peer, listening, ppc, dev, machine>>

(* bashfd(): socket(), bind(), listen(). *)
MListen ==
  /\ mpc = "bashfd" /\ ~listening
  /\ listening' = TRUE /\ mpc' = "accept"
  /\ UNCHANGED <<asked, typed, peer, unread, ppc, dev, machine>>

MListenFails ==
  /\ mpc = "bashfd"
  /\ mpc' = "menu" /\ asked' = Nil /\ typed' = <<>>
  /\ UNCHANGED <<peer, listening, unread, ppc, dev, machine>>

(* accept() waits for a connection, from anybody. *)
MAccept(p) ==
  /\ mpc = "accept" /\ p \in Queued
  /\ peer' = p /\ mpc' = "check"
  /\ ppc' = [ppc EXCEPT ![p] = "handshake"]
  /\ UNCHANGED <<asked, typed, listening, unread, dev, machine>>

MAcceptFails ==
  /\ mpc = "accept"
  /\ listening' = FALSE /\ ppc' = Reset
  /\ mpc' = "menu" /\ asked' = Nil /\ typed' = <<>>
  /\ UNCHANGED <<peer, unread, dev, machine>>

(* Mutant of SameAddr: the address is not looked at. *)
SameAddrAny(p) == TRUE

SameAddr(p) == Addr[dev[p]] = Addr[asked]

MCheckOk ==
  /\ mpc = "check" /\ SameAddr(peer)
  /\ listening' = FALSE /\ ppc' = Reset
  /\ mpc' = "handshake"
  /\ UNCHANGED <<asked, typed, peer, unread, dev, machine>>

(* Mutant of MCheckFails: the listening socket is left open. *)
MCheckFailsOpen ==
  /\ mpc = "check" /\ ~SameAddr(peer)
  /\ ppc' = [ppc EXCEPT ![peer] = "reset"]
  /\ mpc' = "menu" /\ asked' = Nil /\ typed' = <<>> /\ peer' = Nil
  /\ UNCHANGED <<listening, unread, dev, machine>>

MCheckFails ==
  /\ mpc = "check" /\ ~SameAddr(peer)
  /\ listening' = FALSE
  /\ ppc' = [Reset EXCEPT ![peer] = "reset"]
  /\ mpc' = "menu" /\ asked' = Nil /\ typed' = <<>> /\ peer' = Nil
  /\ UNCHANGED <<unread, dev, machine>>

(* ssltcp_accept() here and ssltcp_connect() in the child. *)
HandshakeOk ==
  /\ mpc = "handshake"
  /\ mpc' = "session" /\ ppc' = [ppc EXCEPT ![peer] = "spawn"]
  /\ UNCHANGED <<asked, typed, peer, listening, unread, dev, machine>>

HandshakeFails ==
  /\ mpc = "handshake"
  /\ mpc' = "menu" /\ asked' = Nil /\ typed' = <<>> /\ peer' = Nil
  /\ ppc' = [ppc EXCEPT ![peer] = "reset"]
  /\ UNCHANGED <<listening, unread, dev, machine>>

MEndSession ==
  /\ mpc = "session"
  /\ mpc' = "menu" /\ asked' = Nil /\ typed' = <<>> /\ peer' = Nil
  /\ UNCHANGED <<listening, unread, ppc, dev, machine>>

(* bashto() leaves its loop when the connection has ended ... *)
MClosed == peer = Nil /\ MEndSession

(* ... or the operator's input; the socket stays open, and so does the shell
   at its other end.                                                       *)
MLeaves == peer # Nil /\ MEndSession

(* What the processes in S are when their connection has ended: a relay exits
   and leaves its shell behind, which holds the terminal open itself.      *)
HungUp(S) ==
  [p \in Proc |->
     CASE p \in S /\ ppc[p] \in {"queued", "handshake"} -> "reset"
       [] p \in S /\ ppc[p] = "spawn" -> "none"
       [] p \in S /\ ppc[p] \in {"forked", "relay"} ->
            IF shell[p] \in {"new", "tty"} THEN "left" ELSE "none"
       [] OTHER -> ppc[p]]

(* The processes end that the new ppc has as "none". *)
Gone ==
  /\ dev' = [p \in Proc |-> IF ppc'[p] = "none" THEN Nil ELSE dev[p]]
  /\ shell' = [p \in Proc |-> IF ppc'[p] = "none" THEN "none" ELSE shell[p]]
  /\ daemon' = {p \in daemon : ppc'[p] # "none"}
  /\ holds' = {p \in holds : ppc'[p] # "none"}

(* The server is killed and started again; the processes in rctl()'s loop
   connect again and register.                                             *)
Restart ==
  /\ mpc' = "menu" /\ asked' = Nil /\ typed' = <<>> /\ peer' = Nil /\ listening' = FALSE
  /\ unread' = [d \in Device |-> 0]
  /\ ppc' = HungUp(Proc) /\ Gone
  /\ UNCHANGED <<paused, faults>>

-----------------------------------------------------------------------------
(* The clients. *)

(* A process in rctl()'s loop reads rctlbash, and bashfrom() forks; the child
   inherits the locked file.                                               *)
Fork(p) ==
  /\ ppc[p] = "loop" /\ unread[dev[p]] > 0 /\ Free # {}
  /\ unread' = [unread EXCEPT ![dev[p]] = @ - 1]
  /\ ppc' = [ppc EXCEPT ![Fresh] = "child"]
  /\ dev' = [dev EXCEPT ![Fresh] = dev[p]]
  /\ holds' = IF p \in holds THEN holds \cup {Fresh} ELSE holds
  /\ UNCHANGED <<server, shell, paused, daemon, faults>>

(* bashfd(): listen() was given 0, one connection may wait for accept(). *)
Connect(p) ==
  /\ ppc[p] = "child" /\ listening /\ Queued = {}
  /\ ppc' = [ppc EXCEPT ![p] = "queued"]
  /\ UNCHANGED <<server, unread, dev, machine>>

(* Nobody listens, or the network does not get there. *)
ConnectFails(p) ==
  /\ ppc[p] = "child"
  /\ ppc' = [ppc EXCEPT ![p] = "reset"]
  /\ UNCHANGED <<server, unread, dev, machine>>

(* bashfrom() returns in the child: to the loop of rctl(), where it is one
   more reader of the commands.                                            *)
Returns(p) ==
  /\ ppc[p] = "reset"
  /\ ppc' = [ppc EXCEPT ![p] = "loop"]
  /\ UNCHANGED <<server, unread, dev, machine>>

(* Process p ends, and its connection with it if no shell holds it too. *)
Ends(p) ==
  /\ ppc' = [ppc EXCEPT ![p] = "none"] /\ Gone
  /\ peer' = IF peer = p THEN Nil ELSE peer
  /\ UNCHANGED <<mpc, asked, typed, listening, unread, paused, faults>>

(* pty_init(), or the fork() of the shell, fails. *)
Fails(p) == ppc[p] \in {"child", "spawn"} /\ Ends(p)

(* bashfrom() forks the shell. *)
Spawn(p) ==
  /\ ppc[p] = "spawn"
  /\ ppc' = [ppc EXCEPT ![p] = "forked"] /\ shell' = [shell EXCEPT ![p] = "new"]
  /\ UNCHANGED <<server, unread, dev, paused, daemon, holds, faults>>

(* killme() and exchange() install the handlers of the signals. *)
Handlers(p) ==
  /\ ppc[p] = "forked"
  /\ ppc' = [ppc EXCEPT ![p] = "relay"]
  /\ UNCHANGED <<server, unread, dev, machine>>

(* Mutant of TtyClosed: exchange() ends when read() returns 0, but not when
   it fails.                                                               *)
TtyClosedNot(p) == ppc[p] = "relay" /\ shell[p] = "none" /\ Ends(p)

(* exchange(): read() of the terminal fails when a shell that had opened it
   has ended.                                                              *)
TtyClosed(p) == ppc[p] = "relay" /\ shell[p] = "ended" /\ Ends(p)

(* A new shell opens the terminal, or fails before that; later it ends.  The
   SIGCHLD it leaves ends the relay, if its handler is there.              *)
ShellSteps(p) ==
  \E from \in {"new", "tty"}, to \in {"tty", "failed", "ended"} :
    /\ shell[p] = from /\ (to = "ended" <=> from = "tty") /\ from # to
    /\ IF to # "tty" /\ ppc[p] \in {"relay", "left"}
       THEN Ends(p)
       ELSE /\ shell' = [shell EXCEPT ![p] = to]
            /\ UNCHANGED <<server, unread, ppc, dev, paused, daemon, holds, faults>>

(* SIGTERM, or SIGHUP as its parent has ended: the handler kills the shell
   before the relay exits; without a handler the relay alone ends.         *)
Term(p) ==
  /\ ppc[p] \in {"forked", "relay"}
  /\ \/ Ends(p)
     \/ /\ ppc[p] = "forked" /\ shell[p] \in {"new", "tty"}
        /\ ppc' = [ppc EXCEPT ![p] = "left"]
        /\ UNCHANGED <<server, unread, dev, machine>>

(* A process that reads commands is killed.  Its connection ends, with what
   has not been read, if no other process reads from it.                   *)
Killed(p) ==
  /\ ppc[p] = "loop" /\ faults < MaxFault
  /\ ppc' = [ppc EXCEPT ![p] = "none"] /\ Gone /\ faults' = faults + 1
  /\ \/ unread' = [unread EXCEPT ![dev[p]] = 0]
     \/ /\ \E q \in Proc \ {p} : ppc[q] = "loop" /\ dev[q] = dev[p]
        /\ unread' = unread
  /\ UNCHANGED <<server, paused>>

(* So is main(), which holds nothing but the lock. *)
MainKilled(d) ==
  /\ d \in paused /\ faults < MaxFault
  /\ paused' = paused \ {d} /\ faults' = faults + 1
  /\ UNCHANGED <<server, unread, ppc, dev, shell, daemon, holds>>

(* Mutant of Locked: the lock is main()'s alone, as one of fcntl() would be. *)
LockedMain(d) == d \in paused

(* flock() of one_instance() fails with EWOULDBLOCK as long as any process
   has the file open that got the lock or comes from the one that did.     *)
Locked(d) == d \in paused \/ \E p \in holds : dev[p] = d

(* fork() in rctl(). *)
NewDaemon(d) ==
  /\ Free # {}
  /\ ppc' = [ppc EXCEPT ![Fresh] = "init"] /\ dev' = [dev EXCEPT ![Fresh] = d]
  /\ daemon' = daemon \cup {Fresh}

(* rctlcli is started: proc_args(), one_instance(), fork() and pause(). *)
Start(d) ==
  /\ ~Locked(d) /\ NewDaemon(d)
  /\ paused' = paused \cup {d} /\ holds' = holds \cup {Fresh}
  /\ UNCHANGED <<server, unread, shell, faults>>

(* open() of the pid file fails; so does flock(), but not with EWOULDBLOCK,
   and one_instance() returns.                                             *)
StartUnlocked(d) ==
  /\ faults < MaxFault /\ NewDaemon(d)
  /\ faults' = faults + 1
  /\ UNCHANGED <<server, unread, shell, paused, holds>>

(* ssltcp_init() in the process that was forked, which then registers, or
   exits because the context or the certificates cannot be had.            *)
SslInit(p) ==
  /\ ppc[p] = "init"
  /\ \/ /\ ppc' = [ppc EXCEPT ![p] = "loop"]
        /\ UNCHANGED <<server, unread, dev, machine>>
     \/ Ends(p)

-----------------------------------------------------------------------------
MStep ==
  \/ MListen \/ MListenFails \/ MCheckOk \/ MCheckFails \/ HandshakeOk \/ HandshakeFails
  \/ MClosed \/ \E p \in Proc : MAccept(p)

RelayStep(p) == Spawn(p) \/ Handlers(p) \/ TtyClosed(p)

Next ==
  \/ MStep \/ MAcceptFails \/ MLeaves \/ Restart
  \/ \E d \in Device : MAsk(d) \/ MainKilled(d) \/ Start(d) \/ StartUnlocked(d)
  \/ \E p \in Proc : \/ Fork(p) \/ Connect(p) \/ ConnectFails(p) \/ Returns(p) \/ Fails(p)
                    \/ SslInit(p) \/ RelayStep(p) \/ ShellSteps(p) \/ Term(p) \/ Killed(p)

Spec == Init /\ [][Next]_vars

(* The console thread keeps running, and so do the relays; nothing makes
   accept() fail, or the operator and the shell end a session.             *)
FairSpec == Spec /\ WF_vars(MStep) /\ WF_vars(\E p \in Proc : RelayStep(p))

-----------------------------------------------------------------------------
TypeOK ==
  /\ mpc \in {"menu", "bashfd", "accept", "check", "handshake", "session"}
  /\ asked \in Device \cup {Nil} /\ (asked = Nil <=> mpc = "menu")
  /\ peer \in Proc \cup {Nil}
  /\ listening \in BOOLEAN /\ (listening <=> mpc \in {"accept", "check"})
  /\ unread \in [Device -> 0..MaxAsk]
  /\ typed \in Typed \cup {<<>>} /\ (typed = <<>> <=> asked = Nil)
  /\ ppc \in [Proc -> {"none", "init", "loop", "child", "queued", "handshake", "reset",
                       "spawn", "forked", "relay", "left"}]
  /\ dev \in [Proc -> Device \cup {Nil}]
  /\ \A p \in Proc : dev[p] = Nil <=> ppc[p] = "none"
  /\ shell \in [Proc -> {"none", "new", "tty", "ended", "failed"}]
  /\ \A p \in Proc : shell[p] # "none" <=> ppc[p] \in {"forked", "relay", "left"}
  /\ paused \subseteq Device /\ faults \in 0..MaxFault
  /\ daemon \subseteq Proc /\ holds \subseteq Proc

(* The shell the operator is connected to runs on a machine whose MAC begins
   with what he typed, the whole of it or less, however late the child of an
   earlier request connects; or on one that has the same address as seen from
   the server, as bashfd() looks at nothing else: of machines behind one
   address, it may be the wrong one (server/bash.c: macstr_to_mac() and the
   address check of bashfd()).                                             *)
AskedDevice ==
  mpc = "session" /\ peer # Nil =>
    /\ ppc[peer] \in {"spawn", "forked", "relay", "left"}
    /\ \E d \in Device : /\ Addr[d] = Addr[dev[peer]]
                         /\ IsPrefix(typed, getmacstr(Mac[d]))

(* A child that has connected gets an answer: a shell, or a closed
   connection; none waits in the queue of a socket nobody accepts from.    *)
Answered ==
  \A p \in Proc : ppc[p] = "queued" ~> ppc[p] # "queued"

(* When a shell that had opened its terminal has ended, the operator gets his
   menu back, although the SIGCHLD that tells its relay may come before the
   handler is there (lib/exchange.c: the terminal is the second way to
   notice).  It is not said of a shell that failed before it opened the
   terminal: if the handler is not there either, nobody notices its end.   *)
SessionOver ==
  \A p \in Proc :
    mpc = "session" /\ peer = p /\ shell[p] = "ended" ~> mpc = "menu"

(* However rctlcli is killed in part and started again, of the daemons that
   one_instance() let pass with the lock at most one at a time is on a machine
   (client/rctl.c).  Those that were started without the lock run beside it,
   and of children that become readers OneReader says more.                *)
OneLockHolder ==
  \A d \in Device : Cardinality({p \in daemon \cap holds : dev[p] = d}) <= 1

(* one_instance(): "another rctlcli is running" - one process of a machine
   reads the commands sent to it.                                          *)
OneReader ==
  \A d \in Device : Cardinality({p \in Proc : ppc[p] = "loop" /\ dev[p] = d}) <= 1

=============================================================================
