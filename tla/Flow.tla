--------------------------------- MODULE Flow ---------------------------------
(***************************************************************************)
(* Commands and output in flight between the server and its clients: the   *)
(* console's cmd_sendcmd() (server/main.c), which writes while it holds    *)
(* classlock, the epoll thread (server/epoll.c), which needs classlock to  *)
(* free a client, and the loop of rctl() (client/rctl.c), which does not   *)
(* read its next command before it has written the output of the last.     *)
(*                                                                         *)
(* What two sockets hold is bounded, and every write blocks when they are  *)
(* full.  Each write of at most BUFLEN bytes is a record of its own, which *)
(* one ssltcp_read() returns.  The clients are all of one class, whose     *)
(* clilist is kept here with its pointers (ListHead.tla).  The steps of a  *)
(* registration, the other locks, signals and the memory of a freed client *)
(* are in Server.tla.  Whether what is written to a log file gets into it  *)
(* is the subject of LogFiles.tla; here a file that cannot be opened ends  *)
(* the server (ELogFails).                                                 *)
(***************************************************************************)
EXTENDS Naturals, FiniteSets, Functions, SequencesExt

CONSTANTS
  Client,
  clilist,   \* the head of class->clilist
  Cap,       \* how many records fit between a writer and its reader
  MaxCmd,    \* bound: the commands the operator sends
  MaxOut,    \* bound: the records a command's output fills
  Nil        \* no client, NULL

ASSUME FlowAssumption ==
  /\ IsFiniteSet(Client) /\ clilist \notin Client /\ Nil \notin Client \cup {clilist}
  /\ Cap \in Nat \ {0} /\ MaxCmd \in Nat /\ MaxOut \in Nat \ {0}

L == INSTANCE ListHead WITH Node <- Client \cup {clilist}, Null <- Nil

VARIABLES
  heap,      \* the pointers of class->clilist and of each client's classlist
  lock,      \* the owner of classlock
  mpc, pos,  \* cmd_sendcmd(): where it is, and its client
  ncmd,      \* commands sent, the number of the last
  epc, ev,   \* the epoll thread, and the events it has not handled
  ecli, erec,\* the client it handles, and the record read from it
  net,       \* net[c]: the connection, "up" or "gone"
  down, up,  \* the records on the way to the client, and from it
  run,       \* run[c]: the command c runs and the records it has yet to write
  wrote      \* wrote[c]: what either thread has come to write to c's log file

console == <<mpc, pos, ncmd>>
epoll   == <<epc, ev, ecli, erec>>
client  == <<net, down, up, run>>
vars    == <<heap, lock, console, epoll, client, wrote>>

Idle == [cmd |-> 0, left |-> 0]

(* The clients that are registered. *)
Members == {c \in Client : heap[c].next # Nil}

Cmd(k) == [kind |-> "cmd", cmd |-> k]
Out(k) == [kind |-> "out", cmd |-> k]

(* Every client has been registered, in some order: accept_newcli() has put it
   on clilist.  (What list_add_tail() makes of the pointers is proved in
   ListHeadProofs.tla.)                                                    *)
Registered ==
  {h \in L!Heap : \E s \in SeqOf(Client, Cardinality(Client)) :
     L!IsList(h, clilist, s) /\ Range(s) = Client}

Init ==
  /\ heap \in Registered
  /\ lock = "free"
  /\ mpc = "menu" /\ pos = Nil /\ ncmd = 0
  /\ epc = "wait" /\ ev = {} /\ ecli = Nil /\ erec = 0
  /\ net = [c \in Client |-> "up"]
  /\ down = [c \in Client |-> <<>>] /\ up = [c \in Client |-> <<>>]
  /\ run = [c \in Client |-> Idle]
  /\ wrote = [c \in Client |-> {}]

-----------------------------------------------------------------------------
(* The console thread. *)

(* Entry 3 of the menu: the class and the command are typed. *)
MAsk ==
  /\ mpc = "menu" /\ ncmd < MaxCmd
  /\ ncmd' = ncmd + 1 /\ mpc' = "lock"
  /\ UNCHANGED <<heap, lock, pos, epoll, client, wrote>>

MLock ==
  /\ mpc = "lock" /\ lock = "free"
  /\ lock' = "console" /\ pos' = L!First(heap, clilist) /\ mpc' = "record"
  /\ UNCHANGED <<heap, ncmd, epoll, client, wrote>>

(* The command is recorded in the client's log file, under cli->lock; the
   walk goes on in the same way if the file cannot be opened.              *)
MRecord ==
  /\ mpc = "record" /\ pos # clilist
  /\ wrote' = [wrote EXCEPT ![pos] = @ \cup {Cmd(ncmd)}]
  /\ mpc' = "write"
  /\ UNCHANGED <<heap, lock, pos, ncmd, epoll, client>>

(* Mutant of MWrite: the command is sent before it is recorded. *)
MWriteFirst ==
  /\ pos # clilist
  /\ \/ /\ mpc = "record" /\ mpc' = "write"
        /\ net[pos] = "up" /\ Len(down[pos]) < Cap
        /\ down' = [down EXCEPT ![pos] = Append(@, ncmd)]
        /\ UNCHANGED <<pos, wrote>>
     \/ /\ mpc = "write" /\ mpc' = "record"
        /\ wrote' = [wrote EXCEPT ![pos] = @ \cup {Cmd(ncmd)}]
        /\ pos' = L!Succ(heap, pos) /\ UNCHANGED down
  /\ UNCHANGED <<heap, lock, ncmd, epoll, net, up, run>>

(* ssltcp_write() waits for room; the locks of the walk are held. *)
MWrite ==
  /\ mpc = "write"
  /\ \/ /\ net[pos] = "up" /\ Len(down[pos]) < Cap
        /\ down' = [down EXCEPT ![pos] = Append(@, ncmd)]
     \/ net[pos] = "gone" /\ UNCHANGED down
  /\ pos' = L!Succ(heap, pos) /\ mpc' = "record"
  /\ UNCHANGED <<heap, lock, ncmd, epoll, net, up, run, wrote>>

(* Mutant of MUnlock: the way out of the walk leaves classlock locked. *)
MUnlockNot ==
  /\ mpc = "record" /\ pos = clilist
  /\ mpc' = "menu" /\ pos' = Nil
  /\ UNCHANGED <<heap, lock, ncmd, epoll, client, wrote>>

MUnlock ==
  /\ mpc = "record" /\ pos = clilist
  /\ lock' = "free" /\ mpc' = "menu" /\ pos' = Nil
  /\ UNCHANGED <<heap, ncmd, epoll, client, wrote>>

-----------------------------------------------------------------------------
(* The epoll thread. *)

(* epoll_wait() reports output and hang-ups, as they are at that moment. *)
EWait ==
  /\ epc = "wait" /\ ev = {}
  /\ ev' = {e \in Members \X BOOLEAN :
              /\ e[2] = (net[e[1]] = "gone")
              /\ e[2] \/ up[e[1]] # <<>>}
  /\ ev' # {}
  /\ UNCHANGED <<heap, lock, console, epc, ecli, erec, client, wrote>>

(* epoll_recv(): ssltcp_read() returns a record, or fails on a reset
   connection.                                                             *)
ERead(c) ==
  /\ epc = "wait" /\ <<c, FALSE>> \in ev
  /\ ecli' = c
  /\ IF up[c] # <<>>
     THEN /\ erec' = Head(up[c]) /\ up' = [up EXCEPT ![c] = Tail(@)]
          /\ epc' = "log" /\ ev' = ev \ {<<c, FALSE>>}
     ELSE /\ UNCHANGED <<erec, up>>
          /\ epc' = "free" /\ ev' = ev \ {<<c, FALSE>>}
  /\ UNCHANGED <<heap, lock, console, net, down, run, wrote>>

(* Mutant of ELog: the log file is written under classlock. *)
ELogClass ==
  /\ epc = "log" /\ lock = "free"
  /\ wrote' = [wrote EXCEPT ![ecli] = @ \cup {Out(erec)}]
  /\ epc' = "wait" /\ ecli' = Nil /\ erec' = 0
  /\ UNCHANGED <<heap, lock, console, ev, client>>

(* write_outfd(), under cli->lock. *)
ELog ==
  /\ epc = "log"
  /\ wrote' = [wrote EXCEPT ![ecli] = @ \cup {Out(erec)}]
  /\ epc' = "wait" /\ ecli' = Nil /\ erec' = 0
  /\ UNCHANGED <<heap, lock, console, ev, client>>

(* fopen() has failed: open_outfd() and close_outfd() give its NULL to
   fflush() and fclose(), and the process dies, with its connections.      *)
ELogFails ==
  /\ epc = "log"
  /\ epc' = "dead" /\ ev' = {} /\ ecli' = Nil /\ erec' = 0
  /\ mpc' = "dead" /\ pos' = Nil /\ lock' = "free"
  /\ net' = [c \in Client |-> "gone"]
  /\ run' = [c \in Client |-> Idle]
  /\ down' = [c \in Client |-> <<>>] /\ up' = [c \in Client |-> <<>>]
  /\ UNCHANGED <<heap, ncmd, wrote>>

(* EPOLLRDHUP: the client is freed, and what it wrote last is not read. *)
EHangUp(c) ==
  /\ epc = "wait" /\ <<c, TRUE>> \in ev
  /\ ecli' = c /\ epc' = "free" /\ ev' = {}
  /\ UNCHANGED <<heap, lock, console, erec, client, wrote>>

(* Mutant of EFree: the client is unlinked without classlock. *)
EFreeNow ==
  /\ epc = "free"
  /\ heap' = L!list_del(heap, ecli)
  /\ up' = [up EXCEPT ![ecli] = <<>>]
  /\ epc' = "wait" /\ ecli' = Nil
  /\ UNCHANGED <<lock, console, ev, erec, net, down, run, wrote>>

(* cli_free() waits for classlock. *)
EFree ==
  /\ epc = "free" /\ lock = "free"
  /\ heap' = L!list_del(heap, ecli)
  /\ up' = [up EXCEPT ![ecli] = <<>>]
  /\ epc' = "wait" /\ ecli' = Nil
  /\ UNCHANGED <<lock, console, ev, erec, net, down, run, wrote>>

-----------------------------------------------------------------------------
(* The clients. *)

(* Mutant of CRead: a command without output is answered by nothing. *)
CReadSilent(c, n) ==
  /\ net[c] = "up" /\ run[c] = Idle /\ down[c] # <<>>
  /\ run' = [run EXCEPT ![c] = IF n = 1 THEN Idle ELSE [cmd |-> Head(down[c]), left |-> n]]
  /\ down' = [down EXCEPT ![c] = Tail(@)]
  /\ UNCHANGED <<heap, lock, console, epoll, net, up, wrote>>

(* A command is read and run.  It fills n records with its output, or with
   "exec success" when it has none.                                        *)
CRead(c, n) ==
  /\ net[c] = "up" /\ run[c] = Idle /\ down[c] # <<>>
  /\ run' = [run EXCEPT ![c] = [cmd |-> Head(down[c]), left |-> n]]
  /\ down' = [down EXCEPT ![c] = Tail(@)]
  /\ UNCHANGED <<heap, lock, console, epoll, net, up, wrote>>

(* ssltcp_write() waits for room. *)
CWrite(c) ==
  /\ net[c] = "up" /\ run[c] # Idle /\ Len(up[c]) < Cap
  /\ up' = [up EXCEPT ![c] = Append(@, run[c].cmd)]
  /\ run' = [run EXCEPT ![c] = IF @.left = 1 THEN Idle
                              ELSE [cmd |-> @.cmd, left |-> @.left - 1]]
  /\ UNCHANGED <<heap, lock, console, epoll, net, down, wrote>>

(* The connection ends; a reset discards what the server has not read. *)
CEnds(c) ==
  /\ net[c] = "up"
  /\ net' = [net EXCEPT ![c] = "gone"]
  /\ run' = [run EXCEPT ![c] = Idle] /\ down' = [down EXCEPT ![c] = <<>>]
  /\ up' \in {up, [up EXCEPT ![c] = <<>>]}
  /\ UNCHANGED <<heap, lock, console, epoll, wrote>>

-----------------------------------------------------------------------------
MStep == MLock \/ MRecord \/ MWrite \/ MUnlock
EStep == EWait \/ ELog \/ EFree \/ \E c \in Client : ERead(c) \/ EHangUp(c)
CStep(c) == CWrite(c) \/ \E n \in 1..MaxOut : CRead(c, n)

Next == MAsk \/ MStep \/ EStep \/ ELogFails \/ \E c \in Client : CStep(c) \/ CEnds(c)

Spec == Init /\ [][Next]_vars

(* The threads of the server run, and so do the clients, whose commands end:
   only locks and full sockets keep anybody waiting.                       *)
FairSpec ==
  Spec /\ WF_vars(MStep) /\ WF_vars(EStep) /\ \A c \in Client : WF_vars(CStep(c))

-----------------------------------------------------------------------------
TypeOK ==
  /\ heap \in L!Heap
  /\ lock \in {"free", "console"} /\ (lock = "console" <=> mpc \in {"record", "write"})
  /\ mpc \in {"menu", "lock", "record", "write", "dead"}
  /\ pos = Nil <=> mpc \in {"menu", "lock", "dead"}
  /\ pos \in Client \cup {clilist, Nil} /\ ncmd \in 0..MaxCmd
  /\ epc \in {"wait", "log", "free", "dead"} /\ ev \subseteq Client \X BOOLEAN
  /\ ecli \in Client \cup {Nil} /\ erec \in 0..MaxCmd
  /\ net \in [Client -> {"up", "gone"}]
  /\ down \in [Client -> Seq(1..MaxCmd)] /\ up \in [Client -> Seq(1..MaxCmd)]
  /\ \A c \in Client : Len(down[c]) <= Cap /\ Len(up[c]) <= Cap
  /\ run \in [Client -> [cmd : 0..MaxCmd, left : 0..MaxOut]]
  /\ wrote \in [Client -> SUBSET [kind : {"cmd", "out"}, cmd : 1..MaxCmd]]

(* The log file of a client tells what it printed and why: the record of a
   command is never written after output of that command, although the console
   and the epoll thread both write the file (server/main.c: the record is made
   before the command is sent).                                            *)
RecordFirst ==
  [][\A c \in Client, k \in 1..MaxCmd :
       Cmd(k) \in wrote'[c] \ wrote[c] => Out(k) \notin wrote[c]]_vars

(* The clients that are registered are those on class->clilist, which is well
   formed, and the walk of cmd_sendcmd() is at one of them or at its end: the
   epoll thread does not unlink the client from under it, whose pointers
   list_del() makes NULL.                                                  *)
OnList ==
  /\ \E s \in SeqOf(Client, Cardinality(Client)) :
       L!IsList(heap, clilist, s) /\ Range(s) = Members
  /\ mpc \in {"record", "write"} => pos \in Members \cup {clilist}

(* No connection ends but by the end of the server. *)
Stays == [](mpc # "dead" => \A c \in Client : net[c] = "up")

(* If the connections stay up, the console returns to its menu unless the
   server dies, although it writes under classlock to clients that do not read
   while they write what they printed.                                     *)
CommandReturns == Stays => (mpc # "menu" ~> mpc \in {"menu", "dead"})

(* If so, and if commands end, the epoll thread gets to write what a command
   printed, or that it printed nothing, for every client of the class, whatever
   the client still had to read and to write when the command was typed.  It
   is not said that it then is in the file: LogFiles.OwnLog.               *)
OutcomeWritten ==
  Stays =>
    \A c \in Client, k \in 1..MaxCmd :
      ncmd = k ~> Out(k) \in wrote[c] \/ mpc = "dead"

(* command(): "3: send command to all client" - the command gets to the end
   of the list, even if a connection ends meanwhile.                       *)
ReachesAll == mpc # "menu" ~> mpc \in {"menu", "dead"}

=============================================================================
