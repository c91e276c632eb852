------------------------------ MODULE ClientProofs ------------------------------
(***************************************************************************)
(* What the runs check of Client.tla, for any number of servers, any size  *)
(* of the buffer, any length of output and any limit of descriptors.       *)
(*                                                                         *)
(* TypeOK bounds what has been sent by the length of the output, and the   *)
(* descriptors by their limit; neither is kept by a step alone.  The       *)
(* inductive invariant adds which resources the daemon has open where it   *)
(* is (OpenInv), where the connection may be up (LinkInv), and where every *)
(* unit of the command's output is: not read yet, in the buffer, or sent   *)
(* (OutputInv).                                                            *)
(***************************************************************************)
EXTENDS Client, TLAPS

(* Where rctl() has popen()'s stream, an SSL, a descriptor. *)
HasFp  == {"fread", "sayok", "relay", "more"}
HasSsl == HasFp \cup {"handshake", "getmac", "register", "read", "popen", "sayfail"}
HasFd  == HasSsl \cup {"connect", "ssl"}

OpenInv ==
  /\ fp <=> pc \in HasFp
  /\ ssl <=> pc \in HasSsl
  /\ pc \in HasFd => fd

(* r_connect() tries its servers without a connection. *)
LinkInv == pc = "connect" => link = "none"

(* Of the output, left is still in the pipe, size in the buffer when it is
   about to be written, and sent has been written.  The loop goes on only
   while the buffer was full.                                              *)
OutputInv ==
  /\ pc \in {"popen", "sayfail"} => left = out /\ sent = 0 /\ ~told
  /\ pc = "fread" => sent + left = out /\ ~told /\ (isfirst <=> sent = 0)
  /\ pc = "relay" => /\ sent + size + left = out /\ ~told /\ size > 0
                     /\ size < BufLen => left = 0
  /\ pc = "sayok" => out = 0 /\ sent = 0 /\ size = 0 /\ ~told
  /\ pc = "more" => \/ out = 0 /\ sent = 0 /\ size = 0 /\ told
                    \/ /\ sent + left = out /\ sent > 0 /\ ~told
                       /\ size < BufLen => left = 0

CInv == TypeOK /\ OpenInv /\ LinkInv /\ OutputInv

USE ClientAssumption

(* Who serves the client is back in select(), and the others go on. *)
LEMMA ReleasedFacts ==
  ASSUME reg \in [Server -> Registrar]
  PROVE  Released \in [Server -> Registrar] /\ \A s \in Server : Released[s] # "client"
BY DEF Released, Registrar

(* The invariant holds when rctl() starts. *)
LEMMA InitCInv == Init => CInv
<1> SUFFICES ASSUME Init PROVE CInv
  OBVIOUS
<1>1. Used = 0
  BY DEF Init, Used
<1>2. TypeOK
  <2>1. server \in 0..TotSer /\ nics \in 0..FdLimit /\ Used <= FdLimit
    BY <1>1 DEF Init
  <2>2. out \in 0..MaxOut /\ left \in 0..MaxOut /\ size \in 0..BufLen /\ sent \in 0..MaxOut
        /\ sent <= out
    BY DEF Init
  <2> QED BY <2>1, <2>2 DEF Init, TypeOK, Registrar
<1>3. OpenInv /\ LinkInv /\ OutputInv
  BY DEF Init, OpenInv, LinkInv, OutputInv, HasFp, HasSsl, HasFd
<1> QED BY <1>2, <1>3 DEF CInv

(* The steps of the servers. *)
ServerStep(s) == RegStep(s) \/ ServerStarts(s) \/ ServerDies(s)

(* What is open follows the program counter. *)
LEMMA OpenStep == ASSUME CInv, Next PROVE OpenInv'
<1> USE DEF CInv, TypeOK, OpenInv, HasFp, HasSsl, HasFd, command, StartOver, Ends, WriteOk
<1>1. CASE Reconnect
  BY <1>1 DEF Reconnect
<1>2. CASE ConnectOk
  BY <1>2 DEF ConnectOk
<1>3. CASE ConnectFails
  BY <1>3 DEF ConnectFails
<1>4. CASE ConnectGivesUp
  BY <1>4 DEF ConnectGivesUp
<1>5. CASE SslNew
  BY <1>5 DEF SslNew
<1>6. CASE HandshakeOk
  BY <1>6 DEF HandshakeOk
<1>7. CASE HandshakeFails
  BY <1>7 DEF HandshakeFails
<1>8. CASE GetMac
  BY <1>8 DEF GetMac
<1>9. CASE Register
  BY <1>9 DEF Register
<1>10. CASE RegisterFails
  BY <1>10 DEF RegisterFails
<1>11. CASE ReadFails
  BY <1>11 DEF ReadFails
<1>12. CASE Popen
  BY <1>12 DEF Popen
<1>13. CASE PopenFails
  BY <1>13 DEF PopenFails
<1>14. CASE SayFail
  BY <1>14 DEF SayFail
<1>15. CASE SayFailFails
  BY <1>15 DEF SayFailFails
<1>16. CASE Fread
  BY <1>16 DEF Fread
<1>17. CASE SayOk
  BY <1>17 DEF SayOk
<1>18. CASE Relay
  BY <1>18 DEF Relay
<1>19. CASE RelayFails
  BY <1>19 DEF RelayFails
<1>20. CASE More
  BY <1>20 DEF More
<1>21. CASE SigPipe
  BY <1>21 DEF SigPipe, Writing
<1>22. CASE LinkEnds
  BY <1>22 DEF LinkEnds
<1>23. ASSUME NEW n \in 0..MaxOut, Read(n) PROVE OpenInv'
  BY <1>23 DEF Read
<1>24. CASE GetMacFails
  BY <1>24 DEF GetMacFails
<1>25. ASSUME NEW s \in Server, ServerStep(s) PROVE OpenInv'
  BY <1>25 DEF ServerStep, RegStep, Accepts, AcceptsOther, OtherDone, ServerStarts, ServerDies
<1> QED BY <1>1, <1>2, <1>3, <1>4, <1>5, <1>6, <1>7, <1>8, <1>9, <1>10, <1>11, <1>12,
       <1>13, <1>14, <1>15, <1>16, <1>17, <1>18, <1>19, <1>20, <1>21, <1>22, <1>23, <1>24, <1>25
    DEF Next, Step, ServerStep

(* A connection is up from ConnectOk on, and forgotten by Reconnect. *)
LEMMA LinkStep == ASSUME CInv, Next PROVE LinkInv'
<1> USE DEF CInv, LinkInv, command, StartOver, Ends, WriteOk
<1>1. CASE Reconnect
  BY <1>1 DEF Reconnect
<1>2. CASE ConnectOk
  BY <1>2 DEF ConnectOk
<1>3. CASE ConnectFails
  BY <1>3 DEF ConnectFails
<1>4. CASE ConnectGivesUp
  BY <1>4 DEF ConnectGivesUp
<1>5. CASE SslNew
  BY <1>5 DEF SslNew
<1>6. CASE HandshakeOk
  BY <1>6 DEF HandshakeOk
<1>7. CASE HandshakeFails
  BY <1>7 DEF HandshakeFails
<1>8. CASE GetMac
  BY <1>8 DEF GetMac
<1>9. CASE Register
  BY <1>9 DEF Register
<1>10. CASE RegisterFails
  BY <1>10 DEF RegisterFails
<1>11. CASE ReadFails
  BY <1>11 DEF ReadFails
<1>12. CASE Popen
  BY <1>12 DEF Popen
<1>13. CASE PopenFails
  BY <1>13 DEF PopenFails
<1>14. CASE SayFail
  BY <1>14 DEF SayFail
<1>15. CASE SayFailFails
  BY <1>15 DEF SayFailFails
<1>16. CASE Fread
  BY <1>16 DEF Fread
<1>17. CASE SayOk
  BY <1>17 DEF SayOk
<1>18. CASE Relay
  BY <1>18 DEF Relay
<1>19. CASE RelayFails
  BY <1>19 DEF RelayFails
<1>20. CASE More
  BY <1>20 DEF More
<1>21. CASE SigPipe
  BY <1>21 DEF SigPipe, Writing
<1>22. CASE LinkEnds
  BY <1>22 DEF LinkEnds
<1>23. ASSUME NEW n \in 0..MaxOut, Read(n) PROVE LinkInv'
  BY <1>23 DEF Read
<1>24. CASE GetMacFails
  BY <1>24 DEF GetMacFails
<1>25. ASSUME NEW s \in Server, ServerStep(s) PROVE LinkInv'
  BY <1>25 DEF ServerStep, RegStep, Accepts, AcceptsOther, OtherDone, ServerStarts, ServerDies
<1> QED BY <1>1, <1>2, <1>3, <1>4, <1>5, <1>6, <1>7, <1>8, <1>9, <1>10, <1>11, <1>12,
       <1>13, <1>14, <1>15, <1>16, <1>17, <1>18, <1>19, <1>20, <1>21, <1>22, <1>23, <1>24, <1>25
    DEF Next, Step, ServerStep

(* The output is written once, in order: Fread moves it from the pipe to the
   buffer, Relay from there to the connection.                             *)
LEMMA OutputStep == ASSUME CInv, Next PROVE OutputInv'
<1> USE DEF CInv, TypeOK, OutputInv, command, StartOver, Ends, WriteOk
<1>1. CASE Reconnect
  BY <1>1 DEF Reconnect
<1>2. CASE ConnectOk
  BY <1>2 DEF ConnectOk
<1>3. CASE ConnectFails
  BY <1>3 DEF ConnectFails
<1>4. CASE ConnectGivesUp
  BY <1>4 DEF ConnectGivesUp
<1>5. CASE SslNew
  BY <1>5 DEF SslNew
<1>6. CASE HandshakeOk
  BY <1>6 DEF HandshakeOk
<1>7. CASE HandshakeFails
  BY <1>7 DEF HandshakeFails
<1>8. CASE GetMac
  BY <1>8 DEF GetMac
<1>9. CASE Register
  BY <1>9 DEF Register
<1>10. CASE RegisterFails
  BY <1>10 DEF RegisterFails
<1>11. CASE ReadFails
  BY <1>11 DEF ReadFails
<1>12. CASE Popen
  BY <1>12 DEF Popen
<1>13. CASE PopenFails
  BY <1>13 DEF PopenFails
<1>14. CASE SayFail
  BY <1>14 DEF SayFail
<1>15. CASE SayFailFails
  BY <1>15 DEF SayFailFails
<1>16. CASE Fread
  BY <1>16 DEF Fread
<1>17. CASE SayOk
  BY <1>17 DEF SayOk
<1>18. CASE Relay
  BY <1>18 DEF Relay
<1>19. CASE RelayFails
  BY <1>19 DEF RelayFails
<1>20. CASE More
  BY <1>20 DEF More
<1>21. CASE SigPipe
  BY <1>21 DEF SigPipe, Writing
<1>22. CASE LinkEnds
  BY <1>22 DEF LinkEnds
<1>23. ASSUME NEW n \in 0..MaxOut, Read(n) PROVE OutputInv'
  BY <1>23 DEF Read
<1>24. CASE GetMacFails
  BY <1>24 DEF GetMacFails
<1>25. ASSUME NEW s \in Server, ServerStep(s) PROVE OutputInv'
  BY <1>25 DEF ServerStep, RegStep, Accepts, AcceptsOther, OtherDone, ServerStarts, ServerDies
<1> QED BY <1>1, <1>2, <1>3, <1>4, <1>5, <1>6, <1>7, <1>8, <1>9, <1>10, <1>11, <1>12,
       <1>13, <1>14, <1>15, <1>16, <1>17, <1>18, <1>19, <1>20, <1>21, <1>22, <1>23, <1>24, <1>25
    DEF Next, Step, ServerStep


(* Descriptors are opened only while there are some left. *)
LEMMA UsedStep == ASSUME CInv, Next PROVE nics' \in 0..FdLimit /\ Used' <= FdLimit
<1>1. CASE Reconnect
  <2>1. ~fp
    BY <1>1 DEF Reconnect, CInv, OpenInv, HasFp
  <2>2. nics' = nics /\ fp' = fp /\ fd' = (nics < FdLimit) /\ nics \in 0..FdLimit
    BY <1>1 DEF Reconnect, CInv, TypeOK
  <2>3. CASE nics < FdLimit
    BY <2>1, <2>2, <2>3 DEF Used
  <2>4. CASE ~(nics < FdLimit)
    <3>1. ~fd'
      BY <2>2, <2>4
    <3> QED BY <2>1, <2>2, <3>1 DEF Used
  <2> QED BY <2>3, <2>4
<1>2. CASE GetMac
  <2>1. CASE Used < FdLimit
    BY <1>2, <2>1 DEF GetMac, Used, CInv, TypeOK
  <2>2. CASE ~(Used < FdLimit)
    BY <1>2, <2>2 DEF GetMac, Ends, Used
  <2> QED BY <2>1, <2>2
<1>3. CASE Popen
  <2>1. ~fp
    BY <1>3 DEF Popen, CInv, OpenInv, HasFp
  <2> QED BY <1>3, <2>1 DEF Popen, Used, CInv, TypeOK
<1>4. CASE SigPipe
  BY <1>4 DEF SigPipe, Ends, Used
<1>5. CASE GetMacFails
  BY <1>5 DEF GetMacFails, Ends, Used
<1>6. CASE nics' = nics /\ (fd' => fd) /\ (fp' => fp)
  BY <1>6 DEF Used, CInv, TypeOK
<1>7. \/ Reconnect \/ GetMac \/ Popen \/ SigPipe \/ GetMacFails
      \/ nics' = nics /\ (fd' => fd) /\ (fp' => fp)
  BY DEF Next, Step, ConnectFails, ConnectGivesUp, ConnectOk, SslNew, HandshakeOk,
     HandshakeFails, Register, RegisterFails, ReadFails, PopenFails, SayFail, SayFailFails,
     Fread, SayOk, Relay, RelayFails, More, LinkEnds, Read, RegStep, Accepts, AcceptsOther,
     OtherDone, ServerStarts, ServerDies, StartOver, command
<1> QED BY <1>1, <1>2, <1>3, <1>4, <1>5, <1>6, <1>7

(* Types, and the bounds of the counters. *)
LEMMA TypeStep == ASSUME CInv, Next PROVE TypeOK'
<1> USE ReleasedFacts, UsedStep DEF CInv, TypeOK, OpenInv, LinkInv, OutputInv, HasFp, HasSsl, HasFd,
        command, StartOver, Ends, WriteOk, Registrar
<1>1. CASE Reconnect
  BY <1>1 DEF Reconnect
<1>2. CASE ConnectOk
  BY <1>2 DEF ConnectOk
<1>3. CASE ConnectFails
  BY <1>3 DEF ConnectFails
<1>4. CASE ConnectGivesUp
  BY <1>4 DEF ConnectGivesUp
<1>5. CASE SslNew
  BY <1>5 DEF SslNew
<1>6. CASE HandshakeOk
  BY <1>6 DEF HandshakeOk
<1>7. CASE HandshakeFails
  BY <1>7 DEF HandshakeFails
<1>8. CASE GetMac
  BY <1>8 DEF GetMac
<1>9. CASE Register
  BY <1>9 DEF Register
<1>10. CASE RegisterFails
  BY <1>10 DEF RegisterFails
<1>11. CASE ReadFails
  BY <1>11 DEF ReadFails
<1>12. CASE Popen
  BY <1>12 DEF Popen
<1>13. CASE PopenFails
  BY <1>13 DEF PopenFails
<1>14. CASE SayFail
  BY <1>14 DEF SayFail
<1>15. CASE SayFailFails
  BY <1>15 DEF SayFailFails
<1>16. CASE Fread
  BY <1>16 DEF Fread
<1>17. CASE SayOk
  BY <1>17 DEF SayOk
<1>18. CASE Relay
  BY <1>18 DEF Relay
<1>19. CASE RelayFails
  BY <1>19 DEF RelayFails
<1>20. CASE More
  BY <1>20 DEF More
<1>21. CASE SigPipe
  BY <1>21 DEF SigPipe, Writing
<1>22. CASE LinkEnds
  BY <1>22 DEF LinkEnds
<1>23. ASSUME NEW n \in 0..MaxOut, Read(n) PROVE TypeOK'
  <2>1. /\ out' \in 0..MaxOut /\ left' \in 0..MaxOut /\ sent' \in 0..MaxOut /\ told' \in BOOLEAN
        /\ sent' <= out'
    <3>1. out' = n /\ left' = n /\ sent' = 0 /\ told' = FALSE
      BY <1>23 DEF Read
    <3>2. 0 \in 0..MaxOut /\ 0 <= n
      OBVIOUS
    <3> QED BY <3>1, <3>2
  <2>2. pc' = "popen" /\ UNCHANGED <<server, fd, ssl, fp, nics, link, reg, size, isfirst>>
    BY <1>23 DEF Read
  <2> QED BY <2>1, <2>2
<1>24. CASE GetMacFails
  BY <1>24 DEF GetMacFails
<1>25. ASSUME NEW s \in Server, ServerStep(s) PROVE TypeOK'
  BY <1>25 DEF ServerStep, RegStep, Accepts, AcceptsOther, OtherDone, ServerStarts, ServerDies
<1> QED BY <1>1, <1>2, <1>3, <1>4, <1>5, <1>6, <1>7, <1>8, <1>9, <1>10, <1>11, <1>12,
       <1>13, <1>14, <1>15, <1>16, <1>17, <1>18, <1>19, <1>20, <1>21, <1>22, <1>23, <1>24, <1>25
    DEF Next, Step, ServerStep

(* The inductive step. *)
LEMMA CInvStep == CInv /\ [Next]_vars => CInv'
<1>1. ASSUME CInv, Next PROVE CInv'
  BY <1>1, TypeStep, OpenStep, LinkStep, OutputStep DEF CInv
<1>2. ASSUME CInv, UNCHANGED vars PROVE CInv'
  BY <1>2 DEF CInv, TypeOK, OpenInv, LinkInv, OutputInv, Used, vars, command
<1> QED BY <1>1, <1>2

(* The daemon's inductive invariant holds in every reachable state. *)
THEOREM ClientInvariance == Spec => []CInv
BY InitCInv, CInvStep, PTL DEF Spec

(* Every variable keeps its type; the client never holds more descriptors
   than it may have, never has sent more than the output of its command, and
   only the server it has connected to serves it.                          *)
THEOREM ClientTypeCorrect == Spec => []TypeOK
<1>1. CInv => TypeOK
  BY DEF CInv
<1> QED BY <1>1, ClientInvariance, PTL

(* Every "goto reconnect" of rctl() comes there without an SSL or a stream of
   popen(), and every command is read with the SSL and without a stream.   *)
THEOREM RestartsClean == Spec => []CleanRestart
<1>1. CInv => CleanRestart
  BY DEF CInv, OpenInv, CleanRestart, HasFp, HasSsl, HasFd
<1> QED BY <1>1, ClientInvariance, PTL

(* Which steps of rctl() start where a command ends, and go to the next. *)
LEMMA NextFrom ==
  ASSUME Next, CommandOver
  PROVE  \/ pc = "more" /\ More
         \/ pc = "sayfail" /\ SayFail
<1>1. CASE Step
  BY <1>1 DEF CommandOver, Step, Reconnect, ConnectFails, ConnectGivesUp, SslNew, HandshakeOk,
     HandshakeFails, GetMac, GetMacFails, Register, RegisterFails, ReadFails, Popen, PopenFails,
     SayFail, SayFailFails, Fread, SayOk, Relay, RelayFails, More, SigPipe, Ends, StartOver
<1>2. CASE ~Step
  <2>1. ~(pc \in {"more", "sayfail"}) \/ pc' = pc
    BY <1>2 DEF Next, ConnectOk, LinkEnds, Read, RegStep, Accepts, AcceptsOther, OtherDone,
       ServerStarts, ServerDies
  <2> QED BY <2>1 DEF CommandOver
<1> QED BY <1>1, <1>2

(* The server gets the whole output of a command, once, or one answer if
   there is none, for outputs and buffers of any length.                   *)
THEOREM OutputArrives == Spec => OutputWhole
<1>1. CInv /\ [Next]_vars =>
        [CommandOver => IF out > 0 /\ pc = "more" THEN sent' = out /\ ~told'
                        ELSE sent' = 0 /\ told']_vars
  <2> SUFFICES ASSUME CInv, Next, CommandOver
               PROVE  IF out > 0 /\ pc = "more" THEN sent' = out /\ ~told'
                      ELSE sent' = 0 /\ told'
    BY DEF CommandOver
  <2>1. CASE pc = "more"
    <3>1. More
      BY <2>1, NextFrom DEF CommandOver
    <3> QED BY <2>1, <3>1 DEF More, CInv, TypeOK, OutputInv, CommandOver
  <2>2. CASE pc = "sayfail"
    <3>1. SayFail
      BY <2>2, NextFrom DEF CommandOver
    <3> QED BY <2>2, <3>1 DEF SayFail, CInv, TypeOK, OutputInv
  <2> QED BY <2>1, <2>2 DEF CommandOver
<1> QED BY <1>1, ClientInvariance, PTL DEF Spec, OutputWhole

=============================================================================
