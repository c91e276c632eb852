------------------------------ MODULE Directory ------------------------------
(***************************************************************************)
(* What the server's directory of clients promises, without threads, locks *)
(* or pointers: classes are listed by name, a client is a member of at     *)
(* most one class, a class stays listed as long as it has a member, and    *)
(* command 3 of the menu reaches exactly the clients that are members of   *)
(* the class at one single instant.  Server.tla implements this module.    *)
(***************************************************************************)
CONSTANTS
  Conn,     \* the client connections
  Name      \* the class names

VARIABLES
  listed,   \* names of the classes "1: list all class" prints
  members,  \* members[n]: the clients of class n
  reached   \* the clients the last completed send has written to

dvars == <<listed, members, reached>>

DInit ==
  /\ listed = {}
  /\ members = [n \in Name |-> {}]
  /\ reached = {}

-----------------------------------------------------------------------------
(* The first client of a class makes it appear. *)
Open(n) ==
  /\ n \notin listed
  /\ listed' = listed \cup {n}
  /\ UNCHANGED <<members, reached>>

(* A client that is nowhere becomes a member of a listed class. *)
Join(c, n) ==
  /\ n \in listed
  /\ \A m \in Name : c \notin members[m]
  /\ members' = [members EXCEPT ![n] = @ \cup {c}]
  /\ UNCHANGED <<listed, reached>>

(* The connection of a member ended. *)
Leave(c, n) ==
  /\ c \in members[n]
  /\ members' = [members EXCEPT ![n] = @ \ {c}]
  /\ UNCHANGED <<listed, reached>>

(* A class without members disappears. *)
Retire(n) ==
  /\ n \in listed
  /\ members[n] = {}
  /\ listed' = listed \ {n}
  /\ UNCHANGED <<members, reached>>

(* A command goes to all the members of one class, at one instant. *)
Send(n) ==
  /\ n \in listed
  /\ reached' = members[n]
  /\ UNCHANGED <<listed, members>>

(* The server dies and forgets everything; clients connect again. *)
Forget ==
  /\ listed' = {}
  /\ members' = [n \in Name |-> {}]
  /\ reached' = {}

DNext ==
  \/ Forget
  \/ \E n \in Name :
       \/ Open(n)
       \/ Retire(n)
       \/ Send(n)
       \/ \E c \in Conn : Join(c, n) \/ Leave(c, n)

DSpec == DInit /\ [][DNext]_dvars
=============================================================================
