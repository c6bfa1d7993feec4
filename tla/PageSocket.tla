------------------------------ MODULE PageSocket ------------------------------
(* The socket of one room page: one hook opens it, the others listen on it.    *)
(* A broadcast reaches the page only while the gateway has it in the room.     *)
EXTENDS Naturals

CONSTANT MaxDrops     \* bound: connections lost, joins refused, sockets replaced

VARIABLES
  socket,     \* "none": no token; "down"; "joining"; "in"; "out": refused, yet connected
  drops

socketVars == <<socket, drops>>

SocketInit == socket \in {"none", "in"} /\ drops = 0

Receiving == socket = "in"

\* A token: the effect opens a socket.
SignIn ==
  /\ socket = "none" /\ socket' = "down"
  /\ UNCHANGED drops

\* Every connect, the first and each reconnect, asks for the room again.
Connect ==
  /\ socket = "down" /\ socket' = "joining"
  /\ UNCHANGED drops

JoinRoom ==
  /\ socket = "joining" /\ socket' = "in"
  /\ UNCHANGED drops

Trouble == drops < MaxDrops /\ drops' = drops + 1

\* room_full or join_unavailable: the page ignores the answer.
JoinRefused ==
  /\ socket = "joining" /\ socket' = "out"
  /\ Trouble

Drop ==
  /\ socket \in {"joining", "in", "out"} /\ socket' = "down"
  /\ Trouble

\* A renewed token closes the socket and opens another one.
Replace ==
  /\ socket # "none" /\ socket' = "down"
  /\ Trouble
===============================================================================
