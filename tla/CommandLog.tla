------------------------------ MODULE CommandLog ------------------------------
(***************************************************************************)
(* What RaftNode promises to the servers above it: there is one log of      *)
(* commands, which only grows, and the callbacks of each server are given   *)
(* its commands from the first on, in order, none twice and none left out;  *)
(* a server that starts again is given them again.                          *)
(***************************************************************************)
EXTENDS Integers, Sequences

CONSTANTS
  Server,  \* the servers, one above each node
  Command  \* what an entry of the log may be

VARIABLES
  log,     \* the commands that have been given to any server
  given    \* how many of them each server has been given since it started

vars == <<log, given>>

Init == log = <<>> /\ given = [s \in Server |-> 0]

Grows ==
  /\ Len(log') >= Len(log) /\ SubSeq(log', 1, Len(log)) = log
  /\ \A i \in Len(log) + 1 .. Len(log') : log'[i] \in Command

(* A server is given the commands that follow, new ones perhaps.            *)
Give(s) ==
  /\ given' = [given EXCEPT ![s] = given'[s]]
  /\ given'[s] > given[s]
  /\ Grows
  /\ Len(log') = IF given'[s] > Len(log) THEN given'[s] ELSE Len(log)

StartAgain(s) == given' = [given EXCEPT ![s] = 0] /\ UNCHANGED log

Next == \E s \in Server : Give(s) \/ StartAgain(s)

Spec == Init /\ [][Next]_vars
=============================================================================
