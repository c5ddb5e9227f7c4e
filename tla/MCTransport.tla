---------------------------- MODULE MCTransport ----------------------------
(***************************************************************************)
(* Instances of Transport for TLC: a read and a write, or two calls with   *)
(* short-lived tokens, on one API.                                         *)
(***************************************************************************)
EXTENDS Transport

CONSTANTS read, write, graph, none

MCCalls == {read, write}
MCWrites == {write}
MCApis == {graph}
MCApiOf == [c \in MCCalls |-> graph]

\* Headers that ask for less than nothing, for something and for too much.
MCAsked == {-1, 1, 9}

=============================================================================
