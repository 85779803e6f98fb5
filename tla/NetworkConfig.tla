---------------------------- MODULE NetworkConfig ----------------------------
(***************************************************************************)
(* scl::NetworkConfig: the id of the party it is for, and a list of all    *)
(* parties, each with an id, a hostname and a port.  The list is in the    *)
(* order it came in (Load keeps that of the lines of the file) and is      *)
(* indexed by position, from 0.                                            *)
(***************************************************************************)
EXTENDS Integers, Sequences

Party(id, hostname, port) == [id |-> id, hostname |-> hostname, port |-> port]

\* Validate: the ids are those of the parties of a network of this size.
IdsInRange(parties) == \A i \in DOMAIN parties : parties[i].id < Len(parties)
IdsDistinct(parties) == \A i, j \in DOMAIN parties : i # j => parties[i].id # parties[j].id

Valid(id, parties) == id < Len(parties) /\ IdsInRange(parties) /\ IdsDistinct(parties)

\* GetParty takes a position.
GetParty(parties, i) == parties[i + 1]

Localhost(n, portBase) == [i \in 1 .. n |-> Party(i - 1, "127.0.0.1", portBase + i - 1)]
=============================================================================
