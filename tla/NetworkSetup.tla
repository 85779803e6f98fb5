---------------------------- MODULE NetworkSetup ----------------------------
(***************************************************************************)
(* scl::Network::Create and CreateThreadedSenders, by processes that have  *)
(* their configuration from the discovery, or from a file: a process goes  *)
(* on as soon as it has one, the others may still be waiting for theirs.  A party accepts   *)
(* connections from the parties with greater ids, in a thread of its own,  *)
(* and connects to those with smaller ids, one after the other, trying     *)
(* until there is somebody to connect to.  Whoever connects sends its id   *)
(* first, at once or through a sender thread, which is how the other side  *)
(* learns whose connection it has.  Only processes that were all started   *)
(* with the right ids go on here.                                          *)
(***************************************************************************)
EXTENDS Discovery

VARIABLES
  listening,  \* the socket of the server thread: "no", "yes" or "closed"
  waiting,    \* waiting[c]: who has connected to c and was not accepted yet
  accepting,  \* accepting[c]: whose connection the server thread reads an id from
  nAccepted,  \* how many the server thread has put in channels
  nConnected, \* how many smaller ids the main thread has put in channels
  socket,     \* socket[c]: who the main thread has connected to, or None
  idSent,     \* pairs c, d: c has sent its id to d, which has not read it yet
  network     \* network[c]: its channels: the process at the end of each, or None

setupVars == << listening, waiting, accepting, nAccepted, nConnected, socket, idSent, network >>

Init ==
  /\ DiscoveryInit
  /\ listening = [c \in All |-> "no"]
  /\ waiting = [c \in All |-> << >>]
  /\ accepting = [c \in All |-> None]
  /\ nAccepted = [c \in All |-> 0] /\ nConnected = [c \in All |-> 0]
  /\ socket = [c \in All |-> None]
  /\ idSent = {}
  /\ network = [c \in All |-> [i \in Slots |-> IF i = idOf[c] THEN c ELSE None]]

Started(c) == IdsAreRight /\ config[c] # None

NGreater(c) == NParties - idOf[c] - 1

-----------------------------------------------------------------------------
(* The server thread.                                                       *)

Listen(c) ==
  /\ Started(c) /\ listening[c] = "no"
  /\ listening' = [listening EXCEPT ![c] = IF NGreater(c) = 0 THEN "closed" ELSE "yes"]
  /\ UNCHANGED << vars, waiting, accepting, nAccepted, nConnected, socket, idSent, network >>

AcceptParty(c) ==
  /\ listening[c] = "yes" /\ accepting[c] = None /\ waiting[c] # << >>
  /\ accepting' = [accepting EXCEPT ![c] = Head(waiting[c])]
  /\ waiting' = [waiting EXCEPT ![c] = Tail(@)]
  /\ UNCHANGED << vars, listening, nAccepted, nConnected, socket, idSent, network >>

\* Fault: at the next place, the way the loop counts.
PlaceInOrder(c, d) == idOf[c] + 1 + nAccepted[c]

\* Where the channel to the client goes: at the id it sends.
PlaceOf(c, d) == idOf[d]

\* The id is waited for before the next connection is accepted.
ReadId(c) ==
  LET d == accepting[c] IN
  /\ d # None /\ << d, c >> \in idSent
  /\ idSent' = idSent \ {<< d, c >>}
  /\ network' = [network EXCEPT ![c][PlaceOf(c, d)] = d]
  /\ nAccepted' = [nAccepted EXCEPT ![c] = @ + 1]
  /\ accepting' = [accepting EXCEPT ![c] = None]
  /\ listening' = [listening EXCEPT ![c] = IF nAccepted[c] + 1 = NGreater(c) THEN "closed" ELSE @]
  /\ UNCHANGED << vars, waiting, nConnected, socket >>

-----------------------------------------------------------------------------
(* The main thread.                                                         *)

\* Fault: a party looks for the others at its own port.
ListensAtOwnPort(d, c, i) ==
  /\ listening[d] = "yes"
  /\ HostOf[d] = GetParty(config[c], i).hostname
  /\ GetParty(config[d], idOf[d]).port = GetParty(config[c], idOf[c]).port

\* Who listens where c's configuration says that party i does: a party listens
\* on its own machine, at the port its own configuration gives for its id.
ListensAt(d, c, i) ==
  /\ listening[d] = "yes"
  /\ HostOf[d] = GetParty(config[c], i).hostname
  /\ GetParty(config[d], idOf[d]).port = GetParty(config[c], i).port

Connecting(c) == Started(c) /\ socket[c] = None /\ nConnected[c] < idOf[c]

Connect(c) ==
  /\ Connecting(c)
  /\ \E d \in All :
       /\ ListensAt(d, c, nConnected[c])
       /\ socket' = [socket EXCEPT ![c] = d]
       /\ waiting' = [waiting EXCEPT ![d] = Append(@, c)]
  /\ UNCHANGED << vars, listening, accepting, nAccepted, nConnected, idSent, network >>

\* A call of connect that finds nobody is repeated after a while.
Retry(c) ==
  /\ Connecting(c) /\ \A d \in All : ~ListensAt(d, c, nConnected[c])
  /\ UNCHANGED << vars, setupVars >>

\* Accept waits, as long as nobody connects.
AcceptWaits(c) ==
  /\ listening[c] = "yes" /\ accepting[c] = None /\ waiting[c] = << >>
  /\ UNCHANGED << vars, setupVars >>

\* The id is on its way and the channel is kept.
SendId(c) ==
  LET d == socket[c] IN
  /\ d # None
  /\ idSent' = idSent \cup {<< c, d >>}
  /\ network' = [network EXCEPT ![c][nConnected[c]] = d]
  /\ nConnected' = [nConnected EXCEPT ![c] = @ + 1]
  /\ socket' = [socket EXCEPT ![c] = None]
  /\ UNCHANGED << vars, listening, waiting, accepting, nAccepted >>

\* The main thread has joined the server thread and returns the network.
Created(c) == listening[c] = "closed" /\ nConnected[c] = idOf[c]

Step(c) == Listen(c) \/ AcceptParty(c) \/ ReadId(c) \/ Connect(c) \/ SendId(c)

\* The discovery has ended, without configurations for all or with networks.
Over ==
  /\ Ended /\ (config[Server] # None \/ server = "threw")
  /\ \A c \in All : Started(c) => Created(c)
  /\ UNCHANGED << vars, setupVars >>

Next ==
  \/ DiscoveryStep /\ UNCHANGED setupVars
  \/ \E c \in All : Step(c) \/ Retry(c) \/ AcceptWaits(c)
  \/ Over

\* Every process and its thread run, and a message that was sent arrives.
Spec ==
  /\ Init /\ [][Next]_<< vars, setupVars >>
  /\ WF_<< vars, setupVars >>(ServerStep /\ UNCHANGED setupVars)
  /\ \A c \in Clients : WF_<< vars, setupVars >>(ClientStep(c) /\ UNCHANGED setupVars)
  /\ \A c \in All : WF_<< vars, setupVars >>(Load(c) /\ UNCHANGED setupVars)
  /\ \A c \in All : WF_<< vars, setupVars >>(Step(c))

-----------------------------------------------------------------------------
(* Properties.                                                              *)

\* A network that Create has returned has a channel to every party, and the one
\* at place i leads to party i, in whatever order they connected.
ChannelsLeadToTheirParty ==
  HostsAreRight =>
    \A c \in All : Started(c) /\ Created(c) =>
      \A i \in Slots : network[c][i] # None /\ idOf[network[c][i]] = i

\* Nobody waits for ever in the discovery, whatever the ids.  With the right ids
\* everyone then gets a network, whoever is first, unless the hostnames in the
\* configuration are wrong: though ids are read in the order of connections, a
\* party never waits for one that waits for it.  Ports may be given to others in the
\* lines of a file: everyone looks at the same place for them.
EveryoneGetsANetwork ==
  <>[](Ended /\ (IdsAreRight /\ HostsAreRight => \A c \in All : Started(c) /\ Created(c)))
=============================================================================
