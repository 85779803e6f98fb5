------------------------------ MODULE Discovery ------------------------------
(***************************************************************************)
(* scl::DiscoveryServer and scl::DiscoveryClient: one party serves, the    *)
(* others connect to it and say which ids and ports they use; the server   *)
(* makes a configuration of that, with the hostnames the connections come  *)
(* from, and sends it to everyone.  Connections are kept by the order they *)
(* were accepted in, parties by their ids.  What ids the clients are       *)
(* started with is up to those who start them.  Instead, all of them may   *)
(* load their configuration from a copy of one file.                       *)
(***************************************************************************)
EXTENDS NetworkConfig, FiniteSets

CONSTANTS Clients,  \* the processes that run a client
          Me,       \* the id the server is started with
          StartIds, \* the ids the clients may be started with: some functions
          HostOf,   \* the hostname of the machine of a client, or of Server
          PortOf,   \* the port a client, or Server, wants used
          Server,   \* the process that runs the server
          Files,    \* files they may load: whose line comes first, second, ...
          None

NParties == Cardinality(Clients) + 1

ASSUME MeAssumption == IsFiniteSet(Clients) /\ Clients # {} /\ Server \notin Clients /\ Me \in 0 .. NParties - 1

ASSUME NoneAssumption == None \notin Clients \cup {Server}

\* Two processes of one machine cannot listen at the same port: `could not bind
\* socket' (src/secure-computation-library/src/scl/net/tcp_utils.cc:33).
ASSUME AddressAssumption ==
  \A c, d \in Clients \cup {Server} : c # d => HostOf[c] # HostOf[d] \/ PortOf[c] # PortOf[d]

VARIABLES
  file,      \* the file that is loaded, or None
  idOf,      \* the ids clients are started with, and Me
  clients,   \* where a client is: "start", "connected", "waiting", "done", or
             \* "threw", "killed" or "undefined"
  backlog,   \* who has connected and was not accepted yet
  server,    \* where the server is: "accept", "collect", "send", "done", "threw"
  slot,      \* i of its loops
  channels,  \* channels[i]: the client of the i-th slot, None at the server's
  parties,   \* the list the server makes
  sentTo,    \* the clients the server has sent its configuration to
  config     \* config[c]: the list a process ends up with, or None

vars == << file, idOf, clients, backlog, server, slot, channels, parties, sentTo, config >>

Slots == 0 .. NParties - 1
All == Clients \cup {Server}

\* A Party that nobody has filled in.
NoParty == Party(0, "", 0)

MeParty == Party(Me, HostOf[Server], PortOf[Server])

\* The server's own slot is left out of its loops.
Following(i) == IF i + 1 = Me THEN i + 2 ELSE i + 1

FirstSlot == IF Me = 0 THEN 1 ELSE 0

\* An id of NParties stands for all that are too large.
ASSUME StartIdsAssumption ==
  StartIds \subseteq [Clients -> 0 .. NParties] /\ Files \subseteq [1 .. NParties -> All]

DiscoveryInit ==
  /\ \E ids \in StartIds : idOf = [c \in All |-> IF c = Server THEN Me ELSE ids[c]]
  /\ file \in Files \cup {None}
  /\ clients = [c \in Clients |-> "start"] /\ backlog = << >>
  /\ server = "accept" /\ slot = FirstSlot
  /\ channels = [i \in Slots |-> None]
  /\ parties = [i \in 1 .. NParties |-> IF i = Me + 1 THEN MeParty ELSE NoParty]
  /\ sentTo = {}
  /\ config = [c \in All |-> None]

-----------------------------------------------------------------------------
(* A client.                                                                *)

ConnectAsClient(c) ==
  /\ file = None /\ clients[c] = "start"
  /\ clients' = [clients EXCEPT ![c] = "connected"]
  /\ backlog' = Append(backlog, c)
  /\ UNCHANGED << file, idOf, server, slot, channels, parties, sentTo, config >>

\* Writing to a connection the server has closed may end the process.
SendIdAndPort(c) ==
  /\ clients[c] = "connected"
  /\ \/ clients' = [clients EXCEPT ![c] = "waiting"]
     \/ server = "threw" /\ clients' = [clients EXCEPT ![c] = "killed"]
  /\ UNCHANGED << file, idOf, backlog, server, slot, channels, parties, sentTo, config >>

\* The parties of a configuration at the places of their ids.
ByTheirIds(ps) ==
  [i \in DOMAIN ps |-> IF \E j \in DOMAIN ps : ps[j].id = i - 1
                         THEN ps[CHOOSE j \in DOMAIN ps : ps[j].id = i - 1] ELSE NoParty]

ReceiveNetworkConfig(c) ==
  LET ps == ByTheirIds(parties) IN
  /\ clients[c] = "waiting" /\ c \in sentTo
  /\ IF Valid(idOf[c], ps)
       THEN /\ clients' = [clients EXCEPT ![c] = "done"]
            /\ config' = [config EXCEPT ![c] = ps]
       ELSE clients' = [clients EXCEPT ![c] = "threw"] /\ UNCHANGED config
  /\ UNCHANGED << file, idOf, backlog, server, slot, channels, parties, sentTo >>

\* A server that has thrown closes its connections.  Recv then returns without
\* having received, and the client goes on with a size that was never written.
ReceiveAtEnd(c) ==
  /\ clients[c] = "waiting" /\ server = "threw"
  /\ clients' = [clients EXCEPT ![c] = "undefined"]
  /\ UNCHANGED << file, idOf, backlog, server, slot, channels, parties, sentTo, config >>

-----------------------------------------------------------------------------
(* The server.                                                              *)

\* On to the next slot, or to the next phase.
Goes(next) ==
  IF Following(slot) < NParties THEN slot' = Following(slot) /\ UNCHANGED server
                                ELSE slot' = FirstSlot /\ server' = next

Accept ==
  /\ server = "accept" /\ backlog # << >>
  /\ channels' = [channels EXCEPT ![slot] = Head(backlog)]
  /\ backlog' = Tail(backlog)
  /\ Goes("collect")
  /\ UNCHANGED << file, idOf, clients, parties, sentTo, config >>

\* mHostnames, which Run fills in while it accepts.
mHostnames(i) == IF i = Me THEN HostOf[Server] ELSE HostOf[channels[i]]

\* What the server notes of a client that it hears of in slot i.
Noted(i, id) == Party(id, mHostnames(id), PortOf[channels[i]])

\* Fault: at the place of its slot.
PlaceOfSlot(i, id) == i

\* Where the server puts it.
PlaceOfId(i, id) == id

\* The last party is followed by the check of the constructor.
Collect ==
  LET c == channels[slot]
      id == idOf[c]
      noted == [parties EXCEPT ![PlaceOfId(slot, id) + 1] = Noted(slot, id)]
  IN  /\ server = "collect" /\ clients[c] = "waiting"
      /\ IF id >= NParties THEN server' = "threw" /\ UNCHANGED << parties, slot >>
         ELSE /\ parties' = noted
              /\ IF Following(slot) >= NParties /\ ~Valid(Me, noted)
                   THEN server' = "threw" /\ UNCHANGED slot
                   ELSE Goes("send")
      /\ UNCHANGED << file, idOf, clients, backlog, channels, sentTo, config >>

SendNetworkConfig ==
  /\ server = "send"
  /\ sentTo' = sentTo \cup {channels[slot]}
  /\ Goes("done")
  /\ UNCHANGED << file, idOf, clients, backlog, channels, parties, config >>

Return ==
  /\ file = None /\ server = "done" /\ config[Server] = None
  /\ config' = [config EXCEPT ![Server] = parties]
  /\ UNCHANGED << file, idOf, clients, backlog, server, slot, channels, parties, sentTo >>

-----------------------------------------------------------------------------
(* Load.  A line has what its party was started with; the list is in the order *)
(* of the lines, whatever their ids.                                           *)

Lines == [i \in 1 .. NParties |-> Party(idOf[file[i]], HostOf[file[i]], PortOf[file[i]])]

Load(c) ==
  /\ file # None
  /\ config[c] = None
  /\ LET end == IF Valid(idOf[c], Lines) THEN "done" ELSE "threw"
     IN  IF c = Server
           THEN server = "accept" /\ server' = end /\ UNCHANGED clients
           ELSE clients[c] = "start" /\ clients' = [clients EXCEPT ![c] = end] /\ UNCHANGED server
  /\ config' = [config EXCEPT ![c] = IF Valid(idOf[c], Lines) THEN Lines ELSE None]
  /\ UNCHANGED << file, idOf, backlog, slot, channels, parties, sentTo >>

Ended == \A c \in Clients : clients[c] \in {"done", "threw", "killed", "undefined"}
ServerStep == Accept \/ Collect \/ SendNetworkConfig \/ Return
ClientStep(c) == ConnectAsClient(c) \/ SendIdAndPort(c) \/ ReceiveNetworkConfig(c) \/ ReceiveAtEnd(c)

DiscoveryStep == ServerStep \/ (\E c \in Clients : ClientStep(c)) \/ \E c \in All : Load(c)

-----------------------------------------------------------------------------
(* Properties.                                                              *)

\* Everyone was started with an id of its own.
IdsAreRight == \A c, d \in All : idOf[c] < NParties /\ (c # d => idOf[c] # idOf[d])

\* Those who have a configuration find each party at its own machine.
HostsAreRight ==
  \A c, d \in All : config[c] # None => GetParty(config[c], idOf[d]).hostname = HostOf[d]

\* The clients were accepted, or the lines are, in the order of their ids.
InOrderOfIds ==
  \A i \in Slots : IF file = None THEN channels[i] # None => idOf[channels[i]] = i
                                  ELSE idOf[file[i + 1]] = i

\* All who end with a configuration end with the same.  If the clients have the
\* right ids, then in whatever order they connect each party is given with its
\* own port, and, if that order is the one of the ids, with its own hostname.
\* From a file, each party is found at its own machine and port if the lines are
\* in the order of the ids.
\* That two parties were started with the same id is noticed, except where the id
\* that nobody has is 0, which is also that of a Party nobody has filled in.
ConfigsAgree ==
  /\ \A c, d \in All : config[c] # None /\ config[d] # None => config[c] = config[d]
  /\ IdsAreRight =>
       /\ file = None \/ InOrderOfIds =>
            \A c, d \in All : config[c] # None => GetParty(config[c], idOf[d]).port = PortOf[d]
       /\ InOrderOfIds => HostsAreRight
  /\ server \in {"send", "done"} /\ ~IdsAreRight => \A c \in All : idOf[c] # 0
=============================================================================
