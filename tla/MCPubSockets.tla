---------------------------- MODULE MCPubSockets ----------------------------
(* Instances of PubSockets for TLC.                                          *)
EXTENDS PubSockets

(* Every packet type, or three of them with a gap, as 4 and 7 have.          *)
AllTypes == {1, 2, 3, 4, 7, 8, 9, 10}
SomeTypes == {1, 2, 4}

Net(host, base, inHost, inPort, inOn) ==
    [host |-> host, base |-> base, inHost |-> inHost, inPort |-> inPort,
     inOn |-> inOn]

Local == "127.0.0.1"
AnyHost == "0.0.0.0"
Typo == "127.0.0.l"

(* Neighbouring bases and one far enough for three sockets to move freely,   *)
(* every interface or one, a host that is none; commands on the same host or *)
(* on another.                                                               *)
MixedConfigs ==
    {Net(Local, 0, Local, 3, TRUE), Net(Local, 1, Local, 3, FALSE),
     Net(Local, 4, AnyHost, 3, TRUE), Net(AnyHost, 0, Local, 3, TRUE),
     Net(Typo, 1, Typo, 3, TRUE)}
MixedContested == {Endpoint(Local, 2), Endpoint(AnyHost, 5)}

(* A base and the next one.                                                  *)
NeighbourConfigs == {Net(Local, b, Local, 0, TRUE) : b \in {10, 11}}

NoEndpoints == {}
LocalHostsHere == {Local, AnyHost}

=============================================================================
