---------------------------- MODULE MCConnector ----------------------------
(* Model values for Connector: an IPv4 and an IPv6 address, and no address.*)
EXTENDS Connector, TLC

(* The other constructor of SockAddress: what it builds reads back, and a  *)
(* scope id does not touch the address.                                    *)
ASSUME PortsReadBack ==
    \A port \in {0, 1, 255, 256, 8080, 65535}, ipv6, loopback \in BOOLEAN :
        LET a == SetScopeId(FromPort(port, loopback, ipv6), One) IN
        /\ Port(a) = port
        /\ loopback => Ip(a) = IF ipv6 THEN <<Zero, Zero, Zero, One>> ELSE <<Localhost>>
        /\ ~loopback => \A i \in DOMAIN Ip(a) : Ip(a)[i] = Zero

ATargets ==
    {[text |-> <<<<10, 0, 0, 7>>>>, ipv6 |-> FALSE],
     [text |-> <<One, Zero, Zero, One>>, ipv6 |-> TRUE],
     [text |-> <<>>, ipv6 |-> FALSE]}
=============================================================================
