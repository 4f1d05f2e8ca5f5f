----------------------------- MODULE SockAddress -----------------------------
(***************************************************************************)
(* SockAddress, the union of a sockaddr_in and a sockaddr_in6, as the      *)
(* seven words both consist of: family and port share the first word and   *)
(* have the same place in both; the IPv4 address is word 1, where the IPv6 *)
(* variant has its flow label; the IPv6 address is words 2 to 5; the scope *)
(* id is word 6.  A word is four bytes in network order.                   *)
(*                                                                         *)
(* A text is the sequence of words it stands for: one for an IPv4 address  *)
(* in dotted notation, four for an IPv6 address, none for an empty string. *)
(***************************************************************************)
EXTENDS Integers, Sequences

Zero      == <<0, 0, 0, 0>>
Localhost == <<127, 0, 0, 1>>           \* htonl(INADDR_LOOPBACK)
One       == <<0, 0, 0, 1>>             \* the end of in6addr_loopback

(* htons and ntohs of a little-endian machine. *)
SwapBytes(n) == (n % 256) * 256 + n \div 256

(* Where an address of a family starts, and its length. *)
AddrAt(family)  == IF family = "inet" THEN 1 ELSE 2
AddrLen(family) == IF family = "inet" THEN 1 ELSE 4

(* bzero, the port and the family. *)
Blank(port, ipv6) ==
    [family |-> IF ipv6 THEN "inet6" ELSE "inet", port |-> SwapBytes(port),
     words |-> [i \in 1 .. 6 |-> Zero]]

(* The address a with the words of s stored from word k on. *)
Store(a, k, s) ==
    [a EXCEPT !.words = [i \in 1 .. 6 |-> IF i - k + 1 \in DOMAIN s THEN s[i - k + 1] ELSE @[i]]]

(* SockAddress(port, loopback, ipv6) *)
FromPort(port, loopback, ipv6) ==
    LET a    == Blank(port, ipv6)
        last == IF ~loopback THEN Zero ELSE IF ipv6 THEN One ELSE Localhost
    IN  Store(a, AddrAt(a.family) + AddrLen(a.family) - 1, <<last>>)

FromTextShifted(text, port, ipv6) == Store(Blank(port, ipv6), 2, text)

(* SockAddress(ip, port, ipv6): inet_pton stores at sin_addr whatever the  *)
(* family is, and nothing if the text is not of the family.  Without a     *)
(* text the family becomes INADDR_ANY, which is the number of AF_UNSPEC.   *)
FromText(text, port, ipv6) ==
    LET a == Blank(port, ipv6) IN
    IF text = <<>> THEN [a EXCEPT !.family = "unspec"]
    ELSE IF Len(text) # AddrLen(a.family) THEN a
    ELSE Store(a, 1, text)

(* ip(), port() and setScopeId() *)
Ip(a) ==
    IF a.family = "unspec" THEN <<>>
    ELSE SubSeq(a.words, AddrAt(a.family), AddrAt(a.family) + AddrLen(a.family) - 1)

Port(a) == SwapBytes(a.port)

SetScopeId(a, id) == IF a.family = "inet6" THEN Store(a, 6, <<id>>) ELSE a
=============================================================================
