---------------------------- MODULE SessionIoMC -----------------------------
(* The packets of the run of SessionIo; the field values differ in every byte *)
(* that is not zero.                                                         *)
EXTENDS SessionIo

Name(n) == [i \in 1 .. n |-> 65]
Login(guid, type) == [func |-> "LOGIN", guid |-> guid, addr |-> 4660, type |-> SessionType[type]]
Proxy(game) == [func |-> "PROXY", id |-> 7, dst |-> 515, game |-> game]

\* Names at the bounds of what a length byte is read as: understood, refused, and
\* wrapping around.
MCRequests ==
    { Login(Name(127), "NONE"), Login(Name(128), "CLIENT"), Login(Name(251), "NONE"),
      Login(<<65>>, "SERVER"),
      Proxy(Name(246)),
      [func |-> "GETPROXIES", id |-> 7],
      [func |-> "HEARTBEAT", body |-> <<>>] }

MCNotices ==
    { [func |-> "ACCESS", src |-> 9, udp |-> 1, addr |-> 258, port |-> 772, private |-> 1286],
      [func |-> "STOPPROXY", udp |-> 1, addr |-> 258, port |-> 772] }

MCEnds == { [udp |-> 1, addr |-> 258, port |-> 772] }

MCListings == { <<1, 9, 0, 0, 0, 2, 1, 0, 0>> }
=============================================================================
