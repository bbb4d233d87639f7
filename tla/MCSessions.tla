----------------------------- MODULE MCSessions -----------------------------
(***************************************************************************)
(* Instances of Sessions: one session of each kind that is served, alone,  *)
(* with data and a fault; and pairs that get in each other's way.          *)
(***************************************************************************)
EXTENDS SessionsInv

CONSTANTS c1, c2

Mix(x, y) == [c \in Client |-> IF c = c1 THEN x ELSE y]
Alone == {Mix(k, "none") : k \in {"http", "socks5", "local", "netcat"}}
Pairs == {Mix("http", "local"), Mix("http", "copy"), Mix("socks5", "bind"),
          Mix("local", "junk"), Mix("netcat", "netcat")}
AllMixes == Alone \cup Pairs

Bytes == [m \in AllMixes |-> [c \in Client |->
           IF m \in Alone THEN [f |-> 2, b |-> IF m[c1] = "http" THEN 0 ELSE 1]
                          ELSE [f |-> 0, b |-> 0]]]
Faults == [m \in AllMixes |->
            IF m \in Alone \cup {Mix("socks5", "bind")} THEN 1 ELSE 0]
=============================================================================
