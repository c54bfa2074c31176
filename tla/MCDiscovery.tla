---------------------------- MODULE MCDiscovery ----------------------------
(* Instances of Discovery for TLC. *)
EXTENDS Discovery, TLC

CONSTANTS n1, p1, l1, l2, l3, x1, w1, m1, m2

OneBase == p1 :> n1

One == n1 :> 1
\* Two addresses, or an address with and without a host header.
Two == n1 :> 2

\* llama3.2:3b, and a model without a stated size.
Small == [name |-> "llama", embed |-> FALSE, number |-> 32, unit |-> "B", size |-> 20]
Large == [name |-> "any", embed |-> FALSE, number |-> 700, unit |-> "B", size |-> 0]
TwoModels == (m1 :> Small) @@ (m2 :> Large)

\* Around the boundaries of the buckets and of minContextK.
Boundaries == {16000, 19996, 20000, 128000}

NoLimits == [vram |-> Unset, ram |-> Unset, params |-> Unset, size |-> Unset,
             context |-> Unset, allow |-> NoList, deny |-> NoList]
Ram(gb)  == [NoLimits EXCEPT !.ram = gb * 10]
Plain(S) == {[id |-> m, blank |-> FALSE] : m \in S}
Stating(spec, allow, deny) == [spec EXCEPT !.allow = Plain(allow), !.deny = Plain(deny)]

\* No device is limited: a node and the subnets, and every kind of server that is probed.
Scans == [scan |-> TRUE, lan |-> {l1, l2}, routes |-> {}, standard |-> TRUE,
          ports |-> {}, extras |-> {}, requests |-> One, every |-> FALSE, events |-> 2,
          specs |-> <<>>, default |-> NoRow]
Ports == [Scans EXCEPT !.scan = FALSE, !.ports = {p1}, !.extras = {x1}, !.requests = Two,
                       !.events = 1]
\* Only another port is probed, and only what the node routes is scanned.
Routes == [Scans EXCEPT !.lan = {}, !.routes = {l3}, !.standard = FALSE, !.ports = {p1},
                        !.events = 1]

\* The node is limited by lists, the endpoint by its memory.
Limited == [Scans EXCEPT !.scan = FALSE, !.extras = {x1},
                !.every = TRUE, !.events = 1,
                !.specs = (n1 :> Stating(NoLimits, {m1, m2}, {m2, NoName})),
                !.default = Stating(Ram(16), {}, {})]
Unlisted == [Limited EXCEPT !.specs = <<>>, !.default = Ram(16)]

SomeEnvs == {Scans, Ports, Routes, Limited}
UnlistedEnvs == {Unlisted}
=============================================================================
