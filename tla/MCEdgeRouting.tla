--------------------------- MODULE MCEdgeRouting ---------------------------
(* Two hosts under one wildcard; routes by host, by wildcard and without a *)
(* host, two of them versions of one id, one invalid, one without a        *)
(* healthy upstream.                                                       *)
EXTENDS EdgeRouting

CONSTANTS c1, c2, a1

Req(host, path) == [host |-> host, path |-> path]
MCRequests == {Req("x", "/"), Req("y", "/api")}
MCHosts    == {"x", "y"}
MCCovers   == {<<"*", "x">>, <<"*", "y">>}

Up(url, healthy) == [url |-> url, healthy |-> healthy]
R(id, priority, hosts, accepts, upstreams, strategy, valid) ==
    [id |-> id, priority |-> priority, hosts |-> hosts, accepts |-> accepts,
     upstreams |-> upstreams, strategy |-> strategy, valid |-> valid]

Two == <<Up("u", TRUE), Up("v", TRUE)>>
A1  == R("a", 1, {"x"}, MCRequests, Two, "RoundRobin", TRUE)
A2  == R("a", 2, {}, MCRequests, Two, "Random", TRUE)
B   == R("b", 0, {"x"}, MCRequests, <<Up("u", FALSE)>>, "RoundRobin", TRUE)
W   == R("w", 1, {"*"}, {Req("y", "/api")}, <<Up("u", FALSE), Up("v", TRUE)>>, "LeastConnections", TRUE)
V   == R("v", 3, {"*"}, MCRequests, Two, "RoundRobin", TRUE)
Bad == R("z", 3, {}, MCRequests, <<>>, "RoundRobin", FALSE)

MCRoutes  == {A1, A2, B, W, V, Bad}
MCConfigs == {<<A2, B, Bad, W>>, <<B, A1>>}
=============================================================================
